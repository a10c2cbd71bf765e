----------------------------- MODULE RouterProofs -----------------------------
(***************************************************************************)
(* Theorems about Router and CommandLine: the properties of the candidate  *)
(* lists, for every configuration and registry.  They rest on a small      *)
(* theory of sequences that list a set in an order: what Kept and          *)
(* FlattenSeq, the loops of the code, do to such sequences.                *)
(***************************************************************************)
EXTENDS CommandLine, FiniteSetTheorems, SequenceTheorems, WellFoundedInduction, TLAPS

\* Induction over the natural numbers, for a set instead of a predicate.
LEMMA NatSetInduction ==
  ASSUME NEW A, 0 \in A, \A n \in Nat : n \in A => n + 1 \in A
  PROVE  Nat \subseteq A
<1> SUFFICES ASSUME Nat \ A # {} PROVE FALSE
  OBVIOUS
<1>1. PICK m \in Nat \ A : \A k \in Nat \ A : ~ (<<k, m>> \in OpToRel(<, Nat))
  BY NatLessThanWellFounded, WFMin, Zenon
<1>2. \A k \in Nat \ A : ~ (k < m)
  BY <1>1 DEF OpToRel
<1> QED
  BY <1>2

-----------------------------------------------------------------------------
(* Sequences that list a set                                               *)

\* s is the sequence of the g[x] for the x in S, in an order that respects the
\* relation R.
Lists(s, g, S, R) == \E u \in Seq(S) :
    /\ s = [i \in 1..Len(u) |-> g[u[i]]]
    /\ \A x \in S : \E i \in 1..Len(u) : u[i] = x
    /\ \A i, j \in 1..Len(u) : i < j => <<u[i], u[j]>> \in R

\* The first elements of a list, and the elements it has.
LEMMA ListsNone ==
  ASSUME NEW g, NEW R
  PROVE  Lists(<<>>, g, {}, R)
<1> DEFINE u == <<>>
<1>1. u \in Seq({}) /\ Len(u) = 0
  BY EmptySeq
<1>2. u = [i \in 1..Len(u) |-> g[u[i]]]
  OBVIOUS
<1>3. \A i \in 1..Len(u) : FALSE
  BY <1>1
<1> HIDE DEF u
<1>4. Lists(u, g, {}, R)
  BY <1>1, <1>2, <1>3 DEF Lists
<1> QED
  BY <1>4 DEF u

LEMMA ListsRange ==
  ASSUME NEW s, NEW g, NEW S, NEW R, Lists(s, g, S, R)
  PROVE  /\ DOMAIN s = 1..Len(s) /\ Len(s) \in Nat
         /\ ToSet(s) = {g[x] : x \in S}
         /\ s = <<>> <=> S = {}
<1>1. PICK u \in Seq(S) : /\ s = [i \in 1..Len(u) |-> g[u[i]]]
                          /\ \A x \in S : \E i \in 1..Len(u) : u[i] = x
  BY DEF Lists
<1>2. Len(u) \in Nat /\ \A i \in 1..Len(u) : u[i] \in S
  OBVIOUS
<1>3. DOMAIN s = 1..Len(s) /\ Len(s) = Len(u)
  BY <1>1, <1>2
<1>4. ToSet(s) = {g[x] : x \in S}
  BY <1>1, <1>2, <1>3 DEF ToSet
<1>5. s = <<>> => S = {}
  <2>1. s = <<>> => Len(s) = 0
    OBVIOUS
  <2> QED BY <1>1, <1>3, <2>1
<1>6. S = {} => s = <<>>
  <2> SUFFICES ASSUME S = {} PROVE s = <<>>
    OBVIOUS
  <2>1. u = <<>>
    BY <1>2, EmptySeq
  <2> QED BY <1>1, <2>1
<1> QED
  BY <1>2, <1>3, <1>4, <1>5, <1>6

\* A sequence lists its places in ascending order.
Ascending == {p \in Nat \X Nat : p[1] < p[2]}

LEMMA ListsPlaces ==
  ASSUME NEW T, NEW s \in Seq(T)
  PROVE  Lists(s, s, 1..Len(s), Ascending)
<1> DEFINE u == [i \in 1..Len(s) |-> i]
<1>1. u \in Seq(1..Len(s)) /\ Len(u) = Len(s)
  OBVIOUS
<1>2. s = [i \in 1..Len(u) |-> s[u[i]]]
  BY <1>1
<1>3. \A x \in 1..Len(s) : \E i \in 1..Len(u) : u[i] = x
  BY <1>1
<1>4. \A i, j \in 1..Len(u) : i < j => <<u[i], u[j]>> \in Ascending
  BY <1>1 DEF Ascending
<1> HIDE DEF u
<1> QED
  BY <1>1, <1>2, <1>3, <1>4 DEF Lists

\* Another relation that the order respects
LEMMA ListsInOrder ==
  ASSUME NEW s, NEW g, NEW S, NEW R, NEW Q, Lists(s, g, S, R),
         \A x, y \in S : <<x, y>> \in R => <<x, y>> \in Q
  PROVE  Lists(s, g, S, Q)
<1>1. PICK u \in Seq(S) :
        /\ s = [i \in 1..Len(u) |-> g[u[i]]]
        /\ \A x \in S : \E i \in 1..Len(u) : u[i] = x
        /\ \A i, j \in 1..Len(u) : i < j => <<u[i], u[j]>> \in R
  BY DEF Lists
<1>2. \A i \in 1..Len(u) : u[i] \in S
  OBVIOUS
<1>3. \A i, j \in 1..Len(u) : i < j => <<u[i], u[j]>> \in Q
  BY <1>1, <1>2
<1> QED
  BY <1>1, <1>3 DEF Lists

\* One list after another
LEMMA ListsConcat ==
  ASSUME NEW g, NEW R, NEW s, NEW S, Lists(s, g, S, R), NEW t, NEW T, Lists(t, g, T, R),
         \A x \in S, y \in T : <<x, y>> \in R
  PROVE  Lists(s \o t, g, S \cup T, R)
<1>1. PICK u \in Seq(S) :
        /\ s = [i \in 1..Len(u) |-> g[u[i]]]
        /\ \A x \in S : \E i \in 1..Len(u) : u[i] = x
        /\ \A i, j \in 1..Len(u) : i < j => <<u[i], u[j]>> \in R
  BY DEF Lists
<1>2. PICK v \in Seq(T) :
        /\ t = [i \in 1..Len(v) |-> g[v[i]]]
        /\ \A x \in T : \E i \in 1..Len(v) : v[i] = x
        /\ \A i, j \in 1..Len(v) : i < j => <<v[i], v[j]>> \in R
  BY DEF Lists
<1> DEFINE w == u \o v
           m == Len(u)
           n == Len(v)
<1>3. m \in Nat /\ n \in Nat
      /\ (\A i \in 1..m : u[i] \in S) /\ (\A i \in 1..n : v[i] \in T)
  OBVIOUS
<1>4. w \in Seq(S \cup T) /\ Len(w) = m + n
      /\ \A i \in 1..(m + n) : w[i] = IF i <= m THEN u[i] ELSE v[i - m]
  <2>1. u \in Seq(S \cup T) /\ v \in Seq(S \cup T)
    BY SeqMonotonic
  <2> QED BY <2>1, ConcatProperties
<1>5. s \o t = [i \in 1..Len(w) |-> g[w[i]]]
  <2> DEFINE G == {g[x] : x \in S \cup T}
  <2>1. s \in Seq(G) /\ Len(s) = m /\ t \in Seq(G) /\ Len(t) = n
    BY <1>1, <1>2, <1>3
  <2>2. /\ s \o t \in Seq(G) /\ Len(s \o t) = m + n
        /\ \A i \in 1..(m + n) : (s \o t)[i] = IF i <= m THEN s[i] ELSE t[i - m]
    <3> HIDE DEF G, m, n
    <3>1. /\ s \o t \in Seq(G) /\ Len(s \o t) = Len(s) + Len(t)
          /\ \A i \in 1..(Len(s) + Len(t)) :
                (s \o t)[i] = IF i <= Len(s) THEN s[i] ELSE t[i - Len(s)]
      BY <2>1, ConcatProperties
    <3> QED BY <2>1, <3>1
  <2>3. s \o t = [i \in 1..(m + n) |-> (s \o t)[i]]
    <3> HIDE DEF G, m, n
    <3>1. s \o t = [i \in 1..Len(s \o t) |-> (s \o t)[i]]
      BY <2>2, LenProperties
    <3> QED BY <2>2, <3>1
  <2>4. \A i \in 1..(m + n) : (s \o t)[i] = g[w[i]]
    <3> TAKE i \in 1..(m + n)
    <3> HIDE DEF w, G
    <3>1. CASE i <= m
      BY <3>1, <1>1, <1>3, <1>4, <2>2
    <3>2. CASE ~ (i <= m)
      <4>1. i - m \in 1..n
        BY <3>2, <1>3
      <4> QED BY <3>2, <4>1, <1>2, <1>3, <1>4, <2>2
    <3> QED BY <3>1, <3>2
  <2> HIDE DEF w
  <2> QED BY <2>3, <2>4, <1>4
<1>6. \A x \in S \cup T : \E i \in 1..Len(w) : w[i] = x
  <2> HIDE DEF w
  <2> TAKE x \in S \cup T
  <2>1. CASE x \in S
    BY <2>1, <1>1, <1>3, <1>4
  <2>2. CASE x \in T
    <3>1. PICK i \in 1..n : v[i] = x
      BY <2>2, <1>2
    <3>2. m + i \in 1..(m + n) /\ ~ (m + i <= m) /\ (m + i) - m = i
      BY <1>3
    <3> QED BY <3>1, <3>2, <1>4
  <2> QED BY <2>1, <2>2
<1>7. \A i, j \in 1..Len(w) : i < j => <<w[i], w[j]>> \in R
  <2> HIDE DEF w
  <2> SUFFICES ASSUME NEW i \in 1..(m + n), NEW j \in 1..(m + n), i < j
               PROVE  <<w[i], w[j]>> \in R
    BY <1>4
  <2>1. CASE j <= m
    <3>1. i \in 1..m /\ j \in 1..m
      BY <2>1, <1>3
    <3>2. w[i] = u[i] /\ w[j] = u[j]
      BY <3>1, <1>3, <1>4
    <3> QED BY <3>1, <3>2, <1>1
  <2>2. CASE i <= m /\ ~ (j <= m)
    <3>1. j - m \in 1..n
      BY <2>2, <1>3
    <3>2. w[i] = u[i] /\ w[j] = v[j - m]
      BY <2>2, <1>4
    <3>3. i \in 1..m
      BY <2>2, <1>3
    <3>4. w[i] \in S /\ w[j] \in T
      BY <3>1, <3>2, <3>3, <1>3
    <3> QED BY <3>4
  <2>3. CASE ~ (i <= m)
    <3>1. i - m \in 1..n /\ j - m \in 1..n /\ i - m < j - m /\ ~ (j <= m)
      BY <2>3, <1>3
    <3> QED BY <2>3, <3>1, <1>2, <1>4
  <2> QED BY <2>1, <2>2, <2>3, <1>3
<1> HIDE DEF w
<1> QED
  BY <1>4, <1>5, <1>6, <1>7 DEF Lists

\* One more element
LEMMA ListsAppend ==
  ASSUME NEW g, NEW R, NEW s, NEW S, Lists(s, g, S, R), NEW x,
         \A y \in S : <<y, x>> \in R
  PROVE  Lists(Append(s, g[x]), g, S \cup {x}, R)
<1> DEFINE t == <<g[x]>>
<1>1. Lists(t, g, {x}, R)
  <2>1. <<x>> \in Seq({x}) /\ Len(<<x>>) = 1 /\ <<x>>[1] = x
    OBVIOUS
  <2>2. t = [i \in 1..Len(<<x>>) |-> g[<<x>>[i]]]
    OBVIOUS
  <2>3. \A y \in {x} : \E i \in 1..Len(<<x>>) : <<x>>[i] = y
    BY <2>1
  <2>4. \A i, j \in 1..Len(<<x>>) : i < j => <<<<x>>[i], <<x>>[j]>> \in R
    BY <2>1
  <2> HIDE DEF t
  <2> QED BY <2>1, <2>2, <2>3, <2>4 DEF Lists
<1>2. Lists(s \o t, g, S \cup {x}, R)
  <2> HIDE DEF t
  <2> QED BY <1>1, ListsConcat
<1>3. s \o t = Append(s, g[x])
  <2>1. PICK u \in Seq(S) : s = [i \in 1..Len(u) |-> g[u[i]]]
    BY DEF Lists
  <2>2. s \in Seq({g[y] : y \in S \cup {x}})
    BY <2>1
  <2> QED BY <2>2
<1> QED
  BY <1>2, <1>3

-----------------------------------------------------------------------------
(* Kept and FlattenSeq are recursive functions; their equations are proved  *)
(* here.                                                                    *)

KeptAt(f, s, X, n) ==
    IF n = 0 THEN <<>>
    ELSE IF s[n] \in X THEN Append(f[n - 1], s[n]) ELSE f[n - 1]

LEMMA KeptExists ==
  ASSUME NEW s, NEW X, NEW N \in Nat
  PROVE  \E f : f = [n \in 0..N |-> KeptAt(f, s, X, n)]
<1> DEFINE A == {n \in Nat : \E f : f = [k \in 0..n |-> KeptAt(f, s, X, k)]}
<1>1. 0 \in A
  <2> DEFINE f == [k \in 0..0 |-> <<>>]
  <2>1. f = [k \in 0..0 |-> KeptAt(f, s, X, k)]
    BY DEF KeptAt
  <2> QED BY <2>1
<1>2. ASSUME NEW n \in Nat, n \in A PROVE n + 1 \in A
  <2>1. PICK f : f = [k \in 0..n |-> KeptAt(f, s, X, k)]
    BY <1>2
  <2> DEFINE g == [k \in 0..(n + 1) |-> IF k = n + 1 THEN KeptAt(f, s, X, n + 1) ELSE f[k]]
  <2>2. ASSUME NEW k \in 0..(n + 1) PROVE g[k] = KeptAt(g, s, X, k)
    <3>1. k # 0 => k - 1 \in 0..n /\ g[k - 1] = f[k - 1]
      OBVIOUS
    <3>2. k # n + 1 => g[k] = f[k] /\ f[k] = KeptAt(f, s, X, k)
      BY <2>1
    <3>3. k = n + 1 => g[k] = KeptAt(f, s, X, k)
      OBVIOUS
    <3> HIDE DEF g
    <3> QED BY <3>1, <3>2, <3>3 DEF KeptAt
  <2>3. g = [k \in 0..(n + 1) |-> KeptAt(g, s, X, k)]
    BY <2>2
  <2> HIDE DEF g
  <2> QED BY <2>3
<1> HIDE DEF A
<1>3. N \in A
  BY <1>1, <1>2, NatSetInduction
<1> QED
  BY <1>3 DEF A

LEMMA KeptDef ==
  ASSUME NEW s, NEW X, Len(s) \in Nat
  PROVE  \E f : /\ Kept(s, X) = f[Len(s)]
                /\ \A n \in 0..Len(s) : f[n] = KeptAt(f, s, X, n)
<1> DEFINE F == CHOOSE f : f = [n \in 0..Len(s) |-> KeptAt(f, s, X, n)]
<1>1. F = [n \in 0..Len(s) |-> KeptAt(F, s, X, n)]
  BY KeptExists
<1>2. Kept(s, X) = F[Len(s)]
  BY DEF Kept, KeptAt
<1> HIDE DEF F
<1> QED
  BY <1>1, <1>2

\* The comprehension keeps a list a list: of the elements in X, in the same order.
LEMMA ListsKept ==
  ASSUME NEW s, NEW g, NEW S, NEW R, Lists(s, g, S, R), NEW X
  PROVE  Lists(Kept(s, X), g, {x \in S : g[x] \in X}, R)
<1>1. PICK u \in Seq(S) :
        /\ s = [i \in 1..Len(u) |-> g[u[i]]]
        /\ \A x \in S : \E i \in 1..Len(u) : u[i] = x
        /\ \A i, j \in 1..Len(u) : i < j => <<u[i], u[j]>> \in R
  BY DEF Lists
<1>2. Len(u) \in Nat /\ Len(s) = Len(u) /\ \A i \in 1..Len(u) : u[i] \in S /\ s[i] = g[u[i]]
  BY <1>1
<1>3. PICK f : /\ Kept(s, X) = f[Len(s)]
               /\ \A n \in 0..Len(s) : f[n] = KeptAt(f, s, X, n)
  BY <1>2, KeptDef
<1> DEFINE Upto(n) == {u[i] : i \in {j \in 1..n : g[u[j]] \in X}}
           A == {n \in Nat : n <= Len(u) => Lists(f[n], g, Upto(n), R)}
<1>4. 0 \in A
  <2>1. f[0] = <<>> /\ Upto(0) = {}
    BY <1>2, <1>3 DEF KeptAt
  <2> QED BY <2>1, ListsNone
<1>5. ASSUME NEW n \in Nat, n \in A PROVE n + 1 \in A
  <2> SUFFICES ASSUME n + 1 <= Len(u) PROVE Lists(f[n + 1], g, Upto(n + 1), R)
    OBVIOUS
  <2>1. Lists(f[n], g, Upto(n), R) /\ n + 1 \in 1..Len(u) /\ n + 1 \in 0..Len(s) /\ n + 1 # 0
    BY <1>2, <1>5
  <2>2. s[n + 1] = g[u[n + 1]] /\ (n + 1) - 1 = n
    BY <1>2, <2>1
  <2>3. CASE g[u[n + 1]] \in X
    <3>1. f[n + 1] = Append(f[n], g[u[n + 1]])
      BY <1>3, <2>1, <2>2, <2>3 DEF KeptAt
    <3>2. Upto(n + 1) = Upto(n) \cup {u[n + 1]}
      BY <2>3
    <3>3. \A y \in Upto(n) : <<y, u[n + 1]>> \in R
      BY <1>1, <1>2, <2>1
    <3> HIDE DEF Upto
    <3> QED BY <2>1, <3>1, <3>2, <3>3, ListsAppend
  <2>4. CASE g[u[n + 1]] \notin X
    <3>1. f[n + 1] = f[n]
      BY <1>3, <2>1, <2>2, <2>4 DEF KeptAt
    <3>2. Upto(n + 1) = Upto(n)
      BY <2>4
    <3> HIDE DEF Upto
    <3> QED BY <2>1, <3>1, <3>2
  <2> QED BY <2>3, <2>4
<1>6. Len(u) \in A
  <2> HIDE DEF A
  <2> QED BY <1>2, <1>4, <1>5, NatSetInduction
<1>7. Upto(Len(u)) = {x \in S : g[x] \in X}
  BY <1>1, <1>2
<1>8. Lists(f[Len(u)], g, Upto(Len(u)), R)
  <2> HIDE DEF Upto
  <2> QED BY <1>2, <1>6
<1> HIDE DEF Upto, A
<1> QED
  BY <1>2, <1>3, <1>7, <1>8

FlatAt(f, ss, n) == IF n = 1 THEN ss[n] ELSE f[n - 1] \o ss[n]

LEMMA FlatExists ==
  ASSUME NEW ss, NEW N \in Nat
  PROVE  \E f : f = [n \in 1..N |-> FlatAt(f, ss, n)]
<1> DEFINE A == {n \in Nat : \E f : f = [k \in 1..n |-> FlatAt(f, ss, k)]}
<1>1. 0 \in A
  <2> DEFINE f == [k \in 1..0 |-> ss]
  <2>1. f = [k \in 1..0 |-> FlatAt(f, ss, k)]
    OBVIOUS
  <2> QED BY <2>1
<1>2. ASSUME NEW n \in Nat, n \in A PROVE n + 1 \in A
  <2>1. PICK f : f = [k \in 1..n |-> FlatAt(f, ss, k)]
    BY <1>2
  <2> DEFINE g == [k \in 1..(n + 1) |-> IF k = n + 1 THEN FlatAt(f, ss, n + 1) ELSE f[k]]
  <2>2. ASSUME NEW k \in 1..(n + 1) PROVE g[k] = FlatAt(g, ss, k)
    <3>1. k # 1 => k - 1 \in 1..n /\ g[k - 1] = f[k - 1]
      OBVIOUS
    <3>2. k # n + 1 => g[k] = f[k] /\ f[k] = FlatAt(f, ss, k)
      BY <2>1
    <3>3. k = n + 1 => g[k] = FlatAt(f, ss, k)
      OBVIOUS
    <3> HIDE DEF g
    <3> QED BY <3>1, <3>2, <3>3 DEF FlatAt
  <2>3. g = [k \in 1..(n + 1) |-> FlatAt(g, ss, k)]
    BY <2>2
  <2> HIDE DEF g
  <2> QED BY <2>3
<1> HIDE DEF A
<1>3. N \in A
  BY <1>1, <1>2, NatSetInduction
<1> QED
  BY <1>3 DEF A

LEMMA FlatDef ==
  ASSUME NEW ss, Len(ss) \in Nat \ {0}
  PROVE  \E f : /\ FlattenSeq(ss) = f[Len(ss)]
                /\ \A n \in 1..Len(ss) : f[n] = FlatAt(f, ss, n)
<1> DEFINE F == CHOOSE f : f = [n \in 1..Len(ss) |-> FlatAt(f, ss, n)]
<1>1. F = [n \in 1..Len(ss) |-> FlatAt(F, ss, n)]
  BY FlatExists
<1>2. FlattenSeq(ss) = F[Len(ss)]
  <2>1. FlattenSeq(ss) = (CHOOSE f : f = [n \in 1..Len(ss) |->
                             IF n = 1 THEN ss[n] ELSE f[n - 1] \o ss[n]])[Len(ss)]
    BY DEF FlattenSeq
  <2> QED BY <2>1 DEF FlatAt
<1> HIDE DEF F
<1> QED
  BY <1>1, <1>2

\* The nested loops: lists of sets that follow each other in the order make a list of
\* their union.
LEMMA ListsFlatten ==
  ASSUME NEW N \in Nat, NEW ss, ss = [i \in 1..N |-> ss[i]], NEW g, NEW R, NEW Parts,
         \A i \in 1..N : Lists(ss[i], g, Parts[i], R),
         \A i, j \in 1..N : i < j => \A x \in Parts[i], y \in Parts[j] : <<x, y>> \in R
  PROVE  Lists(FlattenSeq(ss), g, UNION {Parts[i] : i \in 1..N}, R)
<1>1. Len(ss) = N
  OBVIOUS
<1>2. CASE N = 0
  <2>1. ss = <<>> /\ UNION {Parts[i] : i \in 1..N} = {}
    BY <1>2
  <2>2. FlattenSeq(ss) = <<>>
    BY <1>1, <1>2, <2>1 DEF FlattenSeq
  <2> QED BY <2>1, <2>2, ListsNone
<1>3. CASE N # 0
  <2>1. PICK f : /\ FlattenSeq(ss) = f[Len(ss)]
                 /\ \A n \in 1..Len(ss) : f[n] = FlatAt(f, ss, n)
    BY <1>1, <1>3, FlatDef
  <2> DEFINE Upto(n) == UNION {Parts[i] : i \in 1..n}
             A == {n \in Nat : n \in 1..N => Lists(f[n], g, Upto(n), R)}
  <2>2. 0 \in A
    OBVIOUS
  <2>3. ASSUME NEW n \in Nat, n \in A PROVE n + 1 \in A
    <3> SUFFICES ASSUME n + 1 \in 1..N PROVE Lists(f[n + 1], g, Upto(n + 1), R)
      OBVIOUS
    <3>1. Lists(ss[n + 1], g, Parts[n + 1], R) /\ (n + 1) - 1 = n
      OBVIOUS
    <3>2. CASE n = 0
      <4>1. f[n + 1] = ss[n + 1]
        BY <1>1, <2>1, <3>2 DEF FlatAt
      <4>2. Upto(n + 1) = Parts[n + 1]
        BY <3>2
      <4> HIDE DEF Upto
      <4> QED BY <3>1, <4>1, <4>2
    <3>3. CASE n # 0
      <4>1. f[n + 1] = f[n] \o ss[n + 1]
        <5>1. f[n + 1] = FlatAt(f, ss, n + 1) /\ n + 1 # 1
          BY <1>1, <2>1, <3>3
        <5> QED BY <3>1, <5>1 DEF FlatAt
      <4>2. Lists(f[n], g, Upto(n), R)
        BY <2>3, <3>3
      <4>3. Upto(n + 1) = Upto(n) \cup Parts[n + 1]
        OBVIOUS
      <4>4. ASSUME NEW x \in Upto(n), NEW y \in Parts[n + 1] PROVE <<x, y>> \in R
        <5>1. PICK i \in 1..n : x \in Parts[i]
          OBVIOUS
        <5>2. i \in 1..N /\ i < n + 1
          OBVIOUS
        <5> QED BY <5>1, <5>2
      <4> HIDE DEF Upto
      <4> QED BY <3>1, <4>1, <4>2, <4>3, <4>4, ListsConcat
    <3> QED BY <3>2, <3>3
  <2>4. N \in A
    <3> HIDE DEF A
    <3> QED BY <2>2, <2>3, NatSetInduction
  <2>5. Lists(f[N], g, Upto(N), R)
    <3> HIDE DEF Upto
    <3> QED BY <1>3, <2>4
  <2> QED BY <1>1, <2>1, <2>5
<1> QED
  BY <1>2, <1>3

-----------------------------------------------------------------------------
(* Places                                                                    *)

\* In a list of a set by a relation that is never both ways, each element has the
\* place that counting the elements before it gives.
LEMMA ListsByPlace ==
  ASSUME NEW s, NEW g, NEW S, NEW R, Lists(s, g, S, R),
         \A x, y \in S : <<x, y>> \in R => <<y, x>> \notin R
  PROVE  /\ IsFiniteSet(S)
         /\ Len(s) = Cardinality(S)
         /\ \A x \in S : s[1 + Cardinality({y \in S : <<y, x>> \in R})] = g[x]
<1>1. PICK u \in Seq(S) :
        /\ s = [i \in 1..Len(u) |-> g[u[i]]]
        /\ \A x \in S : \E i \in 1..Len(u) : u[i] = x
        /\ \A i, j \in 1..Len(u) : i < j => <<u[i], u[j]>> \in R
  BY DEF Lists
<1> DEFINE N == Len(u)
<1>2. N \in Nat /\ Len(s) = N /\ \A i \in 1..N : u[i] \in S /\ s[i] = g[u[i]]
  BY <1>1
<1>3. \A i, j \in 1..N : u[i] = u[j] => i = j
  <2> SUFFICES ASSUME NEW i \in 1..N, NEW j \in 1..N, u[i] = u[j], i < j PROVE FALSE
    BY <1>2
  <2>1. <<u[i], u[j]>> \in R /\ u[i] \in S /\ u[j] \in S
    BY <1>1, <1>2
  <2> QED BY <2>1
\* The first elements are as many as they are.
<1>4. ASSUME NEW n \in 0..N
      PROVE  LET T == {u[i] : i \in 1..n} IN IsFiniteSet(T) /\ Cardinality(T) = n
  <2> DEFINE T == {u[i] : i \in 1..n}
             f == [i \in 1..n |-> u[i]]
  <2>1. f \in Bijection(1..n, T)
    BY <1>2, <1>3 DEF Bijection, Injection, Surjection, IsInjective
  <2>2. ExistsBijection(1..n, T) /\ IsFiniteSet(1..n) /\ n \in Nat
    <3>1. n \in Nat
      BY <1>2
    <3>2. IsFiniteSet(1..n)
      BY <3>1, FS_Interval
    <3> HIDE DEF f, T
    <3> QED BY <2>1, <3>1, <3>2 DEF ExistsBijection
  <2> HIDE DEF T
  <2>3. IsFiniteSet(T) /\ Cardinality(T) = n
    BY <2>2, FS_Bijection, FS_CountingElements
  <2> QED BY <2>3 DEF T
<1>5. IsFiniteSet(S) /\ Len(s) = Cardinality(S)
  <2>1. S = {u[i] : i \in 1..N}
    BY <1>1, <1>2
  <2>2. N \in 0..N
    BY <1>2
  <2> HIDE DEF N
  <2> QED BY <1>2, <1>4, <2>1, <2>2
<1>6. ASSUME NEW x \in S
      PROVE  s[1 + Cardinality({y \in S : <<y, x>> \in R})] = g[x]
  <2>1. PICK n \in 1..N : u[n] = x
    BY <1>1
  <2>2. {y \in S : <<y, x>> \in R} = {u[i] : i \in 1..(n - 1)}
    <3>1. ASSUME NEW y \in S, <<y, x>> \in R PROVE \E i \in 1..(n - 1) : u[i] = y
      <4>1. PICK i \in 1..N : u[i] = y
        BY <1>1
      <4>2. ~ (n < i) /\ i # n
        BY <1>1, <2>1, <3>1, <4>1
      <4> QED BY <1>2, <4>1, <4>2
    <3>2. ASSUME NEW i \in 1..(n - 1) PROVE u[i] \in S /\ <<u[i], x>> \in R
      <4>1. i \in 1..N /\ i < n
        BY <1>2
      <4> QED BY <1>1, <1>2, <2>1, <4>1
    <3> QED BY <3>1, <3>2
  <2>3. Cardinality({y \in S : <<y, x>> \in R}) = n - 1 /\ 1 + (n - 1) = n
    <3>1. n - 1 \in 0..N /\ 1 + (n - 1) = n
      BY <1>2
    <3> DEFINE T == {u[i] : i \in 1..(n - 1)}
    <3>2. Cardinality(T) = n - 1
      BY <1>4, <3>1
    <3> HIDE DEF T
    <3> QED BY <2>2, <3>1, <3>2 DEF T
  <2> QED BY <1>2, <2>1, <2>3
<1> QED
  BY <1>5, <1>6

-----------------------------------------------------------------------------
(* What the router's loops list                                              *)

\* The configuration and the registry are of the constants' sets.
RouterInv == cfg \in Configs /\ registry \in Registries

LEMMA RouterInvariant == RouterSpec => []RouterInv
<1>1. RouterInit => RouterInv
  BY DEF RouterInit, RouterInv
<1>2. RouterInv /\ [RouterNext]_routerVars => RouterInv'
  BY DEF RouterInv, RouterNext, LoadConfig, LoadRegistry, routerVars
<1> QED
  BY <1>1, <1>2, PTL DEF RouterSpec

LEMMA RouterTypes ==
  ASSUME RouterInv
  PROVE  /\ registry \in Seq(Entry) /\ cfg.keys \in Seq(Key)
         /\ DOMAIN registry = 1..Len(registry) /\ Len(registry) \in Nat
         /\ DOMAIN cfg.keys = 1..Len(cfg.keys) /\ Len(cfg.keys) \in Nat
         /\ \A i \in DOMAIN registry : registry[i] \in Entry /\ registry[i] \in ToSet(registry)
         /\ \A j \in DOMAIN cfg.keys : cfg.keys[j] \in Key /\ cfg.keys[j] \in ToSet(cfg.keys)
         /\ \A name \in DOMAIN cfg.policies : cfg.policies[name] \in Policy
<1>1. registry \in Seq(Entry) /\ cfg.keys \in Seq(Key)
      /\ \A name \in DOMAIN cfg.policies : cfg.policies[name] \in Policy
  BY RouterAssumption DEF RouterInv, RouterAssumption
<1>2. DOMAIN registry = 1..Len(registry) /\ Len(registry) \in Nat
      /\ DOMAIN cfg.keys = 1..Len(cfg.keys) /\ Len(cfg.keys) \in Nat
  BY <1>1, LenProperties
<1>3. \A i \in DOMAIN registry : registry[i] \in Entry
  BY <1>1, <1>2
<1>4. \A j \in DOMAIN cfg.keys : cfg.keys[j] \in Key
  BY <1>1, <1>2
<1> QED
  BY <1>1, <1>2, <1>3, <1>4 DEF ToSet

\* The places of the enabled keys, and of those of a provider
EnabledAt == {j \in DOMAIN cfg.keys : cfg.keys[j].enabled}
KeysAt(provider) == {j \in EnabledAt : cfg.keys[j].provider = provider}

LEMMA ListsKeys ==
  ASSUME RouterInv
  PROVE  /\ Lists(EnabledKeys, cfg.keys, EnabledAt, Ascending)
         /\ \A provider : Lists(KeysOf(provider), cfg.keys, KeysAt(provider), Ascending)
<1>1. Lists(cfg.keys, cfg.keys, DOMAIN cfg.keys, Ascending)
  BY RouterTypes, ListsPlaces
<1>2. Lists(EnabledKeys, cfg.keys, EnabledAt, Ascending)
  <2> DEFINE X == {k \in ToSet(cfg.keys) : k.enabled}
  <2>1. Lists(Kept(cfg.keys, X), cfg.keys, {j \in DOMAIN cfg.keys : cfg.keys[j] \in X}, Ascending)
    BY <1>1, ListsKept
  <2>2. {j \in DOMAIN cfg.keys : cfg.keys[j] \in X} = EnabledAt
    BY RouterTypes DEF EnabledAt
  <2> QED BY <2>1, <2>2 DEF EnabledKeys
<1>3. ASSUME NEW provider
      PROVE  Lists(KeysOf(provider), cfg.keys, KeysAt(provider), Ascending)
  <2> DEFINE X == {k \in ToSet(EnabledKeys) : k.provider = provider}
  <2>1. Lists(Kept(EnabledKeys, X), cfg.keys, {j \in EnabledAt : cfg.keys[j] \in X}, Ascending)
    BY <1>2, ListsKept
  <2>2. ToSet(EnabledKeys) = {cfg.keys[j] : j \in EnabledAt}
    BY <1>2, ListsRange
  <2>3. {j \in EnabledAt : cfg.keys[j] \in X} = KeysAt(provider)
    BY <2>2 DEF KeysAt
  <2> QED BY <2>1, <2>3 DEF KeysOf
<1> QED
  BY <1>2, <1>3

\* The routes for the places of entries and keys; the pairs of entries with places
\* in E; the order of pairs that an order of the entries gives
Made(limits) == [p \in (DOMAIN registry) \X (DOMAIN cfg.keys) |->
    Route(registry[p[1]], cfg.keys[p[2]], limits[registry[p[1]]][cfg.keys[p[2]]])]

PairsOf(E) == {p \in E \X (DOMAIN cfg.keys) : p[2] \in KeysAt(registry[p[1]].provider)}

ByEntry(R) == {pq \in (Nat \X Nat) \X (Nat \X Nat) :
    \/ <<pq[1][1], pq[2][1]>> \in R
    \/ pq[1][1] = pq[2][1] /\ pq[1][2] < pq[2][2]}

\* The inner loop, over the keys of one entry
LEMMA ListsInner ==
  ASSUME RouterInv, NEW a \in DOMAIN registry, NEW limits, NEW R
  PROVE  LET ks == KeysOf(registry[a].provider)
         IN  Lists([j \in 1..Len(ks) |-> Route(registry[a], ks[j], limits[registry[a]][ks[j]])],
                   Made(limits), {a} \X KeysAt(registry[a].provider), ByEntry(R))
<1> DEFINE ks == KeysOf(registry[a].provider)
           K  == KeysAt(registry[a].provider)
           G  == Made(limits)
           s  == [j \in 1..Len(ks) |-> Route(registry[a], ks[j], limits[registry[a]][ks[j]])]
<1>1. PICK v \in Seq(K) :
        /\ ks = [i \in 1..Len(v) |-> cfg.keys[v[i]]]
        /\ \A x \in K : \E i \in 1..Len(v) : v[i] = x
        /\ \A i, j \in 1..Len(v) : i < j => <<v[i], v[j]>> \in Ascending
  <2> HIDE DEF ks, K
  <2>1. Lists(ks, cfg.keys, K, Ascending)
    BY ListsKeys DEF ks, K
  <2> QED BY <2>1 DEF Lists
<1>2. K \subseteq DOMAIN cfg.keys /\ DOMAIN cfg.keys \subseteq Nat /\ DOMAIN registry \subseteq Nat
  BY RouterTypes DEF KeysAt, EnabledAt
<1> DEFINE w == [j \in 1..Len(v) |-> <<a, v[j]>>]
<1> HIDE DEF ks, K
<1>3. Len(v) \in Nat /\ Len(ks) = Len(v) /\ \A j \in 1..Len(v) : v[j] \in K /\ ks[j] = cfg.keys[v[j]]
  BY <1>1
<1>4. w \in Seq({a} \X K) /\ Len(w) = Len(v) /\ \A j \in 1..Len(v) : w[j] = <<a, v[j]>>
  BY <1>3
<1>5. s = [j \in 1..Len(w) |-> G[w[j]]]
  <2>1. ASSUME NEW j \in 1..Len(v)
        PROVE  G[w[j]] = Route(registry[a], ks[j], limits[registry[a]][ks[j]])
    <3>1. w[j] \in (DOMAIN registry) \X (DOMAIN cfg.keys) /\ w[j][1] = a /\ w[j][2] = v[j]
      BY <1>2, <1>3, <1>4
    <3> HIDE DEF w
    <3> QED BY <3>1, <1>3 DEF Made
  <2> HIDE DEF w, G
  <2> QED BY <2>1, <1>3, <1>4
<1>6. \A x \in {a} \X K : \E j \in 1..Len(w) : w[j] = x
  <2> TAKE x \in {a} \X K
  <2> HIDE DEF w
  <2>1. x = <<a, x[2]>> /\ x[2] \in K
    OBVIOUS
  <2>2. PICK j \in 1..Len(v) : v[j] = x[2]
    BY <1>1, <2>1
  <2> QED BY <1>4, <2>1, <2>2
<1>7. \A i, j \in 1..Len(w) : i < j => <<w[i], w[j]>> \in ByEntry(R)
  <2> SUFFICES ASSUME NEW i \in 1..Len(v), NEW j \in 1..Len(v), i < j
               PROVE  <<<<a, v[i]>>, <<a, v[j]>>>> \in ByEntry(R)
    BY <1>4
  <2>1. v[i] < v[j] /\ v[i] \in Nat /\ v[j] \in Nat /\ a \in Nat
    BY <1>1, <1>2, <1>3 DEF Ascending
  <2> QED BY <2>1 DEF ByEntry
<1>8. Lists(s, G, {a} \X K, ByEntry(R))
  <2> HIDE DEF s, w, G
  <2> QED BY <1>4, <1>5, <1>6, <1>7 DEF Lists
<1> QED
  BY <1>8 DEF ks, K

\* Both loops: the routes of a list of entries list the pairs of these.
LEMMA ListsRoutes ==
  ASSUME RouterInv, NEW entries, NEW E \in SUBSET DOMAIN registry, NEW R, NEW limits,
         Lists(entries, registry, E, R)
  PROVE  Lists(Routes(entries, limits), Made(limits), PairsOf(E), ByEntry(R))
<1>1. PICK u \in Seq(E) :
        /\ entries = [i \in 1..Len(u) |-> registry[u[i]]]
        /\ \A x \in E : \E i \in 1..Len(u) : u[i] = x
        /\ \A i, j \in 1..Len(u) : i < j => <<u[i], u[j]>> \in R
  BY DEF Lists
<1> DEFINE N == Len(u)
           ss == [i \in 1..Len(entries) |->
                    LET ks == KeysOf(entries[i].provider)
                    IN  [j \in 1..Len(ks) |-> Route(entries[i], ks[j], limits[entries[i]][ks[j]])]]
           Parts == [i \in 1..N |-> {u[i]} \X KeysAt(registry[u[i]].provider)]
           Q == ByEntry(R)
           G == Made(limits)
<1>2. N \in Nat /\ Len(entries) = N
      /\ \A i \in 1..N : u[i] \in E /\ u[i] \in DOMAIN registry /\ entries[i] = registry[u[i]]
  BY <1>1
<1>3. ss = [i \in 1..N |-> ss[i]]
  BY <1>2
<1>4. \A i \in 1..N : Lists(ss[i], G, Parts[i], Q)
  <2> TAKE i \in 1..N
  <2> DEFINE inner(a) ==
        LET ks == KeysOf(registry[a].provider)
        IN  [j \in 1..Len(ks) |-> Route(registry[a], ks[j], limits[registry[a]][ks[j]])]
  <2> HIDE DEF G, Q, N
  <2>1. ss[i] = inner(u[i])
    BY <1>2
  <2>2. Parts[i] = {u[i]} \X KeysAt(registry[u[i]].provider)
    OBVIOUS
  <2>3. \A a \in DOMAIN registry :
          Lists(inner(a), G, {a} \X KeysAt(registry[a].provider), Q)
    BY ListsInner DEF G, Q
  <2> HIDE DEF ss, Parts, inner
  <2> QED BY <1>2, <2>1, <2>2, <2>3
<1>5. ASSUME NEW i \in 1..N, NEW j \in 1..N, i < j, NEW x \in Parts[i], NEW y \in Parts[j]
      PROVE  <<x, y>> \in Q
  <2>1. <<u[i], u[j]>> \in R
    BY <1>1, <1>5
  <2>2. x \in Nat \X Nat /\ y \in Nat \X Nat /\ x[1] = u[i] /\ y[1] = u[j]
    BY <1>2, RouterTypes DEF KeysAt, EnabledAt
  <2> QED BY <2>1, <2>2 DEF ByEntry
<1>6. UNION {Parts[i] : i \in 1..N} = PairsOf(E)
  <2>1. ASSUME NEW i \in 1..N, NEW x \in Parts[i] PROVE x \in PairsOf(E)
    BY <1>2 DEF PairsOf, KeysAt, EnabledAt
  <2>2. ASSUME NEW x \in PairsOf(E) PROVE \E i \in 1..N : x \in Parts[i]
    <3>1. x[1] \in E /\ x = <<x[1], x[2]>> /\ x[2] \in KeysAt(registry[x[1]].provider)
      BY DEF PairsOf
    <3>2. PICK i \in 1..N : u[i] = x[1]
      BY <1>1, <3>1
    <3> QED BY <3>1, <3>2
  <2> HIDE DEF N, Parts
  <2> QED BY <2>1, <2>2
<1>7. Lists(FlattenSeq(ss), G, UNION {Parts[i] : i \in 1..N}, Q)
  <2> HIDE DEF ss, G, Q, N, Parts
  <2> QED BY <1>2, <1>3, <1>4, <1>5, ListsFlatten
<1>8. Routes(entries, limits) = FlattenSeq(ss)
  BY DEF Routes
<1> HIDE DEF ss, Parts, N
<1> QED
  BY <1>6, <1>7, <1>8

\* The greatest element of a bounded set of naturals
LEMMA MaxIsIn ==
  ASSUME NEW n \in Nat, NEW T \in SUBSET (1..n), T # {}
  PROVE  Max(T) \in T
<1> DEFINE A == {k \in Nat : (\A y \in T : y <= k) => \E x \in T : \A y \in T : x >= y}
<1>1. 0 \in A
  <2>1. PICK y \in T : y \in 1..n
    OBVIOUS
  <2>2. ~ (y <= 0)
    BY <2>1
  <2> QED BY <2>2
<1>2. ASSUME NEW k \in Nat, k \in A PROVE k + 1 \in A
  <2> SUFFICES ASSUME \A y \in T : y <= k + 1 PROVE \E x \in T : \A y \in T : x >= y
    OBVIOUS
  <2>1. CASE k + 1 \in T
    BY <2>1
  <2>2. CASE k + 1 \notin T
    <3>1. \A y \in T : y <= k
      BY <2>2
    <3> QED BY <1>2, <3>1
  <2> QED BY <2>1, <2>2
<1>3. n \in A
  <2> HIDE DEF A
  <2> QED BY <1>1, <1>2, NatSetInduction
<1>4. \E x \in T : \A y \in T : x >= y
  BY <1>3
<1> QED
  BY <1>4 DEF Max

\* The order of the sort: by rank, then by place
ByRank(policy) == {ij \in Nat \X Nat :
    \/ PreferRank(policy, registry[ij[1]]) < PreferRank(policy, registry[ij[2]])
    \/ /\ PreferRank(policy, registry[ij[1]]) = PreferRank(policy, registry[ij[2]])
       /\ ij[1] < ij[2]}

LEMMA RankType ==
  ASSUME NEW policy \in Policy, NEW e
  PROVE  /\ Len(policy.prefer) \in Nat
         /\ PreferRank(policy, e) \in 1..(Len(policy.prefer) + 1)
<1> DEFINE n == Len(policy.prefer)
           T == {i \in DOMAIN policy.prefer : policy.prefer[i] = e.provider}
<1>1. n \in Nat /\ DOMAIN policy.prefer = 1..n
  BY LenProperties DEF Policy
<1>2. T = {} => PreferRank(policy, e) = n + 1
  BY DEF PreferRank
<1>3. T # {} => PreferRank(policy, e) = Max(T)
  BY DEF PreferRank
<1>4. T # {} => Max(T) \in 1..n
  <2>1. T \in SUBSET (1..n)
    BY <1>1
  <2> HIDE DEF T
  <2> QED BY <1>1, <2>1, MaxIsIn
<1> HIDE DEF T
<1> QED
  BY <1>1, <1>2, <1>3, <1>4

\* The stable sort by preference
LEMMA ListsByPreference ==
  ASSUME RouterInv, NEW policy \in Policy, NEW entries, NEW E \in SUBSET DOMAIN registry,
         Lists(entries, registry, E, Ascending)
  PROVE  Lists(ByPreference(policy, entries), registry, E, ByRank(policy))
<1> DEFINE rank(i) == PreferRank(policy, registry[i])
           N == Len(policy.prefer) + 1
           X(r) == {e \in ToSet(entries) : PreferRank(policy, e) = r}
           ss == [r \in 1..N |-> Kept(entries, X(r))]
           Parts == [r \in 1..N |-> {i \in E : rank(i) = r}]
           Q == ByRank(policy)
<1>1. N \in Nat /\ E \subseteq Nat /\ \A i \in E : rank(i) \in 1..N
  BY RankType, RouterTypes
<1>2. ToSet(entries) = {registry[i] : i \in E}
  BY ListsRange
<1>3. \A r \in 1..N : Lists(ss[r], registry, Parts[r], Q)
  <2> TAKE r \in 1..N
  <2>1. Lists(Kept(entries, X(r)), registry, {i \in E : registry[i] \in X(r)}, Ascending)
    <3> HIDE DEF X
    <3> QED BY ListsKept
  <2>2. {i \in E : registry[i] \in X(r)} = Parts[r] /\ ss[r] = Kept(entries, X(r))
    BY <1>2
  <2>3. ASSUME NEW i \in Parts[r], NEW j \in Parts[r], <<i, j>> \in Ascending
        PROVE  <<i, j>> \in Q
    BY <1>1, <2>3 DEF ByRank, Ascending
  <2> HIDE DEF ss, Parts, Q
  <2> QED BY <2>1, <2>2, <2>3, ListsInOrder
<1>4. ASSUME NEW r \in 1..N, NEW t \in 1..N, r < t, NEW i \in Parts[r], NEW j \in Parts[t]
      PROVE  <<i, j>> \in Q
  BY <1>1, <1>4 DEF ByRank
<1>5. UNION {Parts[r] : r \in 1..N} = E
  <2>1. \A i \in E : i \in Parts[rank(i)] /\ rank(i) \in 1..N
    BY <1>1
  <2>2. \A r \in 1..N : Parts[r] \subseteq E
    OBVIOUS
  <2> HIDE DEF Parts, N, rank
  <2> QED BY <2>1, <2>2
<1>6. Lists(FlattenSeq(ss), registry, UNION {Parts[r] : r \in 1..N}, Q)
  <2>1. ss = [r \in 1..N |-> ss[r]]
    OBVIOUS
  <2> HIDE DEF ss, Parts, Q, N
  <2> QED BY <1>1, <1>3, <1>4, <2>1, ListsFlatten
<1>7. ByPreference(policy, entries) = FlattenSeq(ss)
  BY DEF ByPreference
<1> HIDE DEF ss, Parts, N, Q
<1> QED
  BY <1>5, <1>6, <1>7 DEF Q

-----------------------------------------------------------------------------
(* The candidate lists                                                       *)

AdmittedAt(policy) == {i \in DOMAIN registry : Admits(policy, registry[i])}
NamedAt(name) == {i \in DOMAIN registry : registry[i].model = name}

LEMMA PolicyType ==
  ASSUME RouterInv, NEW name
  PROVE  PolicyOf(name) \in Policy
<1>1. NoPolicy \in Policy
  BY DEF NoPolicy, Policy
<1> QED
  BY <1>1, RouterTypes DEF PolicyOf

\* resolve_candidates lists the admitted pairs, by rank, entry and key ...
LEMMA ListsLogical ==
  ASSUME RouterInv, NEW name
  PROVE  Lists(ResolveCandidates(name), Made(Overridable),
               PairsOf(AdmittedAt(PolicyOf(name))), ByEntry(ByRank(PolicyOf(name))))
<1> DEFINE policy == PolicyOf(name)
           X == {e \in ToSet(registry) : Admits(policy, e)}
           admitted == Kept(registry, X)
           E == AdmittedAt(policy)
<1>1. policy \in Policy
  BY PolicyType
<1>2. Lists(registry, registry, DOMAIN registry, Ascending)
  BY RouterTypes, ListsPlaces
<1>3. Lists(admitted, registry, {i \in DOMAIN registry : registry[i] \in X}, Ascending)
  <2> HIDE DEF X
  <2> QED BY <1>2, ListsKept
<1>4. {i \in DOMAIN registry : registry[i] \in X} = E /\ E \in SUBSET DOMAIN registry
  BY RouterTypes DEF AdmittedAt
<1>5. ResolveCandidates(name) = Routes(ByPreference(policy, admitted), Overridable)
  BY DEF ResolveCandidates
<1> HIDE DEF policy, admitted, E, X
<1>6. Lists(ByPreference(policy, admitted), registry, E, ByRank(policy))
  BY <1>1, <1>3, <1>4, ListsByPreference
<1>7. Lists(Routes(ByPreference(policy, admitted), Overridable), Made(Overridable),
            PairsOf(E), ByEntry(ByRank(policy)))
  BY <1>4, <1>6, ListsRoutes
<1> QED
  BY <1>5, <1>7 DEF policy, E

\* ... and resolve_for_physical_model the pairs with entries of the name.
LEMMA ListsPhysical ==
  ASSUME RouterInv, NEW name
  PROVE  Lists(ResolvePhysical(name), Made(Registered), PairsOf(NamedAt(name)), ByEntry(Ascending))
<1> DEFINE X == {e \in ToSet(registry) : e.model = name}
           named == Kept(registry, X)
           E == NamedAt(name)
<1>1. Lists(registry, registry, DOMAIN registry, Ascending)
  BY RouterTypes, ListsPlaces
<1>2. Lists(named, registry, {i \in DOMAIN registry : registry[i] \in X}, Ascending)
  <2> HIDE DEF X
  <2> QED BY <1>1, ListsKept
<1>3. {i \in DOMAIN registry : registry[i] \in X} = E /\ E \in SUBSET DOMAIN registry
  BY RouterTypes DEF NamedAt
<1>4. ResolvePhysical(name) = Routes(named, Registered)
  BY DEF ResolvePhysical
<1> HIDE DEF named, E, X
<1>5. Lists(Routes(named, Registered), Made(Registered), PairsOf(E), ByEntry(Ascending))
  BY <1>2, <1>3, ListsRoutes
<1> QED
  BY <1>4, <1>5 DEF E

\* What the pairs are made of, and the routes that are made of them
LEMMA PairTypes ==
  ASSUME RouterInv, NEW E \in SUBSET DOMAIN registry, NEW p \in PairsOf(E)
  PROVE  /\ p[1] \in E /\ p[1] \in DOMAIN registry
         /\ p[2] \in DOMAIN cfg.keys /\ p[2] \in EnabledAt
         /\ cfg.keys[p[2]].provider = registry[p[1]].provider
         /\ registry[p[1]] \in Entry /\ registry[p[1]] \in ToSet(registry)
         /\ cfg.keys[p[2]] \in Key /\ cfg.keys[p[2]] \in ToSet(EnabledKeys)
<1>1. /\ p[1] \in E /\ p[1] \in DOMAIN registry
      /\ p[2] \in DOMAIN cfg.keys /\ p[2] \in EnabledAt
      /\ cfg.keys[p[2]].provider = registry[p[1]].provider
  BY DEF PairsOf, KeysAt
<1>2. ToSet(EnabledKeys) = {cfg.keys[j] : j \in EnabledAt}
  BY ListsKeys, ListsRange
<1> QED
  BY <1>1, <1>2, RouterTypes

LEMMA MadeOf ==
  ASSUME RouterInv, NEW E \in SUBSET DOMAIN registry, NEW p \in PairsOf(E)
  PROVE  LET e == registry[p[1]]
             k == cfg.keys[p[2]]
         IN  /\ Made(Overridable)[p] = Route(e, k, Effective(e, k))
             /\ Made(Registered)[p] = Route(e, k, e.limits)
<1> DEFINE e == registry[p[1]]
           k == cfg.keys[p[2]]
<1>1. p \in (DOMAIN registry) \X (DOMAIN cfg.keys)
  BY DEF PairsOf
<1>2. e \in ToSet(registry) /\ k \in ToSet(EnabledKeys)
  BY PairTypes
<1>3. Overridable[e][k] = Effective(e, k) /\ Registered[e][k] = e.limits
  <2> HIDE DEF e, k
  <2> QED BY <1>2 DEF Overridable, Registered
<1> QED
  BY <1>1, <1>3 DEF Made

LEMMA EffectiveType ==
  ASSUME NEW e \in Entry, NEW k \in Key
  PROVE  Effective(e, k) \in Limits
<1>1. e.limits \in Limits /\ k.override \in Limits \cup {NoLimit}
  BY DEF Entry, Key
<1>2. ASSUME NEW l \in LimitKinds
      PROVE  (IF k.override # NoLimit /\ k.override[l] # NoLimit
              THEN k.override[l] ELSE e.limits[l]) \in Int \cup {NoLimit}
  BY <1>1 DEF Limits
<1> QED
  BY <1>2 DEF Effective, Limits

\* The elements of the lists
LEMMA LogicalRange ==
  ASSUME RouterInv, NEW name
  PROVE  ToSet(ResolveCandidates(name)) =
           {Made(Overridable)[p] : p \in PairsOf(AdmittedAt(PolicyOf(name)))}
BY ListsLogical, ListsRange

LEMMA PhysicalRange ==
  ASSUME RouterInv, NEW name
  PROVE  /\ ToSet(ResolvePhysical(name)) = {Made(Registered)[p] : p \in PairsOf(NamedAt(name))}
         /\ ResolvePhysical(name) = <<>> <=> PairsOf(NamedAt(name)) = {}
BY ListsPhysical, ListsRange

\* Every route has limits of the four kinds, each a number or none, whichever
\* override and registry entry it was made from.
THEOREM RoutesAreTyped == RouterSpec => []RouterTypeOK
<1>1. RouterInv => RouterTypeOK
  <2> SUFFICES ASSUME RouterInv, NEW name, NEW c \in ToSet(GetCandidates(name))
               PROVE  c.limits \in Limits
    BY DEF RouterTypeOK
  <2>1. CASE c \in ToSet(ResolveCandidates(name))
    <3>1. AdmittedAt(PolicyOf(name)) \in SUBSET DOMAIN registry
      BY DEF AdmittedAt
    <3>2. PICK p \in PairsOf(AdmittedAt(PolicyOf(name))) : c = Made(Overridable)[p]
      BY <2>1, LogicalRange
    <3>3. c = Route(registry[p[1]], cfg.keys[p[2]], Effective(registry[p[1]], cfg.keys[p[2]]))
      BY <3>1, <3>2, MadeOf
    <3>4. registry[p[1]] \in Entry /\ cfg.keys[p[2]] \in Key
      BY <3>1, PairTypes
    <3> QED BY <3>3, <3>4, EffectiveType DEF Route
  <2>2. CASE c \in ToSet(ResolvePhysical(name))
    <3>1. NamedAt(name) \in SUBSET DOMAIN registry
      BY DEF NamedAt
    <3>2. PICK p \in PairsOf(NamedAt(name)) : c = Made(Registered)[p]
      BY <2>2, PhysicalRange
    <3>3. c = Route(registry[p[1]], cfg.keys[p[2]], registry[p[1]].limits)
      BY <3>1, <3>2, MadeOf
    <3>4. registry[p[1]] \in Entry
      BY <3>1, PairTypes
    <3> QED BY <3>3, <3>4 DEF Route, Entry
  <2> QED BY <2>1, <2>2 DEF GetCandidates
<1> QED
  BY <1>1, RouterInvariant, PTL

\* The order of the list is the order of the reference, and is strict.
LEMMA OrderIsBefore ==
  ASSUME RouterInv, NEW policy \in Policy, NEW p \in Pairs(policy), NEW q \in Pairs(policy)
  PROVE  /\ <<p, q>> \in ByEntry(ByRank(policy)) <=> Before(policy, p, q)
         /\ Before(policy, p, q) => ~ Before(policy, q, p)
<1> DEFINE rank(x) == PreferRank(policy, registry[x[1]])
<1>1. /\ p \in Nat \X Nat /\ q \in Nat \X Nat
      /\ p[1] \in Nat /\ p[2] \in Nat /\ q[1] \in Nat /\ q[2] \in Nat
  BY RouterTypes DEF Pairs
<1>2. rank(p) \in Int /\ rank(q) \in Int
  BY RankType
<1>3. <<p, q>> \in ByEntry(ByRank(policy)) <=>
        \/ <<p[1], q[1]>> \in ByRank(policy)
        \/ p[1] = q[1] /\ p[2] < q[2]
  BY <1>1 DEF ByEntry
<1>4. <<p[1], q[1]>> \in ByRank(policy) <=>
        rank(p) < rank(q) \/ (rank(p) = rank(q) /\ p[1] < q[1])
  BY <1>1 DEF ByRank
<1>5. p[1] = q[1] => rank(p) = rank(q)
  OBVIOUS
<1>6. \A x, y : Before(policy, x, y) <=>
        \/ rank(x) < rank(y)
        \/ rank(x) = rank(y) /\ (x[1] < y[1] \/ (x[1] = y[1] /\ x[2] < y[2]))
  BY DEF Before
<1> HIDE DEF rank
<1>7. <<p, q>> \in ByEntry(ByRank(policy)) <=> Before(policy, p, q)
  BY <1>3, <1>4, <1>5, <1>6
<1>8. Before(policy, p, q) => ~ Before(policy, q, p)
  BY <1>1, <1>2, <1>6
<1> QED
  BY <1>7, <1>8

LEMMA PairsAre ==
  ASSUME RouterInv, NEW policy
  PROVE  Pairs(policy) = PairsOf(AdmittedAt(policy))
<1>1. ASSUME NEW p \in Pairs(policy) PROVE p \in PairsOf(AdmittedAt(policy))
  BY DEF Pairs, PairsOf, AdmittedAt, KeysAt, EnabledAt
<1>2. ASSUME NEW p \in PairsOf(AdmittedAt(policy)) PROVE p \in Pairs(policy)
  BY DEF Pairs, PairsOf, AdmittedAt, KeysAt, EnabledAt
<1> QED
  BY <1>1, <1>2

\* A request for a logical model gets every eligible pair of an entry and a key
\* exactly once, at the place that the declared ranking gives it, for every registry,
\* list of keys and policy.
THEOREM ListsAreRanked == RouterSpec => []RankedAndComplete
<1>1. RouterInv => RankedAndComplete
  <2> SUFFICES ASSUME RouterInv, NEW name \in (DOMAIN cfg.policies) \cup {"auto"}
               PROVE  LET policy   == PolicyOf(name)
                          pairs    == Pairs(policy)
                          place(p) == 1 + Cardinality({q \in pairs : Before(policy, q, p)})
                      IN  /\ Len(GetCandidates(name)) = Cardinality(pairs)
                          /\ \A p \in pairs :
                                LET e == registry[p[1]]
                                    k == cfg.keys[p[2]]
                                IN  GetCandidates(name)[place(p)] = Route(e, k, Effective(e, k))
    BY DEF RankedAndComplete
  <2> DEFINE policy == PolicyOf(name)
             S == Pairs(policy)
             Q == ByEntry(ByRank(policy))
             s == ResolveCandidates(name)
             G == Made(Overridable)
  <2>1. GetCandidates(name) = s
    BY DEF GetCandidates
  <2>2. policy \in Policy
    BY PolicyType
  <2>3. S = PairsOf(AdmittedAt(policy)) /\ Lists(s, G, S, Q)
    <3>1. S = PairsOf(AdmittedAt(policy))
      BY PairsAre
    <3> QED BY <3>1, ListsLogical
  <2>4. \A p, q \in S : <<p, q>> \in Q <=> Before(policy, p, q)
    <3> HIDE DEF policy
    <3> QED BY <2>2, OrderIsBefore
  <2>5. \A p, q \in S : Before(policy, p, q) => ~ Before(policy, q, p)
    <3> HIDE DEF policy
    <3> QED BY <2>2, OrderIsBefore
  <2>6. \A p, q \in S : <<p, q>> \in Q => <<q, p>> \notin Q
    <3> HIDE DEF policy, S, Q
    <3> QED BY <2>4, <2>5
  <2>7. /\ Len(s) = Cardinality(S)
        /\ \A p \in S : s[1 + Cardinality({q \in S : <<q, p>> \in Q})] = G[p]
    <3> HIDE DEF policy, S, Q, G, s
    <3> QED BY <2>3, <2>6, ListsByPlace
  <2>8. ASSUME NEW p \in S
        PROVE  /\ {q \in S : <<q, p>> \in Q} = {q \in S : Before(policy, q, p)}
               /\ G[p] = LET e == registry[p[1]]
                             k == cfg.keys[p[2]]
                         IN  Route(e, k, Effective(e, k))
    <3>1. AdmittedAt(policy) \in SUBSET DOMAIN registry
      BY DEF AdmittedAt
    <3> HIDE DEF policy, S, Q
    <3>2. {q \in S : <<q, p>> \in Q} = {q \in S : Before(policy, q, p)}
      BY <2>4
    <3>3. G[p] = LET e == registry[p[1]]
                     k == cfg.keys[p[2]]
                 IN  Route(e, k, Effective(e, k))
      BY <2>3, <3>1, MadeOf
    <3> QED BY <3>2, <3>3
  <2> HIDE DEF Q, s, G
  <2> QED BY <2>1, <2>7, <2>8
<1> QED
  BY <1>1, RouterInvariant, PTL

\* A logical request never gets a limit other than the one that an enabled key's
\* override sets, a limit of 0 included.
THEOREM OverridesDoApply == RouterSpec => []OverridesApply
<1>1. RouterInv => OverridesApply
  <2> SUFFICES ASSUME RouterInv, NEW name \in (DOMAIN cfg.policies) \cup {"auto"},
                      NEW c \in ToSet(GetCandidates(name))
               PROVE  \E k \in ToSet(EnabledKeys) :
                        /\ k.provider = c.provider
                        /\ k.label = c.key_label
                        /\ k.override # NoLimit =>
                             \A l \in LimitKinds :
                                k.override[l] # NoLimit => c.limits[l] = k.override[l]
    BY DEF OverridesApply
  <2>1. c \in ToSet(ResolveCandidates(name)) /\ AdmittedAt(PolicyOf(name)) \in SUBSET DOMAIN registry
    BY DEF GetCandidates, AdmittedAt
  <2>2. PICK p \in PairsOf(AdmittedAt(PolicyOf(name))) : c = Made(Overridable)[p]
    BY <2>1, LogicalRange
  <2> DEFINE e == registry[p[1]]
             k == cfg.keys[p[2]]
  <2>3. c = Route(e, k, Effective(e, k))
    BY <2>1, <2>2, MadeOf
  <2>4. k \in ToSet(EnabledKeys) /\ k.provider = e.provider
    BY <2>1, PairTypes
  <2> HIDE DEF e, k
  <2>5. c.provider = e.provider /\ c.key_label = k.label /\ c.limits = Effective(e, k)
    BY <2>3 DEF Route
  <2>6. \A l \in LimitKinds :
          k.override # NoLimit /\ k.override[l] # NoLimit => c.limits[l] = k.override[l]
    BY <2>5 DEF Effective
  <2> QED BY <2>4, <2>5, <2>6
<1> QED
  BY <1>1, RouterInvariant, PTL

\* GET /v1/models lists a physical model if and only if a request for it finds a
\* candidate, although the two are computed apart.
THEOREM ListedAreServed == RouterSpec => []ListedIffServed
<1>1. RouterInv => ListedIffServed
  <2> SUFFICES ASSUME RouterInv, NEW name \in ModelNames \ (DOMAIN cfg.policies \cup {"auto"})
               PROVE  name \in PhysicalModels <=> GetCandidates(name) # <<>>
    BY DEF ListedIffServed
  <2>1. GetCandidates(name) = ResolvePhysical(name)
    BY DEF GetCandidates
  <2>2. ToSet(EnabledKeys) = {cfg.keys[j] : j \in EnabledAt}
    BY ListsKeys, ListsRange
  <2>3. ToSet(registry) = {registry[i] : i \in DOMAIN registry}
    BY DEF ToSet
  <2>4. name \in PhysicalModels <=>
          \E i \in DOMAIN registry, j \in EnabledAt :
             registry[i].model = name /\ cfg.keys[j].provider = registry[i].provider
    BY <2>2, <2>3 DEF PhysicalModels
  <2>5. PairsOf(NamedAt(name)) # {} <=>
          \E i \in DOMAIN registry, j \in EnabledAt :
             registry[i].model = name /\ cfg.keys[j].provider = registry[i].provider
    <3>1. ASSUME NEW p \in PairsOf(NamedAt(name))
          PROVE  \E i \in DOMAIN registry, j \in EnabledAt :
                    registry[i].model = name /\ cfg.keys[j].provider = registry[i].provider
      BY DEF PairsOf, NamedAt, KeysAt
    <3>2. ASSUME NEW i \in DOMAIN registry, NEW j \in EnabledAt,
                 registry[i].model = name, cfg.keys[j].provider = registry[i].provider
          PROVE  <<i, j>> \in PairsOf(NamedAt(name))
      BY <3>2 DEF PairsOf, NamedAt, KeysAt, EnabledAt
    <3> QED BY <3>1, <3>2
  <2> QED BY <2>1, <2>4, <2>5, PhysicalRange
<1> QED
  BY <1>1, RouterInvariant, PTL

-----------------------------------------------------------------------------
(* What the operator is told                                                 *)

OfferedAt(provider) == {i \in DOMAIN registry : registry[i].provider = provider}

LEMMA ListsEntries ==
  ASSUME RouterInv, NEW provider
  PROVE  Lists(EntriesOf(provider), registry, OfferedAt(provider), Ascending)
<1> DEFINE X == {e \in ToSet(registry) : e.provider = provider}
<1>1. Lists(registry, registry, DOMAIN registry, Ascending)
  BY RouterTypes, ListsPlaces
<1>2. Lists(Kept(registry, X), registry, {i \in DOMAIN registry : registry[i] \in X}, Ascending)
  <2> HIDE DEF X
  <2> QED BY <1>1, ListsKept
<1>3. {i \in DOMAIN registry : registry[i] \in X} = OfferedAt(provider)
  BY RouterTypes DEF OfferedAt
<1> QED
  BY <1>2, <1>3 DEF EntriesOf

LEMMA EnabledRange ==
  ASSUME RouterInv
  PROVE  /\ ToSet(EnabledKeys) = {cfg.keys[j] : j \in EnabledAt}
         /\ ToSet(EnabledKeys) = {k \in ToSet(cfg.keys) : k.enabled}
         /\ DOMAIN EnabledKeys = 1..Len(EnabledKeys) /\ Len(EnabledKeys) \in Nat
<1>1. /\ ToSet(EnabledKeys) = {cfg.keys[j] : j \in EnabledAt}
      /\ DOMAIN EnabledKeys = 1..Len(EnabledKeys) /\ Len(EnabledKeys) \in Nat
  BY ListsKeys, ListsRange
<1>2. {cfg.keys[j] : j \in EnabledAt} = {k \in ToSet(cfg.keys) : k.enabled}
  BY DEF EnabledAt, ToSet
<1> QED
  BY <1>1, <1>2

\* The rows of /admin/quota are those of all pairs, with the registry's limits.
LEMMA RowsAre ==
  ASSUME RouterInv
  PROVE  QuotaRows = {Made(Registered)[p] : p \in PairsOf(DOMAIN registry)}
<1> DEFINE RowsFor(k) == {Route(e, k, e.limits) : e \in ToSet(EntriesOf(k.provider))}
<1>1. QuotaRows = UNION {RowsFor(k) : k \in ToSet(EnabledKeys)}
  BY DEF QuotaRows
<1>2. \A provider :
        ToSet(EntriesOf(provider)) = {registry[i] : i \in OfferedAt(provider)}
  BY ListsEntries, ListsRange
<1>3. ASSUME NEW k \in ToSet(EnabledKeys), NEW c \in RowsFor(k)
      PROVE  \E p \in PairsOf(DOMAIN registry) : c = Made(Registered)[p]
  <2>1. PICK i \in OfferedAt(k.provider) : c = Route(registry[i], k, registry[i].limits)
    BY <1>2
  <2>2. PICK j \in EnabledAt : k = cfg.keys[j]
    BY EnabledRange
  <2>3. <<i, j>> \in PairsOf(DOMAIN registry)
    BY <2>1, <2>2 DEF PairsOf, KeysAt, EnabledAt, OfferedAt
  <2>4. Made(Registered)[<<i, j>>] = Route(registry[i], cfg.keys[j], registry[i].limits)
    BY <2>3, MadeOf
  <2> QED BY <2>1, <2>2, <2>3, <2>4
<1>4. ASSUME NEW p \in PairsOf(DOMAIN registry)
      PROVE  \E k \in ToSet(EnabledKeys) : Made(Registered)[p] \in RowsFor(k)
  <2> DEFINE e == registry[p[1]]
             k == cfg.keys[p[2]]
  <2>1. Made(Registered)[p] = Route(e, k, e.limits)
    BY MadeOf
  <2>2. k \in ToSet(EnabledKeys) /\ p[1] \in OfferedAt(k.provider)
    BY PairTypes DEF OfferedAt
  <2> QED BY <1>2, <2>1, <2>2
<1> HIDE DEF RowsFor
<1> QED
  BY <1>1, <1>3, <1>4

\* What an operator is shown is what is served: a candidate of a request by any name
\* is a row of /admin/quota, with other limits only where the name is logical and the
\* key's override sets them; every row is a candidate of a request for its model, if
\* no policy has that name; and the command models lists the models of the rows.
THEOREM ShownAreServed == RouterSpec => []ShownIsServed
<1>1. RouterInv => ShownIsServed
  <2> SUFFICES ASSUME RouterInv PROVE ShownIsServed
    OBVIOUS
  <2> DEFINE P == PairsOf(DOMAIN registry)
             G == Made(Registered)
             O == Made(Overridable)
             logical == DOMAIN cfg.policies \cup {"auto"}
             Shown(c, name, row, k) ==
                /\ row.provider = c.provider /\ row.key_label = c.key_label /\ row.model = c.model
                /\ k.provider = c.provider /\ k.label = c.key_label
                /\ \A l \in LimitKinds : c.limits[l] # row.limits[l] =>
                      name \in logical /\ k.override # NoLimit /\ c.limits[l] = k.override[l]
  <2>1. QuotaRows = {G[p] : p \in P}
    BY RowsAre
  <2>2. \A p \in P : /\ G[p] = Route(registry[p[1]], cfg.keys[p[2]], registry[p[1]].limits)
                     /\ O[p] = Route(registry[p[1]], cfg.keys[p[2]],
                                     Effective(registry[p[1]], cfg.keys[p[2]]))
    BY MadeOf
  <2>3. \A p \in P : /\ p[1] \in DOMAIN registry /\ registry[p[1]] \in ToSet(registry)
                     /\ p \in PairsOf(NamedAt(registry[p[1]].model))
                     /\ cfg.keys[p[2]] \in ToSet(EnabledKeys)
                     /\ cfg.keys[p[2]].provider = registry[p[1]].provider
    BY PairTypes DEF PairsOf, NamedAt
  <2>4. \A name : /\ PairsOf(NamedAt(name)) \subseteq P
                  /\ PairsOf(AdmittedAt(PolicyOf(name))) \subseteq P
    BY DEF PairsOf, NamedAt, AdmittedAt
  <2>5. ASSUME NEW p \in P, NEW name,
               NEW c, c = G[p] \/ (name \in logical /\ c = O[p])
        PROVE  Shown(c, name, G[p], cfg.keys[p[2]])
    <3> DEFINE e == registry[p[1]]
               k == cfg.keys[p[2]]
    <3>1. /\ G[p] = Route(e, k, e.limits) /\ O[p] = Route(e, k, Effective(e, k))
          /\ k.provider = e.provider
      BY <2>2, <2>3
    <3> HIDE DEF P, G, O, e, k, logical
    <3>2. /\ G[p].provider = e.provider /\ G[p].key_label = k.label /\ G[p].model = e.model
          /\ G[p].limits = e.limits
      BY <3>1 DEF Route
    <3>3. /\ O[p].provider = e.provider /\ O[p].key_label = k.label /\ O[p].model = e.model
          /\ O[p].limits = Effective(e, k)
      BY <3>1 DEF Route
    <3>4. \A l \in LimitKinds : Effective(e, k)[l] # e.limits[l] =>
             k.override # NoLimit /\ Effective(e, k)[l] = k.override[l]
      BY DEF Effective
    <3>5. ASSUME c = G[p] PROVE Shown(c, name, G[p], k)
      BY <3>1, <3>2, <3>5
    <3>6. ASSUME name \in logical, c = O[p] PROVE Shown(c, name, G[p], k)
      BY <3>1, <3>2, <3>3, <3>4, <3>6
    <3>7. Shown(c, name, G[p], k)
      <4> HIDE DEF Shown
      <4> QED BY <2>5, <3>5, <3>6
    <3> HIDE DEF Shown
    <3> QED BY <3>7 DEF k
  <2>6. ASSUME NEW name \in ModelNames \cup logical, NEW c \in ToSet(GetCandidates(name))
        PROVE  \E row \in QuotaRows, k \in ToSet(EnabledKeys) : Shown(c, name, row, k)
    <3>1. PICK p \in P : c = G[p] \/ (name \in logical /\ c = O[p])
      <4>1. CASE name \in logical
        <5>1. c \in ToSet(ResolveCandidates(name))
          BY <2>6, <4>1 DEF GetCandidates
        <5>2. ToSet(ResolveCandidates(name)) = {O[p] : p \in PairsOf(AdmittedAt(PolicyOf(name)))}
          BY LogicalRange
        <5> HIDE DEF O, G, P
        <5> QED BY <2>4, <4>1, <5>1, <5>2
      <4>2. CASE name \notin logical
        <5>1. c \in ToSet(ResolvePhysical(name))
          BY <2>6, <4>2 DEF GetCandidates
        <5>2. ToSet(ResolvePhysical(name)) = {G[p] : p \in PairsOf(NamedAt(name))}
          BY PhysicalRange
        <5> HIDE DEF O, G, P
        <5> QED BY <2>4, <5>1, <5>2
      <4> QED BY <4>1, <4>2
    <3>2. G[p] \in QuotaRows /\ cfg.keys[p[2]] \in ToSet(EnabledKeys)
      BY <2>1, <2>3
    <3>3. Shown(c, name, G[p], cfg.keys[p[2]])
      <4> HIDE DEF P, G, O, logical, Shown
      <4> QED BY <2>5, <3>1
    <3> HIDE DEF P, G, O, logical, Shown
    <3> QED BY <3>2, <3>3
  <2>7. ASSUME NEW row \in QuotaRows, row.model \notin logical
        PROVE  row \in ToSet(GetCandidates(row.model))
    <3>1. PICK p \in P : row = G[p]
      BY <2>1
    <3>2. row.model = registry[p[1]].model
      <4>1. row = Route(registry[p[1]], cfg.keys[p[2]], registry[p[1]].limits)
        BY <2>2, <3>1
      <4> HIDE DEF P, G
      <4> QED BY <4>1 DEF Route
    <3>3. row \in {G[q] : q \in PairsOf(NamedAt(row.model))}
      <4> HIDE DEF P, G
      <4> QED BY <2>3, <3>1, <3>2
    <3>4. GetCandidates(row.model) = ResolvePhysical(row.model)
      BY <2>7 DEF GetCandidates
    <3> HIDE DEF G
    <3>5. ToSet(ResolvePhysical(row.model)) = {Made(Registered)[q] : q \in PairsOf(NamedAt(row.model))}
      BY PhysicalRange
    <3> QED BY <3>3, <3>4, <3>5 DEF G
  <2>8. {e.model : e \in ToSet(ModelsListed)} = {c.model : c \in QuotaRows}
    <3> DEFINE served == {k.provider : k \in ToSet(EnabledKeys)}
               X == {e \in ToSet(registry) : e.provider \in served}
    <3>1. ToSet(ModelsListed) = {registry[i] : i \in {j \in DOMAIN registry : registry[j] \in X}}
      <4> HIDE DEF X
      <4>1. Lists(registry, registry, DOMAIN registry, Ascending)
        BY RouterTypes, ListsPlaces
      <4>2. Lists(Kept(registry, X), registry, {j \in DOMAIN registry : registry[j] \in X}, Ascending)
        BY <4>1, ListsKept
      <4>3. ToSet(Kept(registry, X)) = {registry[i] : i \in {j \in DOMAIN registry : registry[j] \in X}}
        BY <4>2, ListsRange
      <4> QED BY <4>3 DEF ModelsListed, X
    <3>2. \A i \in DOMAIN registry :
            registry[i] \in X <=> \E j \in EnabledAt : cfg.keys[j].provider = registry[i].provider
      BY EnabledRange, RouterTypes
    <3>3. ASSUME NEW e \in ToSet(ModelsListed) PROVE \E c \in QuotaRows : c.model = e.model
      <4>1. PICK i \in DOMAIN registry : e = registry[i] /\ registry[i] \in X
        BY <3>1
      <4>2. PICK j \in EnabledAt : cfg.keys[j].provider = registry[i].provider
        BY <3>2, <4>1
      <4>3. <<i, j>> \in P
        BY <4>2 DEF PairsOf, KeysAt, EnabledAt
      <4> HIDE DEF G, P
      <4>4. G[<<i, j>>].model = registry[i].model
        <5>1. G[<<i, j>>] = Route(registry[i], cfg.keys[j], registry[i].limits)
          BY <2>2, <4>3
        <5> QED BY <5>1 DEF Route
      <4> QED BY <2>1, <4>1, <4>3, <4>4
    <3>4. ASSUME NEW c \in QuotaRows PROVE \E e \in ToSet(ModelsListed) : e.model = c.model
      <4>1. PICK p \in P : c = G[p]
        BY <2>1
      <4>2. c.model = registry[p[1]].model
        <5> HIDE DEF G, P
        <5>1. c = Route(registry[p[1]], cfg.keys[p[2]], registry[p[1]].limits)
          BY <2>2, <4>1
        <5> QED BY <5>1 DEF Route
      <4>3. registry[p[1]] \in X
        BY <3>2, PairTypes
      <4> HIDE DEF X
      <4> QED BY <2>3, <3>1, <4>2, <4>3
    <3> QED BY <3>3, <3>4
  <2> QED
    <3>1. \A name \in ModelNames \cup logical : \A c \in ToSet(GetCandidates(name)) :
             \E row \in QuotaRows, k \in ToSet(EnabledKeys) : Shown(c, name, row, k)
      <4> HIDE DEF Shown, logical
      <4> QED BY <2>6
    <3> QED BY <2>7, <2>8, <3>1 DEF ShownIsServed
<1> QED
  BY <1>1, RouterInvariant, PTL

\* The candidate that doctor tests an enabled key with is one of the key's own.
LEMMA TestedIs ==
  ASSUME RouterInv, Unambiguous, NEW k \in ToSet(EnabledKeys)
  PROVE  /\ EntriesOf(k.provider) = <<>> => Tested(k) = Nothing
         /\ EntriesOf(k.provider) # <<>> =>
              /\ Tested(k) # Nothing
              /\ Tested(k).provider = k.provider
              /\ Tested(k).key_label = k.label
<1> DEFINE all == FirstModelCandidates(k.provider)
           X == {c \in ToSet(all) : c.key_label = k.label}
           found == Kept(all, X)
<1>1. Tested(k) = IF found = <<>> THEN Nothing ELSE Head(found)
  BY DEF Tested
<1>2. CASE EntriesOf(k.provider) = <<>>
  <2>1. all = <<>>
    BY <1>2 DEF FirstModelCandidates, Nothing
  <2>2. Lists(<<>>, registry, {}, Ascending)
    BY ListsNone
  <2>3. Lists(Kept(<<>>, X), registry, {i \in {} : registry[i] \in X}, Ascending)
    <3> HIDE DEF X
    <3> QED BY <2>2, ListsKept
  <2>4. Kept(<<>>, X) = <<>>
    <3> HIDE DEF X
    <3>1. {i \in {} : registry[i] \in X} = {}
      OBVIOUS
    <3> QED BY <2>3, <3>1, ListsRange
  <2> QED BY <1>1, <1>2, <2>1, <2>4
<1>3. CASE EntriesOf(k.provider) # <<>>
  <2> DEFINE first == EntriesOf(k.provider)[1]
             E == NamedAt(first.model)
             G == Made(Registered)
  <2>1. PICK i \in DOMAIN registry : first = registry[i] /\ registry[i].provider = k.provider
    <3>1. /\ ToSet(EntriesOf(k.provider)) = {registry[j] : j \in OfferedAt(k.provider)}
          /\ DOMAIN EntriesOf(k.provider) = 1..Len(EntriesOf(k.provider))
          /\ Len(EntriesOf(k.provider)) \in Nat
          /\ OfferedAt(k.provider) # {}
      BY <1>3, ListsEntries, ListsRange
    <3>2. 1 \in DOMAIN EntriesOf(k.provider)
      <4>1. ToSet(EntriesOf(k.provider)) # {}
        BY <3>1
      <4>2. DOMAIN EntriesOf(k.provider) # {}
        BY <4>1 DEF ToSet
      <4> QED BY <3>1, <4>2
    <3>3. first \in ToSet(EntriesOf(k.provider))
      BY <3>2 DEF ToSet
    <3> HIDE DEF first
    <3> QED BY <3>1, <3>3 DEF OfferedAt
  <2>2. all = ResolvePhysical(first.model)
    BY <1>3 DEF FirstModelCandidates
  <2>3. E \in SUBSET DOMAIN registry /\ i \in E
    BY <2>1 DEF NamedAt
  <2>4. Lists(all, G, PairsOf(E), ByEntry(Ascending)) /\ ToSet(all) = {G[p] : p \in PairsOf(E)}
    BY <2>2, ListsPhysical, PhysicalRange
  <2>5. \A p \in PairsOf(E) : G[p] = Route(registry[p[1]], cfg.keys[p[2]], registry[p[1]].limits)
    BY <2>3, MadeOf
  <2>6. Lists(found, G, {p \in PairsOf(E) : G[p] \in X}, ByEntry(Ascending))
    <3> HIDE DEF X, G, E, all
    <3> QED BY <2>4, ListsKept
  <2>7. {p \in PairsOf(E) : G[p] \in X} # {}
    <3>1. PICK j \in EnabledAt : k = cfg.keys[j]
      BY EnabledRange
    <3>2. <<i, j>> \in PairsOf(E)
      BY <2>1, <2>3, <3>1 DEF PairsOf, KeysAt, EnabledAt
    <3> HIDE DEF E, G, all, first
    <3>3. G[<<i, j>>].key_label = k.label
      <4>1. G[<<i, j>>] = Route(registry[i], cfg.keys[j], registry[i].limits)
        BY <2>5, <3>2
      <4> QED BY <3>1, <4>1 DEF Route
    <3> QED BY <2>4, <3>2, <3>3
  <2>8. /\ found # <<>>
        /\ ToSet(found) = {G[p] : p \in {q \in PairsOf(E) : G[q] \in X}}
        /\ DOMAIN found = 1..Len(found) /\ Len(found) \in Nat
    <3> HIDE DEF X, G, E, found
    <3> QED BY <2>6, <2>7, ListsRange
  <2>9. Tested(k) = found[1] /\ found[1] \in ToSet(found)
    <3>1. 1 \in DOMAIN found
      <4> HIDE DEF X, G, E, found
      <4> QED BY <2>7, <2>8 DEF ToSet
    <3> HIDE DEF found
    <3> QED BY <1>1, <2>8, <3>1 DEF ToSet
  <2>10. PICK p \in PairsOf(E) : Tested(k) = G[p] /\ G[p].key_label = k.label
    <3> HIDE DEF G, E, all, found
    <3> QED BY <2>8, <2>9
  <2>11. Tested(k) = Route(registry[p[1]], cfg.keys[p[2]], registry[p[1]].limits)
    BY <2>5, <2>10
  <2>12. cfg.keys[p[2]].provider = k.provider
    <3> DEFINE l == cfg.keys[p[2]]
    <3>1. l \in ToSet(EnabledKeys) /\ l.label = k.label /\ l.provider = registry[p[1]].provider
      BY <2>3, <2>10, <2>11, PairTypes DEF Route
    <3>2. p[1] \in DOMAIN registry /\ registry[p[1]].model = registry[i].model
      BY <2>1, <2>3, PairTypes DEF NamedAt
    <3>3. \A provider : ToSet(EntriesOf(provider)) = {registry[n] : n \in OfferedAt(provider)}
      BY ListsEntries, ListsRange
    <3>4. registry[i] \in ToSet(EntriesOf(k.provider)) /\ registry[p[1]] \in ToSet(EntriesOf(l.provider))
      <4> HIDE DEF l
      <4> QED BY <2>1, <3>1, <3>2, <3>3 DEF OfferedAt
    <3> HIDE DEF l
    <3>5. k.provider = l.provider
      BY <3>1, <3>2, <3>4 DEF Unambiguous
    <3> QED BY <3>5 DEF l
  <2>13. Tested(k).provider = k.provider
    BY <2>3, <2>11, <2>12, PairTypes DEF Route
  <2>14. Tested(k) # Nothing
    BY <2>11 DEF Route, Nothing
  <2> QED BY <1>3, <2>10, <2>13, <2>14
<1> QED
  BY <1>2, <1>3

\* Unless two providers share a model's name and have keys of one label, doctor fails
\* exactly when there are no keys, or an enabled one whose provider has a model does
\* not work.
THEOREM DoctorIsRight == RouterSpec => []DoctorFindsBadKeys
<1>1. RouterInv => DoctorFindsBadKeys
  <2> SUFFICES ASSUME RouterInv, Unambiguous, NEW working
               PROVE  DoctorExit(working) = 1 <=>
                        \/ cfg.keys = <<>>
                        \/ \E k \in ToSet(EnabledKeys) :
                              EntriesOf(k.provider) # <<>> /\ KeyId(k.provider, k.label) \notin working
    BY DEF DoctorFindsBadKeys
  <2>1. \A k \in ToSet(EnabledKeys) :
          Fails(k, working) <=>
             EntriesOf(k.provider) # <<>> /\ KeyId(k.provider, k.label) \notin working
    <3> TAKE k \in ToSet(EnabledKeys)
    <3>1. k.enabled
      BY EnabledRange
    <3> QED BY <3>1, TestedIs DEF Fails
  <2>2. (\E k \in ToSet(cfg.keys) : Fails(k, working)) <=>
           \E k \in ToSet(EnabledKeys) : Fails(k, working)
    <3>1. ToSet(EnabledKeys) = {k \in ToSet(cfg.keys) : k.enabled}
      BY EnabledRange
    <3>2. \A k : Fails(k, working) => k.enabled
      BY DEF Fails
    <3> QED BY <3>1, <3>2
  <2>3. DoctorExit(working) = 1 <=> cfg.keys = <<>> \/ \E k \in ToSet(cfg.keys) : Fails(k, working)
    BY DEF DoctorExit
  <2> QED BY <2>1, <2>2, <2>3
<1> QED
  BY <1>1, RouterInvariant, PTL
=============================================================================
