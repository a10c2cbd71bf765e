----------------------------- MODULE QuotaProofs -----------------------------
(* Theorems about QuotaTracker, and the facts about sums of rows that they need. *)
EXTENDS QuotaTracker, FiniteSetTheorems, WellFoundedInduction, TLAPS

\* Every reachable state of the quota table is type-correct.
THEOREM QuotaTypeCorrect == QuotaSpec => []QuotaTypeOK
<1>1. QuotaInit => QuotaTypeOK
  BY DEF QuotaInit, QuotaTypeOK
<1>2. QuotaTypeOK /\ [QuotaNext]_quotaVars => QuotaTypeOK'
  <2> SUFFICES ASSUME QuotaTypeOK, [QuotaNext]_quotaVars PROVE QuotaTypeOK'
    OBVIOUS
  <2> USE DEF QuotaTypeOK
  <2>1. ASSUME NEW s \in Slots, RecordRequest(s) PROVE QuotaTypeOK'
    BY <2>1 DEF RecordRequest, RequestRow, Row
  <2>2. ASSUME NEW s \in Slots, NEW n \in TokenCounts, RecordTokens(s, n)
        PROVE  QuotaTypeOK'
    BY <2>2, QuotaAssumption DEF RecordTokens, TokensRow, Row, QuotaAssumption
  <2>3. CASE Compact
    BY <2>3 DEF Compact
  <2>4. CASE Tick
    BY <2>4 DEF Tick
  <2>5. CASE UNCHANGED quotaVars
    BY <2>5 DEF quotaVars
  <2> QED
    BY <2>1, <2>2, <2>3, <2>4, <2>5 DEF QuotaNext
<1> QED
  BY <1>1, <1>2, PTL DEF QuotaSpec

\* A row that a window still counts is not old enough to be deleted.
LEMMA CompactKeepsRows ==
  ASSUME NEW t \in Nat, NEW evs, \A e \in evs : e.timestamp \in Nat,
         NEW s \in Slots, NEW w \in Windows
  PROVE  LET kept == {e \in evs : e.timestamp >= t - MaxAge}
         IN  InWindow(kept, t, s, w) = InWindow(evs, t, s, w)
<1> w <= MaxAge /\ w \in Nat /\ MaxAge \in Nat
  BY QuotaAssumption DEF QuotaAssumption, Windows
<1> QED
  BY DEF InWindow

\* The steps that insert no row
Quiet == Compact \/ Tick \/ UNCHANGED quotaVars

\* At an unchanged time they leave each answer of get_usage as it was.
LEMMA QuietUnseen ==
  ASSUME QuotaTypeOK, Quiet, now' = now, NEW s \in Slots, NEW w \in Windows
  PROVE  /\ RequestsUsed(events', now', s, w) = RequestsUsed(events, now, s, w)
         /\ TokensUsed(events', now', s, w) = TokensUsed(events, now, s, w)
<1>1. now \in Nat /\ \A e \in events : e.timestamp \in Nat
  BY DEF QuotaTypeOK, Row
<1>2. Compact \/ events' = events
  BY <1>1 DEF Quiet, Tick, quotaVars
<1>3. InWindow(events', now', s, w) = InWindow(events, now, s, w)
  BY <1>1, <1>2, CompactKeepsRows DEF Compact
<1>4. \A type : RowsOf(events', now', s, w, type) = RowsOf(events, now, s, w, type)
  BY <1>3 DEF RowsOf
<1> QED
  BY <1>4 DEF RequestsUsed, TokensUsed

LEMMA QuietSteps ==
  ASSUME QuotaTypeOK, [QuotaNext]_quotaVars, lastId' = lastId
  PROVE  Quiet
BY DEF QuotaTypeOK, QuotaNext, RecordRequest, RecordTokens, Quiet

\* POST /admin/compact and every other step that inserts no row at an unchanged
\* time leave each answer of get_usage as it was, whatever the windows and the
\* maximal age are, as long as no window is longer than that age.
THEOREM CompactionIsInvisible == QuotaSpec => CompactionInvisible
<1> DEFINE Unseen ==
      now' = now /\ lastId' = lastId
      => \A s \in Slots, w \in Windows :
            /\ RequestsUsed(events', now', s, w) = RequestsUsed(events, now, s, w)
            /\ TokensUsed(events', now', s, w) = TokensUsed(events, now, s, w)
<1>1. QuotaTypeOK /\ [QuotaNext]_quotaVars => [Unseen]_quotaVars
  BY QuietSteps, QuietUnseen
<1> QED
  BY <1>1, QuotaTypeCorrect, PTL DEF QuotaSpec, CompactionInvisible

-----------------------------------------------------------------------------
(* Sums of amounts.  MapThenSumSet is a recursive function; its equation, and  *)
(* what follows by induction on the size of a set, is proved here.             *)

\* Induction over the natural numbers, for a set instead of a predicate.
LEMMA NatSetInduction ==
  ASSUME NEW A, 0 \in A, \A n \in Nat : n \in A => n + 1 \in A
  PROVE  Nat \subseteq A
<1> SUFFICES ASSUME Nat \ A # {} PROVE FALSE
  OBVIOUS
<1>1. PICK m \in Nat \ A : \A k \in Nat \ A : ~ (<<k, m>> \in OpToRel(<, Nat))
  BY NatLessThanWellFounded, WFMin, Zenon
<1>2. \A k \in Nat \ A : ~ (k < m)
  BY <1>1 DEF OpToRel
<1> QED
  BY <1>2

\* A finite set has one element less without one of them.
LEMMA OneFewer ==
  ASSUME NEW T, IsFiniteSet(T), NEW n \in Nat, Cardinality(T) = n + 1, NEW x \in T
  PROVE  Cardinality(T \ {x}) = n
<1>1. Cardinality(T \ {x}) = Cardinality(T) - 1
  BY FS_RemoveElement
<1> QED
  BY <1>1

Chosen(s) == CHOOSE x \in s : TRUE

\* The equation of the sum over the subsets of S
SumAt(f, s) == IF s = {} THEN 0 ELSE Amount(Chosen(s)) + f[s \ {Chosen(s)}]

SumsUp(f, S) == \A s \in SUBSET S : f[s] = SumAt(f, s)

\* Sums over finite sets exist.
LEMMA SumExists ==
  ASSUME NEW S, IsFiniteSet(S)
  PROVE  \E f : f = [s \in SUBSET S |-> SumAt(f, s)]
<1> DEFINE Upto(f, n) == \A s \in SUBSET S : Cardinality(s) <= n => f[s] = SumAt(f, s)
           Levels == {n \in Nat : \E f : Upto(f, n)}
<1>1. \A s \in SUBSET S : IsFiniteSet(s) /\ Cardinality(s) \in Nat
  BY FS_Subset, FS_CardinalityType
<1>2. 0 \in Levels
  <2> DEFINE f == [s \in SUBSET S |-> 0]
  <2>1. \A s \in SUBSET S : Cardinality(s) <= 0 => s = {}
    BY <1>1, FS_EmptySet
  <2>2. Upto(f, 0)
    BY <2>1 DEF SumAt
  <2> QED BY <2>2
<1>3. ASSUME NEW n \in Nat, n \in Levels PROVE n + 1 \in Levels
  <2>1. PICK f : Upto(f, n)
    BY <1>3
  <2> DEFINE g == [s \in SUBSET S |-> IF Cardinality(s) <= n THEN f[s] ELSE SumAt(f, s)]
  <2>2. ASSUME NEW s \in SUBSET S, Cardinality(s) <= n + 1 PROVE g[s] = SumAt(g, s)
    <3>1. CASE s = {}
      BY <3>1, <1>1, <2>1, FS_EmptySet DEF SumAt
    <3>2. CASE s # {}
      <4>1. Chosen(s) \in s
        BY <3>2 DEF Chosen
      <4>2. Cardinality(s \ {Chosen(s)}) <= n /\ s \ {Chosen(s)} \in SUBSET S
        BY <1>1, <2>2, <4>1, FS_RemoveElement
      <4>3. g[s \ {Chosen(s)}] = f[s \ {Chosen(s)}]
        BY <4>2
      <4>4. g[s] = SumAt(f, s)
        BY <2>1
      <4> QED BY <3>2, <4>3, <4>4 DEF SumAt
    <3> QED BY <3>1, <3>2
  <2>3. Upto(g, n + 1)
    BY <2>2
  <2>4. \E h : Upto(h, n + 1)
    <3> HIDE DEF g
    <3> QED BY <2>3
  <2> QED BY <2>4
<1>4. Cardinality(S) \in Levels
  <2> HIDE DEF Levels
  <2>1. Nat \subseteq Levels
    BY <1>2, <1>3, NatSetInduction
  <2> QED BY <1>1, <2>1
<1>5. PICK f : Upto(f, Cardinality(S))
  BY <1>4
<1>6. \A s \in SUBSET S : f[s] = SumAt(f, s)
  BY <1>1, <1>5, FS_Subset
<1> DEFINE g == [s \in SUBSET S |-> f[s]]
<1>7. ASSUME NEW s \in SUBSET S PROVE g[s] = SumAt(g, s)
  <2>1. CASE s = {}
    BY <2>1, <1>6 DEF SumAt
  <2>2. CASE s # {}
    <3>1. g[s \ {Chosen(s)}] = f[s \ {Chosen(s)}]
      OBVIOUS
    <3> QED BY <2>2, <3>1, <1>6 DEF SumAt
  <2> QED BY <2>1, <2>2
<1>8. g = [s \in SUBSET S |-> SumAt(g, s)]
  BY <1>7
<1> QED BY <1>8

\* What MapThenSumSet computes, for some function that sums up all subsets.
LEMMA SumDef ==
  ASSUME NEW S, IsFiniteSet(S)
  PROVE  \E f : SumsUp(f, S) /\ MapThenSumSet(Amount, S) = f[S]
<1>1. \E f : f = [s \in SUBSET S |-> SumAt(f, s)]
  BY SumExists
<1>2. \E f : f = [s \in SUBSET S |-> SumAt(f, s)] /\ MapThenSumSet(Amount, S) = f[S]
  BY <1>1 DEF MapThenSumSet, MapThenFoldSet, SumAt, Amount, Chosen
<1> QED BY <1>2 DEF SumsUp

Amounts(S) == \A x \in S : Amount(x) \in Nat

\* Sums are natural numbers, ...
LEMMA SumType ==
  ASSUME NEW S, IsFiniteSet(S), Amounts(S), NEW f, SumsUp(f, S)
  PROVE  \A T \in SUBSET S : f[T] \in Nat
<1> DEFINE Levels == {n \in Nat : \A T \in SUBSET S : Cardinality(T) = n => f[T] \in Nat}
<1>1. \A T \in SUBSET S : IsFiniteSet(T) /\ Cardinality(T) \in Nat
  BY FS_Subset, FS_CardinalityType
<1>2. 0 \in Levels
  BY <1>1, FS_EmptySet DEF SumsUp, SumAt
<1>3. ASSUME NEW n \in Nat, n \in Levels PROVE n + 1 \in Levels
  <2>1. ASSUME NEW T \in SUBSET S, Cardinality(T) = n + 1 PROVE f[T] \in Nat
    <3>1. T # {}
      BY <2>1, FS_EmptySet
    <3>2. Chosen(T) \in T
      BY <3>1 DEF Chosen
    <3>3. Cardinality(T \ {Chosen(T)}) = n /\ T \ {Chosen(T)} \in SUBSET S
      BY <1>1, <2>1, <3>2, OneFewer
    <3>4. f[T \ {Chosen(T)}] \in Nat
      BY <1>3, <3>3
    <3>5. Amount(Chosen(T)) \in Nat
      BY <3>2 DEF Amounts
    <3>6. f[T] = Amount(Chosen(T)) + f[T \ {Chosen(T)}]
      BY <3>1 DEF SumsUp, SumAt
    <3> QED BY <3>4, <3>5, <3>6
  <2> QED BY <2>1
<1>4. Nat \subseteq Levels
  <2> HIDE DEF Levels
  <2> QED BY <1>2, <1>3, NatSetInduction
<1> QED
  BY <1>1, <1>4

\* ... to which every element adds its amount, whichever is chosen first, ...
LEMMA SumRemove ==
  ASSUME NEW S, IsFiniteSet(S), Amounts(S), NEW f, SumsUp(f, S)
  PROVE  \A T \in SUBSET S : \A x \in T : f[T] = Amount(x) + f[T \ {x}]
<1> DEFINE Levels == {n \in Nat : \A T \in SUBSET S : Cardinality(T) = n =>
                                    \A x \in T : f[T] = Amount(x) + f[T \ {x}]}
<1>1. \A T \in SUBSET S : IsFiniteSet(T) /\ Cardinality(T) \in Nat
  BY FS_Subset, FS_CardinalityType
<1>2. 0 \in Levels
  BY <1>1, FS_EmptySet
<1>3. ASSUME NEW n \in Nat, n \in Levels PROVE n + 1 \in Levels
  <2>1. ASSUME NEW T \in SUBSET S, Cardinality(T) = n + 1, NEW x \in T
        PROVE  f[T] = Amount(x) + f[T \ {x}]
    <3> DEFINE y == Chosen(T)
    <3>1. y \in T
      BY DEF Chosen
    <3>2. f[T] = Amount(y) + f[T \ {y}]
      BY DEF SumsUp, SumAt
    <3> HIDE DEF y
    <3>3. CASE x = y
      BY <3>2, <3>3
    <3>4. CASE x # y
      <4>1. /\ Cardinality(T \ {y}) = n /\ T \ {y} \in SUBSET S /\ x \in T \ {y}
            /\ Cardinality(T \ {x}) = n /\ T \ {x} \in SUBSET S /\ y \in T \ {x}
        <5>1. \A z \in T : Cardinality(T \ {z}) = n
          BY <1>1, <2>1, OneFewer
        <5> QED BY <3>1, <3>4, <5>1
      <4>2. f[T \ {y}] = Amount(x) + f[(T \ {y}) \ {x}]
        BY <1>3, <4>1
      <4>3. f[T \ {x}] = Amount(y) + f[(T \ {x}) \ {y}]
        BY <1>3, <4>1
      <4>4. (T \ {y}) \ {x} = (T \ {x}) \ {y} /\ (T \ {y}) \ {x} \in SUBSET S
        OBVIOUS
      <4>5. Amount(x) \in Nat /\ Amount(y) \in Nat /\ f[(T \ {y}) \ {x}] \in Nat
        BY <3>1, <4>4, SumType DEF Amounts
      <4>6. f[T \ {x}] = Amount(y) + f[(T \ {y}) \ {x}]
        BY <4>3, <4>4, Zenon
      <4>7. f[T] = Amount(y) + (Amount(x) + f[(T \ {y}) \ {x}])
        BY <3>2, <4>2, Zenon
      <4> QED BY <4>5, <4>6, <4>7
    <3> QED BY <3>3, <3>4
  <2> QED BY <2>1
<1>4. Nat \subseteq Levels
  <2> HIDE DEF Levels
  <2> QED BY <1>2, <1>3, NatSetInduction
<1> QED
  BY <1>1, <1>4

\* ... so that a set has no smaller a sum than its subsets.
LEMMA SumGrows ==
  ASSUME NEW S, IsFiniteSet(S), Amounts(S), NEW f, SumsUp(f, S), NEW T \in SUBSET S
  PROVE  f[T] <= f[S]
<1> DEFINE Levels == {n \in Nat : \A U \in SUBSET S :
                                    T \subseteq U /\ Cardinality(U) = n => f[T] <= f[U]}
<1>1. \A U \in SUBSET S : IsFiniteSet(U) /\ Cardinality(U) \in Nat
  BY FS_Subset, FS_CardinalityType
<1>2. \A U \in SUBSET S : f[U] \in Nat
  BY SumType
<1>3. 0 \in Levels
  <2>1. ASSUME NEW U \in SUBSET S, T \subseteq U, Cardinality(U) = 0 PROVE f[T] <= f[U]
    <3>1. U = {} /\ T = U
      BY <1>1, <2>1, FS_EmptySet
    <3> QED BY <1>2, <3>1
  <2> QED BY <2>1
<1>4. ASSUME NEW n \in Nat, n \in Levels PROVE n + 1 \in Levels
  <2>1. ASSUME NEW U \in SUBSET S, T \subseteq U, Cardinality(U) = n + 1 PROVE f[T] <= f[U]
    <3>1. CASE U = T
      BY <1>2, <3>1
    <3>2. CASE U # T
      <4>1. PICK x \in U : x \notin T
        BY <2>1, <3>2
      <4>2. Cardinality(U \ {x}) = n /\ U \ {x} \in SUBSET S /\ T \subseteq U \ {x}
        BY <1>1, <2>1, <4>1, OneFewer
      <4>3. f[T] <= f[U \ {x}]
        BY <1>4, <4>2
      <4>4. f[U] = Amount(x) + f[U \ {x}]
        BY <4>1, SumRemove
      <4>5. Amount(x) \in Nat /\ f[U \ {x}] \in Nat /\ f[T] \in Nat
        BY <1>2, <4>1, <4>2 DEF Amounts
      <4> QED BY <4>3, <4>4, <4>5
    <3> QED BY <3>1, <3>2
  <2> QED BY <2>1
<1>5. Nat \subseteq Levels
  <2> HIDE DEF Levels
  <2> QED BY <1>3, <1>4, NatSetInduction
<1> QED
  BY <1>1, <1>5

\* Sums over the same set are the same, however they were computed.
LEMMA SumUnique ==
  ASSUME NEW S, IsFiniteSet(S), NEW f, SumsUp(f, S), NEW g, SumsUp(g, S)
  PROVE  f[S] = g[S]
<1> DEFINE Levels == {n \in Nat : \A T \in SUBSET S : Cardinality(T) = n => f[T] = g[T]}
<1>1. \A T \in SUBSET S : IsFiniteSet(T) /\ Cardinality(T) \in Nat
  BY FS_Subset, FS_CardinalityType
<1>2. 0 \in Levels
  BY <1>1, FS_EmptySet DEF SumsUp, SumAt
<1>3. ASSUME NEW n \in Nat, n \in Levels PROVE n + 1 \in Levels
  <2>1. ASSUME NEW T \in SUBSET S, Cardinality(T) = n + 1 PROVE f[T] = g[T]
    <3>1. T # {}
      BY <2>1, FS_EmptySet
    <3>2. Chosen(T) \in T
      BY <3>1 DEF Chosen
    <3>3. Cardinality(T \ {Chosen(T)}) = n /\ T \ {Chosen(T)} \in SUBSET S
      BY <1>1, <2>1, <3>2, OneFewer
    <3>4. f[T \ {Chosen(T)}] = g[T \ {Chosen(T)}]
      BY <1>3, <3>3
    <3> QED BY <3>1, <3>4 DEF SumsUp, SumAt
  <2> QED BY <2>1
<1>4. Nat \subseteq Levels
  <2> HIDE DEF Levels
  <2> QED BY <1>2, <1>3, NatSetInduction
<1> QED
  BY <1>1, <1>4

\* What the SUMs of the table need: no rows, no tokens; more rows, no fewer tokens.
LEMMA SumOfNone == MapThenSumSet(Amount, {}) = 0
<1>1. IsFiniteSet({})
  BY FS_EmptySet
<1> QED
  BY <1>1, SumDef DEF SumsUp, SumAt

LEMMA SumMonotone ==
  ASSUME NEW S, IsFiniteSet(S), Amounts(S), NEW T \in SUBSET S
  PROVE  /\ MapThenSumSet(Amount, T) <= MapThenSumSet(Amount, S)
         /\ MapThenSumSet(Amount, T) \in Nat /\ MapThenSumSet(Amount, S) \in Nat
<1>1. PICK f : SumsUp(f, S) /\ MapThenSumSet(Amount, S) = f[S]
  BY SumDef
<1>2. IsFiniteSet(T) /\ SumsUp(f, T)
  BY <1>1, FS_Subset DEF SumsUp
<1>3. PICK g : SumsUp(g, T) /\ MapThenSumSet(Amount, T) = g[T]
  BY <1>2, SumDef
<1>4. f[T] = g[T]
  BY <1>2, <1>3, SumUnique
<1>5. f[T] <= f[S] /\ f[T] \in Nat /\ f[S] \in Nat
  BY <1>1, SumGrows, SumType
<1> QED
  BY <1>1, <1>3, <1>4, <1>5

-----------------------------------------------------------------------------
(* The windows slide *)

\* The table is finite, and has no row of the future.
TableInv ==
    /\ QuotaTypeOK
    /\ IsFiniteSet(events)
    /\ \A e \in events : e.timestamp <= now

LEMMA TableInvariant == QuotaSpec => []TableInv
<1>1. QuotaInit => TableInv
  BY FS_EmptySet DEF QuotaInit, TableInv, QuotaTypeOK
<1>2. TableInv /\ QuotaTypeOK' /\ [QuotaNext]_quotaVars => TableInv'
  <2> SUFFICES ASSUME TableInv, QuotaTypeOK', [QuotaNext]_quotaVars
               PROVE  IsFiniteSet(events') /\ \A e \in events' : e.timestamp <= now'
    BY DEF TableInv
  <2>1. IsFiniteSet(events) /\ now \in Nat /\ \A e \in events : e.timestamp <= now /\ e.timestamp \in Nat
    BY DEF TableInv, QuotaTypeOK, Row
  <2>2. ASSUME NEW s \in Slots, RecordRequest(s)
        PROVE  IsFiniteSet(events') /\ \A e \in events' : e.timestamp <= now'
    BY <2>1, <2>2, FS_AddElement DEF RecordRequest, RequestRow
  <2>3. ASSUME NEW s \in Slots, NEW n \in TokenCounts, RecordTokens(s, n)
        PROVE  IsFiniteSet(events') /\ \A e \in events' : e.timestamp <= now'
    <3>1. events' = events \cup {TokensRow(s, lastId + 1, n)} /\ now' = now
      BY <2>3 DEF RecordTokens
    <3>2. TokensRow(s, lastId + 1, n).timestamp = now
      BY DEF TokensRow
    <3>3. IsFiniteSet(events')
      BY <2>1, <3>1, FS_AddElement
    <3> QED
      BY <2>1, <3>1, <3>2, <3>3
  <2>4. CASE Compact
    BY <2>1, <2>4, FS_Subset DEF Compact
  <2>5. CASE Tick
    BY <2>1, <2>5 DEF Tick
  <2>6. CASE UNCHANGED quotaVars
    BY <2>1, <2>6 DEF quotaVars
  <2> QED
    BY <2>2, <2>3, <2>4, <2>5, <2>6 DEF QuotaNext
<1> QED
  BY <1>1, <1>2, QuotaTypeCorrect, PTL DEF QuotaSpec

\* The limits and windows of a candidate.
LEMMA LimitTypes ==
  ASSUME NEW c \in Candidates
  PROVE  /\ RequestLimit(c) \in Limit /\ TokenLimit(c) \in Limit
         /\ RequestWindow(c) \in Windows /\ TokenWindow(c) \in Windows
         /\ Windows \subseteq Nat
BY QuotaAssumption
   DEF QuotaAssumption, Candidate, RequestLimit, TokenLimit, RequestWindow, TokenWindow, Windows

\* Fewer rows that are no younger leave a candidate that has quota its quota.
LEMMA FewerRowsOk ==
  ASSUME NEW evs, IsFiniteSet(evs), evs \subseteq Row, NEW t \in Nat,
         NEW kept \in SUBSET evs, NEW u \in Nat, t <= u,
         NEW c \in Candidates, QuotaOk(evs, t, c)
  PROVE  QuotaOk(kept, u, c)
<1>1. \A w \in Windows, type \in {"request", "tokens"} :
        RowsOf(kept, u, c.slot, w, type) \subseteq RowsOf(evs, t, c.slot, w, type)
  BY LimitTypes DEF RowsOf, InWindow, Row
<1>2. \A w \in Windows, type \in {"request", "tokens"} :
        /\ IsFiniteSet(RowsOf(evs, t, c.slot, w, type))
        /\ Amounts(RowsOf(evs, t, c.slot, w, type))
  BY FS_Subset DEF RowsOf, InWindow, Amounts, Amount, Row
<1>3. RequestsOk(kept, u, c)
  <2> SUFFICES ASSUME RequestLimit(c) # NoLimit
               PROVE  RequestsUsed(kept, u, c.slot, RequestWindow(c)) < RequestLimit(c)
    BY DEF RequestsOk
  <2> DEFINE S == RowsOf(evs, t, c.slot, RequestWindow(c), "request")
             T == RowsOf(kept, u, c.slot, RequestWindow(c), "request")
  <2>1. Cardinality(S) < RequestLimit(c)
    BY DEF QuotaOk, RequestsOk, RequestsUsed
  <2>2. T \subseteq S /\ IsFiniteSet(S)
    BY <1>1, <1>2, LimitTypes
  <2> HIDE DEF S, T
  <2>3. Cardinality(T) <= Cardinality(S) /\ Cardinality(T) \in Nat /\ Cardinality(S) \in Nat
    BY <2>2, FS_Subset, FS_CardinalityType
  <2>4. RequestLimit(c) \in Nat
    BY LimitTypes DEF Limit
  <2>5. Cardinality(T) < RequestLimit(c)
    BY <2>1, <2>3, <2>4
  <2> QED
    BY <2>5 DEF T, RequestsUsed
<1>4. TokensOk(kept, u, c)
  <2> SUFFICES ASSUME TokenLimit(c) # NoLimit
               PROVE  TokensUsed(kept, u, c.slot, TokenWindow(c)) < TokenLimit(c)
    BY DEF TokensOk
  <2> DEFINE S == RowsOf(evs, t, c.slot, TokenWindow(c), "tokens")
             T == RowsOf(kept, u, c.slot, TokenWindow(c), "tokens")
  <2>1. MapThenSumSet(Amount, S) < TokenLimit(c)
    BY DEF QuotaOk, TokensOk, TokensUsed
  <2>2. T \subseteq S /\ IsFiniteSet(S) /\ Amounts(S)
    BY <1>1, <1>2, LimitTypes
  <2> HIDE DEF S, T
  <2>3. /\ MapThenSumSet(Amount, T) <= MapThenSumSet(Amount, S)
        /\ MapThenSumSet(Amount, T) \in Nat /\ MapThenSumSet(Amount, S) \in Nat
    BY <2>2, SumMonotone
  <2>4. TokenLimit(c) \in Nat
    BY LimitTypes DEF Limit
  <2>5. MapThenSumSet(Amount, T) < TokenLimit(c)
    BY <2>1, <2>3, <2>4
  <2> QED
    BY <2>5 DEF T, TokensUsed
<1> QED
  BY <1>3, <1>4 DEF QuotaOk

\* Neither the passing of time nor compaction takes quota from a candidate.
LEMMA QuietKeepsQuota ==
  ASSUME TableInv, Quiet, NEW c \in Candidates, QuotaOk(events, now, c)
  PROVE  QuotaOk(events', now', c)
<1>1. now \in Nat /\ events \subseteq Row /\ IsFiniteSet(events)
  BY DEF TableInv, QuotaTypeOK
<1>2. events' \in SUBSET events /\ now' \in Nat /\ now <= now'
  BY <1>1 DEF Quiet, Compact, Tick, quotaVars
<1> QED
  BY <1>1, <1>2, FewerRowsOk

\* For all limits, requests and tokens, of minutes and days: only an insert takes
\* quota from a candidate.
THEOREM QuotaLostByInserts == QuotaSpec => OnlyInsertsExhaust
<1> DEFINE Keeps ==
      lastId' = lastId
      => \A c \in Candidates : QuotaOk(events, now, c) => QuotaOk(events', now', c)
<1>1. TableInv /\ [QuotaNext]_quotaVars => [Keeps]_quotaVars
  BY QuietSteps, QuietKeepsQuota DEF TableInv
<1> QED
  BY <1>1, TableInvariant, PTL DEF QuotaSpec, OnlyInsertsExhaust

\* A window after now, nothing of what is recorded now counts.
LEMMA WindowEmpties ==
  ASSUME TableInv, NEW w \in Windows, NEW later \in Nat, w <= later, NEW s, NEW type
  PROVE  RowsOf(events, now + later, s, w, type) = {}
BY LimitTypes, QuotaAssumption
   DEF TableInv, QuotaTypeOK, RowsOf, InWindow, Row, Windows, QuotaAssumption

LEMMA HintSuffices ==
  ASSUME TableInv
  PROVE  ResetsInIsWorstCase
<1> SUFFICES ASSUME NEW c \in Candidates,
                    0 \notin {RequestLimit(c), TokenLimit(c)}, SingleWindow(c)
             PROVE  QuotaOk(events, now + ResetsIn(c), c)
  BY DEF ResetsInIsWorstCase
<1>1. /\ ResetsIn(c) \in Nat
      /\ RequestLimit(c) # NoLimit => RequestWindow(c) <= ResetsIn(c)
      /\ TokenLimit(c) # NoLimit => TokenWindow(c) <= ResetsIn(c)
  BY QuotaAssumption
     DEF QuotaAssumption, Candidate, Limit, SingleWindow, ResetsIn, RequestLimit, TokenLimit,
         RequestWindow, TokenWindow
<1>2. RequestsOk(events, now + ResetsIn(c), c)
  <2> SUFFICES ASSUME RequestLimit(c) # NoLimit
               PROVE  RequestsUsed(events, now + ResetsIn(c), c.slot, RequestWindow(c)) < RequestLimit(c)
    BY DEF RequestsOk
  <2>1. RowsOf(events, now + ResetsIn(c), c.slot, RequestWindow(c), "request") = {}
    BY <1>1, LimitTypes, WindowEmpties
  <2>2. RequestsUsed(events, now + ResetsIn(c), c.slot, RequestWindow(c)) = 0
    BY <2>1, FS_EmptySet DEF RequestsUsed
  <2> QED
    BY <2>2, LimitTypes DEF Limit
<1>3. TokensOk(events, now + ResetsIn(c), c)
  <2> SUFFICES ASSUME TokenLimit(c) # NoLimit
               PROVE  TokensUsed(events, now + ResetsIn(c), c.slot, TokenWindow(c)) < TokenLimit(c)
    BY DEF TokensOk
  <2>1. RowsOf(events, now + ResetsIn(c), c.slot, TokenWindow(c), "tokens") = {}
    BY <1>1, LimitTypes, WindowEmpties
  <2>2. TokensUsed(events, now + ResetsIn(c), c.slot, TokenWindow(c)) = 0
    BY <2>1, SumOfNone DEF TokensUsed
  <2> QED
    BY <2>2, LimitTypes DEF Limit
<1> QED
  BY <1>2, <1>3 DEF QuotaOk

\* The reset hint is long enough, for all limits over a single window.
THEOREM ResetHintSuffices == QuotaSpec => []ResetsInIsWorstCase
<1>1. TableInv => ResetsInIsWorstCase
  BY HintSuffices
<1> QED
  BY <1>1, TableInvariant, PTL
=============================================================================
