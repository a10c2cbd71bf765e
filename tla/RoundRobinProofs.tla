-------------------------- MODULE RoundRobinProofs --------------------------
(* Theorems about RoundRobin: types, and the fairness of the shared index    *)
(* when there is one candidate list.                                         *)
EXTENDS RoundRobin, SchedulerProofs

\* What pick returns is a position of the list, and the index it leaves is one
\* of the list's.
LEMMA PickedPosition ==
  ASSUME NEW L \in Lists, rr_index \in Nat, NEW i,
         Picks(L, cooldowns, events, i)
  PROVE  /\ Len(L) \in Nat \ {0}
         /\ i \in 1..Len(L)
         /\ L[i] \in Candidates
<1>1. L \in Seq(Candidates) /\ Len(L) \in Nat \ {0}
  BY RoundRobinAssumption DEF RoundRobinAssumption
<1>2. PICK o \in 0..(Len(L) - 1) : i = At(L, o)
  BY DEF Picks
<1>3. (rr_index + o) % Len(L) \in 0..(Len(L) - 1)
  BY <1>1, <1>2
<1>4. i \in 1..Len(L)
  BY <1>1, <1>2, <1>3 DEF At
<1> QED
  BY <1>1, <1>4, ElementOfSeq

\* Every reachable state of the scheduler and its callers is type-correct.
THEOREM RRTypeCorrect == RRSpec => []RRTypeOK
<1>1. RRInit => RRTypeOK
  BY DEF RRInit, RRTypeOK, QuotaInit, QuotaTypeOK, SchedInit, SchedTypeOK,
         FreshCooldowns, FreshEntry, CooldownEntry
<1>2. RRTypeOK /\ [RRNext]_rrVars => RRTypeOK'
  <2> SUFFICES ASSUME RRTypeOK, [RRNext]_rrVars PROVE RRTypeOK'
    OBVIOUS
  <2>0. /\ QuotaTypeOK /\ SchedTypeOK /\ Candidates \subseteq Candidate /\ TokenCounts \subseteq Nat
        /\ now \in Nat /\ lastId \in Nat /\ events \subseteq Row
        /\ rr_index \in Nat /\ cooldowns \in [Slots -> CooldownEntry]
        /\ call \in [Callers -> Candidates \cup {NoCall}]
        /\ DOMAIN skipped = Lists
        /\ \A L \in Lists : skipped[L] \in [1..Len(L) -> Nat]
        /\ \A L \in Lists : Len(L) \in Nat \ {0}
    BY QuotaAssumption, RoundRobinAssumption
       DEF RRTypeOK, QuotaTypeOK, SchedTypeOK, QuotaAssumption, RoundRobinAssumption
  <2>a. \A L \in Lists, j \in Int : \A k \in 1..Len(L) : Passed(L, k, j) \in Nat
    BY <2>0 DEF Passed
  <2>1. ASSUME NEW p \in Callers, NEW L \in Lists, Choose(p, L) PROVE RRTypeOK'
    <3>1. PICK i \in 1..Len(L) :
             /\ Picks(L, cooldowns, events, i)
             /\ AdvanceIndex(L, i)
             /\ call' = [call EXCEPT ![p] = L[i]]
             /\ skipped' = [skipped EXCEPT ![L] = [k \in 1..Len(L) |-> Passed(L, k, i)]]
      BY <2>1 DEF Choose
    <3>2. L[i] \in Candidates /\ Len(L) \in Nat \ {0} /\ i \in Nat
      BY <2>0, <3>1, PickedPosition
    <3>3. rr_index' \in Nat
      BY <3>1, <3>2 DEF AdvanceIndex
    <3>4. /\ DOMAIN skipped' = Lists
          /\ \A M \in Lists : skipped'[M] \in [1..Len(M) -> Nat]
      BY <2>0, <2>a, <3>1, <3>2
    <3> QED
      BY <2>0, <2>1, <3>1, <3>2, <3>3, <3>4
         DEF Choose, RRTypeOK, QuotaTypeOK, SchedTypeOK
  <2>2. ASSUME NEW p \in Callers, NEW L \in Lists, FindNothing(p, L) PROVE RRTypeOK'
    <3>1. /\ DOMAIN skipped' = Lists
          /\ \A M \in Lists : skipped'[M] \in [1..Len(M) -> Nat]
      BY <2>0, <2>a, <2>2 DEF FindNothing
    <3> QED
      BY <2>0, <2>2, <3>1 DEF FindNothing, PicksNothing, RRTypeOK, QuotaTypeOK, SchedTypeOK
  <2>3. ASSUME NEW p \in Callers, NEW n \in TokenCounts, Succeed(p, n) PROVE RRTypeOK'
    <3>1. call[p].slot \in Slots /\ n \in Nat
      BY <2>0, <2>3 DEF Succeed, Candidate
    <3>2. /\ events' \subseteq Row /\ lastId' \in Nat /\ now' = now
          /\ cooldowns' \in [Slots -> CooldownEntry]
      BY <2>0, <2>3, <3>1, ReportSuccessType DEF Succeed
    <3> QED
      BY <2>0, <2>3, <3>2
         DEF Succeed, ReportSuccess, RRTypeOK, QuotaTypeOK, SchedTypeOK
  <2>4. ASSUME NEW p \in Callers, Fail(p) PROVE RRTypeOK'
    <3>1. call[p].slot \in Slots
      BY <2>0, <2>4 DEF Fail, Candidate
    <3>2. cooldowns' \in [Slots -> CooldownEntry]
      BY <2>0, <2>4, <3>1, AfterFailureType DEF Fail, ReportFailure
    <3> QED
      BY <2>0, <2>4, <3>2 DEF Fail, ReportFailure, RRTypeOK, QuotaTypeOK, SchedTypeOK
  <2>5. CASE RRTick
    BY <2>0, <2>5 DEF RRTick, Tick, RRTypeOK, QuotaTypeOK, SchedTypeOK
  <2>6. CASE UNCHANGED rrVars
    BY <2>0, <2>6 DEF rrVars, RRTypeOK, QuotaTypeOK, SchedTypeOK
  <2> QED
    BY <2>1, <2>2, <2>3, <2>4, <2>5, <2>6 DEF RRNext
<1> QED
  BY <1>1, <1>2, PTL DEF RRSpec

\* The index is at most a list away from every position, and pick looks at the
\* position in the round that Distance names.
LEMMA DistanceRound ==
  ASSUME NEW L \in Lists, rr_index \in 0..(Len(L) - 1), NEW k \in 1..Len(L)
  PROVE  /\ Distance(L, k) \in 0..(Len(L) - 1)
         /\ At(L, Distance(L, k)) = k
<1>1. Len(L) \in Nat \ {0}
  BY RoundRobinAssumption DEF RoundRobinAssumption
<1>2. Distance(L, k) \in 0..(Len(L) - 1)
  BY <1>1 DEF Distance
<1>3. (rr_index + Distance(L, k)) % Len(L) = k - 1
  <2>1. rr_index + Distance(L, k) = IF k > rr_index THEN k - 1 ELSE k - 1 + Len(L)
    BY <1>1 DEF Distance
  <2> DEFINE x == rr_index + Distance(L, k)
  <2>2. x \in Nat /\ x < 2 * Len(L)
    BY <1>1, <1>2
  <2>3. x % Len(L) = IF x < Len(L) THEN x ELSE x - Len(L)
    <3> HIDE DEF x
    <3> QED BY <1>1, <2>2, WrapAround
  <2>4. x = IF k > rr_index THEN k - 1 ELSE k - 1 + Len(L)
    BY <2>1
  <2>5. CASE k > rr_index
    BY <1>1, <2>3, <2>4, <2>5
  <2>6. CASE k <= rr_index
    BY <1>1, <2>3, <2>4, <2>6
  <2> QED
    BY <1>1, <2>5, <2>6
<1> QED
  BY <1>2, <1>3 DEF At

\* The same of the next state
LEMMA DistancePrimed ==
  ASSUME NEW L, NEW n \in Nat, n = Len(L), rr_index' \in 0..(n - 1), NEW k \in 1..n
  PROVE  Distance(L, k)' \in 0..(n - 1)
<1>1. ASSUME NEW x \in 0..(n - 1)
      PROVE  (IF k > x THEN k - 1 - x ELSE k - 1 - x + n) \in 0..(n - 1)
  OBVIOUS
<1>2. Distance(L, k)' = IF k > rr_index' THEN k - 1 - rr_index' ELSE k - 1 - rr_index' + n
  BY DEF Distance
<1> QED
  BY <1>1, <1>2

\* A pick that passes over a free position comes nearer to it.
LEMMA PassingComesNearer ==
  ASSUME NEW L \in Lists, rr_index \in 0..(Len(L) - 1),
         NEW i \in 1..Len(L), NEW k \in 1..Len(L), i # k,
         Picks(L, cooldowns, events, i), AdvanceIndex(L, i), Free(L[k])
  PROVE  Distance(L, k)' < Distance(L, k)
<1> DEFINE n == Len(L)
           d == Distance(L, k)
<1>1. n \in Nat \ {0}
  BY RoundRobinAssumption DEF RoundRobinAssumption
<1>2. PICK o \in 0..(n - 1) :
         /\ i = At(L, o)
         /\ \A p \in 0..(o - 1) : ~Available(cooldowns, events, L[At(L, p)])
  BY DEF Picks
<1>3. d \in 0..(n - 1) /\ At(L, d) = k
  BY DistanceRound
<1>4. o < d
  BY <1>1, <1>2, <1>3 DEF Free
<1>5. i - 1 = IF rr_index + o < n THEN rr_index + o ELSE rr_index + o - n
  <2> DEFINE x == rr_index + o
  <2>1. x \in Nat /\ x < 2 * n
    BY <1>1, <1>2
  <2>2. i = (x % n) + 1
    BY <1>2 DEF At
  <2> HIDE DEF x, n
  <2>3. x % n = IF x < n THEN x ELSE x - n
    BY <1>1, <2>1, WrapAround
  <2>4. i - 1 = IF x < n THEN x ELSE x - n
    BY <1>1, <2>1, <2>2, <2>3
  <2> QED
    BY <2>4 DEF x, n
<1>6. rr_index' = IF i < n THEN i ELSE 0
  BY <1>1, WrapAround DEF AdvanceIndex
<1>7. Distance(L, k)' = IF k > rr_index' THEN k - 1 - rr_index' ELSE k - 1 - rr_index' + n
  BY DEF Distance
<1>8. d = IF k > rr_index THEN k - 1 - rr_index ELSE k - 1 - rr_index + n
  BY DEF Distance
<1> HIDE DEF n, d
<1> QED
  BY <1>1, <1>2, <1>3, <1>4, <1>5, <1>6, <1>7, <1>8 DEF n, d

\* With one candidate list, every pick that passes over a free candidate brings the
\* index nearer to it.
THEOREM IndexComesNearer ==
  ASSUME NEW TheList, Lists = {TheList}
  PROVE  RRSpec => []BypassInv
<1>1. RRInit => BypassInv
  <2> SUFFICES ASSUME RRInit, NEW L \in Lists
               PROVE  /\ rr_index < Len(L)
                      /\ \A i \in 1..Len(L) : skipped[L][i] + Distance(L, i) < Len(L)
    BY DEF BypassInv
  <2>1. Len(L) \in Nat \ {0} /\ rr_index = 0
    BY RoundRobinAssumption DEF RoundRobinAssumption, RRInit, SchedInit
  <2>2. \A i \in 1..Len(L) : skipped[L][i] = 0
    BY DEF RRInit
  <2> QED
    BY <2>1, <2>2, DistanceRound
<1>2. RRTypeOK /\ BypassInv /\ [RRNext]_rrVars => BypassInv'
  <2> SUFFICES ASSUME RRTypeOK, BypassInv, [RRNext]_rrVars PROVE BypassInv'
    OBVIOUS
  <2> DEFINE L == TheList
             n == Len(L)
  <2>0. /\ L \in Lists /\ n \in Nat \ {0}
        /\ rr_index \in 0..(n - 1)
        /\ DOMAIN skipped = Lists
        /\ \A k \in 1..n : skipped[L][k] \in Nat /\ skipped[L][k] + Distance(L, k) < n
    BY RoundRobinAssumption DEF RoundRobinAssumption, RRTypeOK, SchedTypeOK, BypassInv
  <2>1. CASE UNCHANGED <<rr_index, skipped>>
    BY <2>1 DEF BypassInv, Distance
  <2>2. ASSUME NEW p \in Callers, Choose(p, L) PROVE BypassInv'
    <3>1. PICK i \in 1..n :
             /\ Picks(L, cooldowns, events, i)
             /\ AdvanceIndex(L, i)
             /\ skipped' = [skipped EXCEPT ![L] = [k \in 1..n |-> Passed(L, k, i)]]
      BY <2>2 DEF Choose
    <3>2. rr_index' \in 0..(n - 1)
      BY <2>0, <3>1 DEF AdvanceIndex
    <3>3. ASSUME NEW k \in 1..n PROVE skipped'[L][k] + Distance(L, k)' < n
      <4>1. skipped'[L][k] = Passed(L, k, i)
        BY <2>0, <3>1
      <4>2. Distance(L, k)' \in 0..(n - 1)
        BY <2>0, <3>2, DistancePrimed
      <4>3. CASE i # k /\ Free(L[k])
        <5>1. Distance(L, k)' < Distance(L, k)
          BY <2>0, <3>1, <4>3, PassingComesNearer
        <5>2. Passed(L, k, i) = skipped[L][k] + 1
          BY <4>3 DEF Passed
        <5>3. Distance(L, k) \in 0..(n - 1)
          BY <2>0, DistanceRound
        <5> QED
          BY <2>0, <4>1, <4>2, <5>1, <5>2, <5>3
      <4>4. CASE ~(i # k /\ Free(L[k]))
        BY <2>0, <4>1, <4>2, <4>4 DEF Passed
      <4> QED
        BY <4>3, <4>4
    <3> QED
      BY <2>0, <3>2, <3>3 DEF BypassInv
  <2>3. ASSUME NEW p \in Callers, FindNothing(p, L) PROVE BypassInv'
    <3>1. rr_index' = rr_index
      BY <2>3 DEF FindNothing, PicksNothing
    <3>2. ASSUME NEW k \in 1..n PROVE skipped'[L][k] + Distance(L, k)' < n
      <4>1. skipped'[L][k] = 0
        BY <2>0, <2>3 DEF FindNothing, PicksNothing, Passed, Free
      <4>2. Distance(L, k)' = Distance(L, k)
        BY <3>1 DEF Distance
      <4> QED
        BY <2>0, <4>1, <4>2, DistanceRound
    <3> QED
      BY <2>0, <3>1, <3>2 DEF BypassInv
  <2>4. ASSUME NEW p \in Callers, (\E m \in TokenCounts : Succeed(p, m)) \/ Fail(p)
        PROVE  UNCHANGED <<rr_index, skipped>>
    BY <2>4 DEF Succeed, Fail, ReportSuccess, ReportFailure
  <2>5. RRTick \/ UNCHANGED rrVars => UNCHANGED <<rr_index, skipped>>
    BY DEF RRTick, rrVars
  <2> QED
    BY <2>1, <2>2, <2>3, <2>4, <2>5 DEF RRNext
<1> QED
  BY <1>1, <1>2, RRTypeCorrect, PTL DEF RRSpec

\* With one candidate list the scheduler is fair, for lists of every length and
\* whatever the limits, the backoff steps and the callers do: a free candidate is
\* passed over less than Len(L) times in a row.
THEOREM OneListIsFair ==
  ASSUME NEW TheList, Lists = {TheList}
  PROVE  RRSpec => []BoundedBypass
<1>1. RRSpec => []BypassInv
  BY IndexComesNearer
<1>2. RRTypeOK /\ BypassInv => BoundedBypass
  <2> SUFFICES ASSUME RRTypeOK, BypassInv, NEW L \in Lists, NEW i \in 1..Len(L)
               PROVE  skipped[L][i] < Len(L)
    BY DEF BoundedBypass
  <2>1. rr_index \in 0..(Len(L) - 1) /\ skipped[L][i] \in Nat /\ Len(L) \in Nat
    BY RoundRobinAssumption DEF RoundRobinAssumption, RRTypeOK, SchedTypeOK, BypassInv
  <2>2. Distance(L, i) \in 0..(Len(L) - 1)
    BY <2>1, DistanceRound
  <2> QED
    BY <2>1, <2>2 DEF BypassInv
<1> QED
  BY <1>1, <1>2, RRTypeCorrect, PTL
=============================================================================
