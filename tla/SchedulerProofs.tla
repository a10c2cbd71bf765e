--------------------------- MODULE SchedulerProofs ---------------------------
(* Lemmas about the operations of Scheduler, for every caller of them. *)
EXTENDS Scheduler, TLAPS, FiniteSetTheorems, SequenceTheorems

\* The rows of a report are at most two, and are rows.
LEMMA UsageRowsType ==
  ASSUME NEW slot \in Slots, NEW n \in Nat, QuotaTypeOK
  PROVE  /\ UsageRows(slot, n) \subseteq Row
         /\ IsFiniteSet(UsageRows(slot, n))
         /\ Cardinality(UsageRows(slot, n)) \in Nat
<1>1. UsageRows(slot, n) \subseteq Row
  BY DEF QuotaTypeOK, UsageRows, RequestRow, TokensRow, Row
<1> DEFINE a == RequestRow(slot, lastId + 1)
           b == TokensRow(slot, lastId + 2, n)
<1>2. UsageRows(slot, n) \subseteq ({} \cup {a}) \cup {b}
  BY DEF UsageRows
<1>3. IsFiniteSet(({} \cup {a}) \cup {b})
  <2> HIDE DEF a, b
  <2> QED BY FS_EmptySet, FS_AddElement
<1>4. IsFiniteSet(UsageRows(slot, n))
  BY <1>2, <1>3, FS_Subset
<1> QED
  BY <1>1, <1>4, FS_CardinalityType

\* record_failure yields an entry: the index it computes is inside the list.
LEMMA RecordFailureType ==
  ASSUME NEW cd \in CooldownEntry, now \in Nat
  PROVE  RecordFailure(cd) \in CooldownEntry
<1> DEFINE n   == cd.consecutive_failures
           idx == IF n < Len(BACKOFF_STEPS) THEN n + 1 ELSE Len(BACKOFF_STEPS)
<1>1. n \in Nat /\ Len(BACKOFF_STEPS) \in Nat \ {0}
  BY SchedulerAssumption DEF CooldownEntry, SchedulerAssumption
<1>2. idx \in 1..Len(BACKOFF_STEPS)
  BY <1>1
<1>3. BACKOFF_STEPS[idx] \in Nat \ {0}
  BY <1>2, SchedulerAssumption, ElementOfSeq DEF SchedulerAssumption
<1> HIDE DEF idx
<1>4. RecordFailure(cd) = [until |-> now + BACKOFF_STEPS[idx], consecutive_failures |-> n + 1]
  BY DEF RecordFailure, idx
<1> QED
  BY <1>1, <1>3, <1>4 DEF CooldownEntry

LEMMA AfterFailureType ==
  ASSUME NEW cds \in [Slots -> CooldownEntry], NEW slot \in Slots, now \in Nat
  PROVE  AfterFailure(cds, slot) \in [Slots -> CooldownEntry]
BY RecordFailureType DEF AfterFailure

LEMMA AfterSuccessType ==
  ASSUME NEW cds \in [Slots -> CooldownEntry], NEW slot \in Slots
  PROVE  AfterSuccess(cds, slot) \in [Slots -> CooldownEntry]
BY DEF AfterSuccess, FreshEntry, CooldownEntry

\* A slot that has just failed is cooling: no backoff step is 0.
LEMMA FailureCools ==
  ASSUME NEW cds \in [Slots -> CooldownEntry], NEW slot \in Slots, now \in Nat
  PROVE  Cooling(AfterFailure(cds, slot), slot, now)
<1> DEFINE n   == cds[slot].consecutive_failures
           idx == IF n < Len(BACKOFF_STEPS) THEN n + 1 ELSE Len(BACKOFF_STEPS)
<1>1. n \in Nat /\ Len(BACKOFF_STEPS) \in Nat \ {0}
  BY SchedulerAssumption DEF CooldownEntry, SchedulerAssumption
<1>2. idx \in 1..Len(BACKOFF_STEPS)
  BY <1>1
<1>3. BACKOFF_STEPS[idx] \in Nat \ {0}
  BY <1>2, SchedulerAssumption, ElementOfSeq DEF SchedulerAssumption
<1> HIDE DEF idx
<1>4. AfterFailure(cds, slot)[slot].until = now + BACKOFF_STEPS[idx]
  BY DEF AfterFailure, RecordFailure, idx
<1> QED
  BY <1>3, <1>4 DEF Cooling

\* The remainder of a sum of two positions of a list
LEMMA WrapAround ==
  ASSUME NEW n \in Nat \ {0}, NEW x \in Nat, x < 2 * n
  PROVE  x % n = IF x < n THEN x ELSE x - n
OBVIOUS

\* report_success keeps the types of the table and of the cooldowns.
LEMMA ReportSuccessType ==
  ASSUME QuotaTypeOK, cooldowns \in [Slots -> CooldownEntry],
         NEW slot \in Slots, NEW n \in Nat, ReportSuccess(slot, n)
  PROVE  /\ events' \subseteq Row /\ lastId' \in Nat /\ now' = now
         /\ cooldowns' \in [Slots -> CooldownEntry]
<1> DEFINE new == UsageRows(slot, n)
<1>1. new \subseteq Row /\ Cardinality(new) \in Nat
  BY UsageRowsType
<1>2. events' = events \cup new /\ lastId' = lastId + Cardinality(new) /\ now' = now
  BY DEF ReportSuccess, RecordUsage
<1>3. cooldowns' \in [Slots -> CooldownEntry]
  BY AfterSuccessType DEF ReportSuccess
<1> HIDE DEF new
<1> QED
  BY <1>1, <1>2, <1>3 DEF QuotaTypeOK
=============================================================================
