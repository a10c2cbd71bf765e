------------------------------ MODULE Scheduler ------------------------------
(***************************************************************************)
(* app/core/scheduler.py: the round-robin index, the cooldown table and    *)
(* pick(), on top of the quota table.  This module holds the state and the *)
(* operations; RoundRobin and Gateway put callers on them.                 *)
(*                                                                         *)
(* The operations take the cooldowns and the rows they read as arguments:  *)
(* a request handler reports a failure and picks again without giving up   *)
(* the event loop, so that one step of a caller chains several of them.    *)
(***************************************************************************)
EXTENDS QuotaTracker, Sequences

CONSTANT BACKOFF_STEPS  \* CooldownEntry.BACKOFF_STEPS, in ticks

\* record_failure indexes the list up to its last element; is_cooled_down needs
\* a positive backoff to refuse anything; the shipped list only escalates.
ASSUME SchedulerAssumption ==
    /\ BACKOFF_STEPS \in Seq(Nat \ {0})
    /\ Len(BACKOFF_STEPS) \in Nat \ {0}
    /\ \A i, j \in 1..Len(BACKOFF_STEPS) : i <= j => BACKOFF_STEPS[i] <= BACKOFF_STEPS[j]

VARIABLES
    rr_index,   \* Scheduler._rr_index
    cooldowns   \* Scheduler._cooldowns; a missing entry reads like a fresh one

schedVars == <<rr_index, cooldowns>>

CooldownEntry == [until : Nat, consecutive_failures : Nat]

SchedTypeOK ==
    /\ rr_index \in Nat
    /\ cooldowns \in [Slots -> CooldownEntry]

FreshEntry == [until |-> 0, consecutive_failures |-> 0]

FreshCooldowns == [s \in Slots |-> FreshEntry]

SchedInit ==
    /\ rr_index = 0
    /\ cooldowns = FreshCooldowns

-----------------------------------------------------------------------------
(* CooldownEntry *)

\* The last backoff step doubled for every failure beyond it.
Mut_UncappedBackoff(cd) ==
    LET n == cd.consecutive_failures IN
    [until |-> now + (IF n < Len(BACKOFF_STEPS)
                      THEN BACKOFF_STEPS[n + 1]
                      ELSE BACKOFF_STEPS[Len(BACKOFF_STEPS)] * 2),
     consecutive_failures |-> n + 1]

\* record_failure: the step is indexed by the failures so far, the last step
\* being the cap.
RecordFailure(cd) ==
    LET n   == cd.consecutive_failures
        idx == IF n < Len(BACKOFF_STEPS) THEN n + 1 ELSE Len(BACKOFF_STEPS)
    IN [until |-> now + BACKOFF_STEPS[idx], consecutive_failures |-> n + 1]

\* report_failure, as a function of the cooldown table
AfterFailure(cds, slot) == [cds EXCEPT ![slot] = RecordFailure(@)]

\* record_success
AfterSuccess(cds, slot) == [cds EXCEPT ![slot] = FreshEntry]

\* not is_cooled_down
Cooling(cds, slot, t) == t < cds[slot].until

-----------------------------------------------------------------------------
(* Reports *)

ReportFailure(slot) ==
    /\ cooldowns' = AfterFailure(cooldowns, slot)
    /\ UNCHANGED <<rr_index, now, events, lastId>>

\* The request row inserted twice, by the caller and by report_success.
Mut_ChargeTwice(slot, n) ==
    {RequestRow(slot, lastId + 1), RequestRow(slot, lastId + 2)}

\* The rows that report_success inserts: one for the request and, if the
\* provider reported tokens, one for them.
UsageRows(slot, n) ==
    {RequestRow(slot, lastId + 1)}
        \cup {TokensRow(slot, lastId + 2, m) : m \in {n} \ {0}}

RecordUsage(slot, n) ==
    /\ events' = events \cup UsageRows(slot, n)
    /\ lastId' = lastId + Cardinality(UsageRows(slot, n))
    /\ UNCHANGED now

ReportSuccess(slot, n) ==
    /\ cooldowns' = AfterSuccess(cooldowns, slot)
    /\ RecordUsage(slot, n)
    /\ UNCHANGED rr_index

-----------------------------------------------------------------------------
(* pick *)

\* The quota not consulted.
Mut_CooldownOnly(cds, evs, c) == ~Cooling(cds, c.slot, now)

\* Neither of pick's two `continue`s would be taken for c at time t.
AvailableAt(cds, evs, t, c) == ~Cooling(cds, c.slot, t) /\ QuotaOk(evs, t, c)

Available(cds, evs, c) == AvailableAt(cds, evs, now, c)

\* The list position that pick looks at in round `offset`.
At(cands, offset) == ((rr_index + offset) % Len(cands)) + 1

\* pick returns the candidate at list position i ...
Picks(cands, cds, evs, i) ==
    \E offset \in 0..(Len(cands) - 1) :
        /\ i = At(cands, offset)
        /\ Available(cds, evs, cands[i])
        /\ \A p \in 0..(offset - 1) : ~Available(cds, evs, cands[At(cands, p)])

\* The index left on the candidate just picked.
Mut_StayOnPicked(cands, i) == rr_index' = i - 1

\* The index left on the candidate before it.
Mut_StepBack(cands, i) == rr_index' = i - 2

\* ... and leaves the index on the position behind it (counted from 0, as in the
\* code: position i is idx = i - 1).  Every list shares the one index.
AdvanceIndex(cands, i) == rr_index' = i % Len(cands)

\* pick returns None; the index stays.
PicksNothing(cands, cds, evs) ==
    /\ \A i \in DOMAIN cands : ~Available(cds, evs, cands[i])
    /\ UNCHANGED rr_index

\* get_next_available_time: the earliest end of a cooldown, whichever candidate
\* it belongs to.
NextAvailableTime(cds) ==
    LET untils == {cds[s].until : s \in {x \in Slots : Cooling(cds, x, now)}} IN
    IF untils = {} THEN NoLimit ELSE Min(untils)
=============================================================================
