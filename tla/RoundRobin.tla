----------------------------- MODULE RoundRobin -----------------------------
(***************************************************************************)
(* The scheduler driven by callers in any order: callers pick from the     *)
(* candidate lists of the hub, hold what they picked while the provider    *)
(* answers, and report.  The history variable counts, for every list and   *)
(* position, how often in a row a candidate that pick could have returned  *)
(* was passed over.                                                        *)
(***************************************************************************)
EXTENDS Scheduler

CONSTANTS
    Callers,  \* concurrent users of the scheduler
    Lists,    \* the candidate lists they pass to pick()
    NoCall    \* a caller with no pick outstanding

ASSUME RoundRobinAssumption ==
    /\ Lists \subseteq Seq(Candidates)
    /\ \A L \in Lists : Len(L) \in Nat \ {0}
    /\ NoCall \notin Candidates

VARIABLES
    call,    \* the candidate a caller holds
    skipped  \* history: skipped[L][i] picks from L in a row passed over L[i]

rrVars == <<now, events, lastId, rr_index, cooldowns, call, skipped>>

RRTypeOK ==
    /\ QuotaTypeOK
    /\ SchedTypeOK
    /\ call \in [Callers -> Candidates \cup {NoCall}]
    /\ DOMAIN skipped = Lists
    /\ \A L \in Lists : skipped[L] \in [1..Len(L) -> Nat]

RRInit ==
    /\ QuotaInit
    /\ SchedInit
    /\ call = [p \in Callers |-> NoCall]
    /\ skipped = [L \in Lists |-> [i \in 1..Len(L) |-> 0]]

-----------------------------------------------------------------------------
Free(c) == Available(cooldowns, events, c)

\* Position i of L after a pick that returned position j (0 for None): passed
\* over only if it was free.
Passed(L, i, j) ==
    IF i # j /\ Free(L[i]) THEN skipped[L][i] + 1 ELSE 0

Choose(p, L) == \E i \in 1..Len(L) :
    /\ call[p] = NoCall
    /\ lastId < MaxRows
    /\ Picks(L, cooldowns, events, i)
    /\ AdvanceIndex(L, i)
    /\ call' = [call EXCEPT ![p] = L[i]]
    /\ skipped' = [skipped EXCEPT ![L] = [k \in 1..Len(L) |-> Passed(L, k, i)]]
    /\ UNCHANGED <<now, events, lastId, cooldowns>>

FindNothing(p, L) ==
    /\ call[p] = NoCall
    /\ PicksNothing(L, cooldowns, events)
    /\ skipped' = [skipped EXCEPT ![L] = [k \in 1..Len(L) |-> Passed(L, k, 0)]]
    /\ UNCHANGED <<now, events, lastId, cooldowns, call>>

Succeed(p, n) ==
    /\ call[p] # NoCall
    /\ ReportSuccess(call[p].slot, n)
    /\ call' = [call EXCEPT ![p] = NoCall]
    /\ UNCHANGED skipped

Fail(p) ==
    /\ call[p] # NoCall
    /\ ReportFailure(call[p].slot)
    /\ call' = [call EXCEPT ![p] = NoCall]
    /\ UNCHANGED skipped

RRTick == Tick /\ UNCHANGED <<rr_index, cooldowns, call, skipped>>

RRNext ==
    \/ \E p \in Callers, L \in Lists : Choose(p, L) \/ FindNothing(p, L)
    \/ \E p \in Callers : (\E n \in TokenCounts : Succeed(p, n)) \/ Fail(p)
    \/ RRTick

RRSpec == RRInit /\ [][RRNext]_rrVars

-----------------------------------------------------------------------------
(* Properties *)

\* The picks from position i on that the index still has to walk before it
\* reaches position i.
Distance(L, i) ==
    IF i > rr_index THEN i - 1 - rr_index ELSE i - 1 - rr_index + Len(L)

\* "round-robin" (scheduler.py:1): a candidate that is free at every pick from
\* its list is returned at the latest by the Len(L)-th of them, whatever the
\* others' cooldowns and quotas do in between.
BoundedBypass ==
    \A L \in Lists : \A i \in 1..Len(L) : skipped[L][i] < Len(L)

\* Why: every pick that passes over a free candidate brings the index nearer to
\* it, and the index never leaves the list.
BypassInv ==
    \A L \in Lists :
        /\ rr_index < Len(L)
        /\ \A i \in 1..Len(L) : skipped[L][i] + Distance(L, i) < Len(L)
=============================================================================
