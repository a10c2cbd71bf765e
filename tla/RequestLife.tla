----------------------------- MODULE RequestLife -----------------------------
(***************************************************************************)
(* What the hub promises a request, whatever the scheduler, the cooldowns  *)
(* and the quota table do: it keeps the candidate list it was accepted     *)
(* with, makes a bounded number of provider calls, does not turn at once   *)
(* to the slot that has just failed it, and is answered in the end.        *)
(***************************************************************************)
EXTENDS Integers, Sequences, Functions

CONSTANTS
    Reqs,      \* requests in service at a time
    Lists,     \* the candidate lists a request may be accepted with
    MaxCalls   \* provider calls that one request may cost

VARIABLE life  \* the state of each request

Gone == [phase |-> "gone"]

LifeInit == life = [r \in Reqs |-> Gone]

InService(r) == life[r].phase # "gone"

Accept(r) == \E list \in Lists : \E c \in Range(list) :
    /\ ~InService(r)
    /\ life' = [life EXCEPT ![r] = [phase |-> "calling", list |-> list,
                                    calls |-> 1, callee |-> c]]

\* After a failed call: another candidate of the same list, on another slot.
Retry(r) == \E c \in Range(life[r].list) :
    /\ life[r].calls < MaxCalls
    /\ c.slot # life[r].callee.slot
    /\ life' = [life EXCEPT ![r] = [phase |-> "calling", list |-> life[r].list,
                                    calls |-> life[r].calls + 1, callee |-> c]]

Open(r) == life' = [life EXCEPT ![r].phase = "streaming"]

Finish(r) == life' = [life EXCEPT ![r] = Gone]

GoOn(r) ==
    \/ life[r].phase = "calling" /\ (Retry(r) \/ Open(r))
    \/ InService(r) /\ Finish(r)

Outage == life' = [r \in Reqs |-> Gone]

LifeNext == (\E r \in Reqs : Accept(r) \/ GoOn(r)) \/ Outage

LifeSafeSpec == LifeInit /\ [][LifeNext]_life

LifeSpec == LifeSafeSpec /\ \A r \in Reqs : WF_life(GoOn(r))
=============================================================================
