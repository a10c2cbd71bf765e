----------------------------- MODULE HealthProbe -----------------------------
(***************************************************************************)
(* app/core/health.py: the health states and the passes over the keys,     *)
(* one of the background loop and those that POST /admin/probe starts      *)
(* beside it.  A pass is a coroutine: it gives the event loop up only      *)
(* while a provider answers its ping, so that one action walks from one    *)
(* ping to the next.  The configuration and the registry may be swapped    *)
(* meanwhile: a pass keeps the key list it has begun with and reads the    *)
(* registry afresh for every key.                                          *)
(***************************************************************************)
EXTENDS QuotaTracker, Sequences

CONSTANTS
    Keys,      \* the provider:label pairs, keys of HealthProbe._states
    KeyOf,     \* the key that a slot is a model of
    KeyLists,  \* the values of config.keys, the disabled ones left out
    NoModel,   \* a key whose provider has no model in the registry
    Admins,    \* calls of POST /admin/probe at a time
    DownAt,    \* failures in a row that make a key "down": 3 in the code
    MaxFlips,  \* bound: disturbances by providers, reloads and the tracker
    MaxFails   \* bound: failing pings are counted up to here

Loop == "loop"

Passes == Admins \cup {Loop}

ASSUME HealthAssumption ==
    /\ KeyOf \in [Slots -> Keys]
    /\ KeyLists \subseteq Seq(Keys)
    /\ NoModel \notin Candidates
    /\ Loop \notin Admins
    /\ DownAt \in Nat \ {0}
    /\ MaxFlips \in Nat
    /\ MaxFails \in Nat
    /\ DownAt < MaxFails

VARIABLES
    looping,   \* the background loop runs
    keys,      \* get_config().keys
    firstOf,   \* get_models_for_provider(...)[0] of each key
    up,        \* the keys whose provider answers
    flips,     \* the disturbances so far
    states,    \* HealthProbe._states
    pass       \* the passes under way

healthVars == <<now, events, lastId, looping, keys, firstOf, up, flips, states, pass>>

HealthState == [status : {"unknown", "healthy", "degraded", "down"},
                consecutive_failures : 0..MaxFails]

\* key: the key being pinged; sentUp: whether its provider was up when the ping
\* was sent; rest: the keys that the pass has still to look at
Resting == [at |-> "rest"]
Pass == [at : {"ping"}, key : Keys, sentUp : BOOLEAN, rest : Seq(Keys)]

\* The candidates that the keys are probed with: the first model of the provider,
\* with the limits of the registry.
FirstModels ==
    {f \in [Keys -> Candidates \cup {NoModel}] :
        \A k \in Keys : f[k] # NoModel => KeyOf[f[k].slot] = k}

HealthTypeOK ==
    /\ QuotaTypeOK
    /\ looping \in BOOLEAN
    /\ keys \in KeyLists
    /\ firstOf \in FirstModels
    /\ up \subseteq Keys
    /\ states \in [Keys -> HealthState]
    /\ pass \in [Passes -> Pass \cup {Resting}]

\* get_state of a key without an entry
NoState == [status |-> "unknown", consecutive_failures |-> 0]

\* The lifespan starts the loop unless FREELLM_DISABLE_PROBE is set.
HealthInit ==
    /\ QuotaInit
    /\ looping \in BOOLEAN
    /\ keys \in KeyLists
    /\ firstOf \in FirstModels
    /\ up \in SUBSET Keys
    /\ flips = 0
    /\ states = [k \in Keys |-> NoState]
    /\ pass = [p \in Passes |-> Resting]

-----------------------------------------------------------------------------
(* _record, as a function of the state of a key *)

\* The counter not reset by a success.
Mut_KeepCounting(st) == [st EXCEPT !.status = "healthy"]

\* A success that takes one failure back.
Mut_CountDown(st) ==
    [status |-> "healthy", consecutive_failures |-> st.consecutive_failures - 1]

Healthy(st) == [status |-> "healthy", consecutive_failures |-> 0]

AtMost(n) == IF n < MaxFails THEN n ELSE MaxFails

\* "down" at the third failure only.
Mut_DownOnce(st) ==
    LET n == AtMost(st.consecutive_failures + 1) IN
    [status |-> IF n = DownAt THEN "down" ELSE "degraded", consecutive_failures |-> n]

Failing(st) ==
    LET n == AtMost(st.consecutive_failures + 1) IN
    [status |-> IF n < DownAt THEN "degraded" ELSE "down", consecutive_failures |-> n]

\* "no model in registry": the failures stay counted.
Unknown(st) == [st EXCEPT !.status = "unknown"]

-----------------------------------------------------------------------------
(* probe_once *)

Pings(k) == firstOf[k] # NoModel /\ QuotaOk(events, now, firstOf[k])

\* The states after the first n keys of the list were passed over
PassedOver(list, n, sts) ==
    [k \in Keys |-> IF firstOf[k] = NoModel /\ \E j \in 1..n : list[j] = k
                    THEN Unknown(sts[k]) ELSE sts[k]]

\* The pass ends at the first key that is not pinged.
Mut_StopAtSkipped(p, list, sts) ==
    /\ states' = sts
    /\ pass' = [pass EXCEPT ![p] =
         IF list # <<>> /\ Pings(Head(list))
         THEN [at |-> "ping", key |-> Head(list), sentUp |-> Head(list) \in up,
               rest |-> Tail(list)]
         ELSE Resting]

\* The loop over the keys, from the list given to the next ping or to the end
Walk(p, list, sts) == \E n \in 0..Len(list) :
    /\ \A j \in 1..n : ~Pings(list[j])
    /\ states' = PassedOver(list, n, sts)
    /\ \/ n = Len(list) /\ pass' = [pass EXCEPT ![p] = Resting]
       \/ /\ n < Len(list) /\ Pings(list[n + 1])
          /\ pass' = [pass EXCEPT ![p] =
               [at |-> "ping", key |-> list[n + 1], sentUp |-> list[n + 1] \in up,
                rest |-> SubSeq(list, n + 2, Len(list))]]

\* check_quota raises for some key, or get_registry does, which loads an empty registry
\* anew: the pass is over, the loop goes on with the next one.
WalkRaises(p, list, sts) == \E n \in 0..(Len(list) - 1) :
    /\ flips < MaxFlips
    /\ flips' = flips + 1
    /\ \A j \in 1..n : ~Pings(list[j])
    /\ firstOf[list[n + 1]] # NoModel \/ \A k \in Keys : firstOf[k] = NoModel
    /\ states' = PassedOver(list, n, sts)
    /\ pass' = [pass EXCEPT ![p] = Resting]

Go(p, list, sts) ==
    /\ \/ Walk(p, list, sts) /\ UNCHANGED flips
       \/ WalkRaises(p, list, sts)
    /\ UNCHANGED <<now, events, lastId, looping, keys, firstOf, up>>

\* The loop's interval is over, or POST /admin/probe
StartPass(p) ==
    /\ pass[p] = Resting
    /\ p = Loop => looping
    /\ Go(p, keys, states)

\* _probe_candidate, after the await.  The ping tells what was the case at some
\* time since it was sent.
PingReturns(p) ==
    /\ pass[p] # Resting
    /\ \E ok \in {pass[p].sentUp, pass[p].key \in up} :
         Go(p, pass[p].rest,
            [states EXCEPT ![pass[p].key] = IF ok THEN Healthy(@) ELSE Failing(@)])

\* The exit code of the command health without --json; it reads GET /admin/health.
HealthExit == IF \E k \in Keys : states[k].status \in {"down", "degraded"} THEN 1 ELSE 0

-----------------------------------------------------------------------------
(* What happens meanwhile *)

\* stop() at the end of the lifespan: the loop is cancelled, in its ping or in its
\* sleep, and nothing is recorded of the ping.
Stop ==
    /\ looping
    /\ looping' = FALSE
    /\ pass' = [pass EXCEPT ![Loop] = Resting]
    /\ UNCHANGED <<now, events, lastId, keys, firstOf, up, flips, states>>

ProviderFlips(k) ==
    /\ flips < MaxFlips
    /\ flips' = flips + 1
    /\ up' = IF k \in up THEN up \ {k} ELSE up \cup {k}
    /\ UNCHANGED <<now, events, lastId, looping, keys, firstOf, states, pass>>

HealthReload ==
    /\ flips < MaxFlips
    /\ flips' = flips + 1
    /\ keys' \in KeyLists
    /\ firstOf' \in FirstModels
    /\ UNCHANGED <<now, events, lastId, looping, up, states, pass>>

\* The requests of the gateway use the quota up, and time gives it back.
OtherUse ==
    /\ \/ lastId < MaxRows /\ \E s \in Slots : RecordRequest(s)
       \/ Tick
    /\ UNCHANGED <<looping, keys, firstOf, up, flips, states, pass>>

HealthNext ==
    \/ \E p \in Passes : StartPass(p) \/ PingReturns(p)
    \/ \E k \in Keys : ProviderFlips(k)
    \/ Stop
    \/ HealthReload
    \/ OtherUse

HealthSpec == HealthInit /\ [][HealthNext]_healthVars

\* The interval ends, and every ping returns: litellm gives up after its timeout.
FairHealthSpec ==
    /\ HealthSpec
    /\ WF_healthVars(StartPass(Loop))
    /\ \A p \in Passes : WF_healthVars(PingReturns(p))

-----------------------------------------------------------------------------
(* Properties *)

\* What /admin/health shows is consistent however the passes and their late
\* results overlap: a healthy key has no failures against it, and a key is down
\* from the third failure in a row on, not before.
StatusSound == \A k \in Keys :
    LET n == states[k].consecutive_failures IN
    CASE states[k].status = "healthy"  -> n = 0
      [] states[k].status = "degraded" -> n \in 1..(DownAt - 1)
      [] states[k].status = "down"     -> n >= DownAt
      [] OTHER -> TRUE

\* The loop runs, and key k stays configured and keeps quota.
Probed(k) == looping /\ k \in {keys[i] : i \in DOMAIN keys} /\ Pings(k)

\* "respects QuotaTracker" (health.py:8) and still finds out: a probed key whose
\* provider answers for good is healthy in the end and for good, whatever the
\* other keys of the pass do and whichever old pings come back late.
KeyRecovers == \A k \in Keys :
    <>[](Probed(k) /\ k \in up) => <>[](states[k].status = "healthy")

\* ... and the outage of one whose provider never answers again is shown as "down",
\* and by the exit code of the command health, for good: no late success and no key
\* passed over hides it.
OutageShows == \A k \in Keys :
    <>[](Probed(k) /\ k \notin up) => <>[](states[k].status = "down" /\ HealthExit = 1)
=============================================================================
