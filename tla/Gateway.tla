------------------------------- MODULE Gateway -------------------------------
(***************************************************************************)
(* POST /v1/chat/completions (app/api/routes.py): the request handlers     *)
(* with their retry loops, the scheduler and the quota table they share,   *)
(* and the reload, the compaction and the crashes that happen beside them. *)
(*                                                                         *)
(* The handlers are coroutines of one event loop.  They give it up only    *)
(* where they await the provider (call_provider, call_provider_streaming,  *)
(* the chunks of a stream), so that one action runs a handler from one     *)
(* await to the next, with every call it makes in between.                 *)
(***************************************************************************)
EXTENDS Scheduler

CONSTANTS
    Reqs,         \* requests the hub serves at a time
    Models,       \* values of the request's `model` field
    RouteTables,  \* what the router makes of each configuration of the instance
    Modes,        \* the values of `stream` that clients use: a set of Booleans
    MAX_RETRIES,
    Second,       \* ticks in a second, for int() in Retry-After
    Faults        \* the faults that may occur: a subset of {"crash", "tracker"}

ASSUME GatewayAssumption ==
    /\ RouteTables \subseteq [Models -> Seq(Candidates)]
    /\ Modes \subseteq BOOLEAN
    /\ MAX_RETRIES \in Nat \ {0}
    /\ Second \in Nat \ {0}
    /\ IsFiniteSet(Reqs) /\ Reqs # {}

VARIABLES
    routes,  \* what _get_candidates answers for each model
    req,     \* the handler of each request: its locals and where it stands
    reply    \* the answer that the last step sent: to which request, for which model, its
             \* status and Retry-After header

gatewayVars == <<now, events, lastId, rr_index, cooldowns, routes, req, reply>>

Nobody == [pc |-> "idle"]

\* model and stream are fields of the request; cands, tries and cand are the handler's
\* candidates, loop counter and candidate; tokens is the generator's total_tokens.
Handler == [pc : {"calling", "streaming"}, model : Models, stream : Modes,
            cands : Seq(Candidates), tries : 1..MAX_RETRIES, cand : Candidates, tokens : Nat]

NoReply == [status |-> 0]

GatewayTypeOK ==
    /\ QuotaTypeOK
    /\ SchedTypeOK
    /\ routes \in RouteTables
    /\ req \in [Reqs -> Handler \cup {Nobody}]
    /\ reply.status \in {0, 200, 429, 500, 503}

GatewayInit ==
    /\ QuotaInit
    /\ SchedInit
    /\ routes \in RouteTables
    /\ req = [r \in Reqs |-> Nobody]
    /\ reply = NoReply

Calling(r)   == req[r].pc = "calling"
Streaming(r) == req[r].pc = "streaming"

-----------------------------------------------------------------------------
(* The retry loop, from where a call has failed, or none was made, to the  *)
(* next await.  q holds the handler's locals; cds and evs are the cooldown *)
(* table and the rows that the same step leaves.                           *)

Send(r, m, status, retry) ==
    reply' = [to |-> r, model |-> m, status |-> status, retry |-> retry]

SendNothing == reply' = NoReply

Answer(r, m, status, retry) ==
    /\ req' = [req EXCEPT ![r] = Nobody]
    /\ Send(r, m, status, retry)

\* The candidates looked up again for every attempt.
Mut_FreshRoutes(r, q, cds, evs) == \E i \in 1..Len(routes[q.model]) :
    /\ q.tries < MAX_RETRIES
    /\ Picks(routes[q.model], cds, evs, i)
    /\ AdvanceIndex(routes[q.model], i)
    /\ req' = [req EXCEPT ![r] = [q EXCEPT !.cands = routes[q.model], !.cand = routes[q.model][i],
                                           !.tries = @ + 1]]
    /\ SendNothing

\* The loop counter not advanced.
Mut_UncountedAttempt(r, q, cds, evs) == \E i \in 1..Len(q.cands) :
    /\ Picks(q.cands, cds, evs, i)
    /\ AdvanceIndex(q.cands, i)
    /\ req' = [req EXCEPT ![r] = [q EXCEPT !.cand = q.cands[i]]]
    /\ SendNothing

CallNext(r, q, cds, evs) == \E i \in 1..Len(q.cands) :
    /\ q.tries < MAX_RETRIES
    /\ Picks(q.cands, cds, evs, i)
    /\ AdvanceIndex(q.cands, i)
    /\ req' = [req EXCEPT ![r] = [q EXCEPT !.cand = q.cands[i], !.tries = @ + 1]]
    /\ SendNothing

\* `if next_time:`, then max(1, int(next_time - now)).  The streaming handler
\* sends no header.
RetryAfter(stream, cds) ==
    LET next == NextAvailableTime(cds) IN
    IF stream \/ next = NoLimit THEN NoLimit ELSE Max({1, (next - now) \div Second})

\* The candidate list of one attempt is given up after the first refusal.
Mut_GiveUpEarly(r, q, cds, evs) ==
    /\ \E i \in 1..Len(q.cands) : ~Available(cds, evs, q.cands[i])
    /\ UNCHANGED rr_index
    /\ Answer(r, q.model, 429, RetryAfter(q.stream, cds))

\* The loop ran out, or pick returned None.
GiveUp(r, q, cds, evs) ==
    /\ IF q.tries < MAX_RETRIES THEN PicksNothing(q.cands, cds, evs)
                                ELSE UNCHANGED rr_index
    /\ Answer(r, q.model, 429, RetryAfter(q.stream, cds))

\* check_quota raises inside pick, which no try covers: the client gets a 500.
PickRaises(r, q, cds) ==
    /\ "tracker" \in Faults
    /\ q.tries < MAX_RETRIES
    /\ \E i \in 1..Len(q.cands) : ~Cooling(cds, q.cands[i].slot, now)
    /\ UNCHANGED rr_index
    /\ Answer(r, q.model, 500, NoLimit)

Attempt(r, q, cds, evs) ==
    \/ CallNext(r, q, cds, evs)
    \/ GiveUp(r, q, cds, evs)
    \/ PickRaises(r, q, cds)
-----------------------------------------------------------------------------
(* chat_completions, up to the first await *)

NoCandidates(r, m) ==
    /\ routes[m] = <<>>
    /\ Answer(r, m, 503, NoLimit)
    /\ UNCHANGED <<now, events, lastId, rr_index, cooldowns, routes>>

Begin(r, m, stream) ==
    /\ routes[m] # <<>>
    /\ LET q == [pc |-> "calling", model |-> m, stream |-> stream, cands |-> routes[m],
                 tries |-> 0, cand |-> routes[m][1], tokens |-> 0]
       IN Attempt(r, q, cooldowns, events)
    /\ UNCHANGED <<now, events, lastId, cooldowns, routes>>

Arrive(r) ==
    /\ req[r].pc = "idle"
    /\ lastId < MaxRows
    /\ \E m \in Models : NoCandidates(r, m) \/ \E b \in Modes : Begin(r, m, b)

-----------------------------------------------------------------------------
(* What follows the await of a provider call *)

\* _handle_non_streaming: the answer's total_tokens is n.
CallSucceeds(r, n) ==
    /\ Calling(r) /\ ~req[r].stream
    /\ ReportSuccess(req[r].cand.slot, n)
    /\ Answer(r, req[r].model, 200, NoLimit)
    /\ UNCHANGED routes

\* _handle_streaming: the provider has accepted the request.  It is counted
\* with no tokens, and the client gets status 200 and the generator.
OpenStream(r) ==
    /\ Calling(r) /\ req[r].stream
    /\ ReportSuccess(req[r].cand.slot, 0)
    /\ req' = [req EXCEPT ![r].pc = "streaming"]
    /\ Send(r, req[r].model, 200, NoLimit)
    /\ UNCHANGED routes

\* The next candidate picked before the failure is reported.
Mut_PickBeforeReport(r) ==
    /\ Calling(r)
    /\ cooldowns' = AfterFailure(cooldowns, req[r].cand.slot)
    /\ Attempt(r, req[r], cooldowns, events)
    /\ UNCHANGED <<now, events, lastId, routes>>

\* The call raised, whatever the provider said: the except branch.
CallFails(r) ==
    /\ Calling(r)
    /\ cooldowns' = AfterFailure(cooldowns, req[r].cand.slot)
    /\ Attempt(r, req[r], cooldowns', events)
    /\ UNCHANGED <<now, events, lastId, routes>>

\* The provider answered, but an insert of report_success raised: the same
\* except branch takes it for a failure of the provider.  The cooldown was
\* already cleared; the request row is missing, or only the tokens row is.
RecordFails(r, n) ==
    /\ "tracker" \in Faults
    /\ Calling(r)
    /\ LET slot == req[r].cand.slot IN
       /\ cooldowns' = AfterFailure(AfterSuccess(cooldowns, slot), slot)
       /\ \/ UNCHANGED <<events, lastId>>
          \/ /\ n > 0 /\ ~req[r].stream
             /\ events' = events \cup {RequestRow(slot, lastId + 1)}
             /\ lastId' = lastId + 1
    /\ Attempt(r, req[r], cooldowns', events')
    /\ UNCHANGED <<now, routes>>

-----------------------------------------------------------------------------
(* event_generator *)

\* A chunk with usage.total_tokens = n
Chunk(r, n) ==
    /\ Streaming(r)
    /\ n > req[r].tokens
    /\ req' = [req EXCEPT ![r].tokens = n]
    /\ SendNothing
    /\ UNCHANGED <<now, events, lastId, rr_index, cooldowns, routes>>

\* The stream is exhausted: the tokens seen are recorded.
StreamEnds(r) ==
    /\ Streaming(r)
    /\ IF req[r].tokens > 0 THEN RecordTokens(req[r].cand.slot, req[r].tokens)
                            ELSE UNCHANGED <<now, events, lastId>>
    /\ req' = [req EXCEPT ![r] = Nobody]
    /\ SendNothing
    /\ UNCHANGED <<rr_index, cooldowns, routes>>

\* The provider's stream raises, or the client has gone and the generator is
\* closed, or the insert of the tokens raises: nothing is recorded.
StreamBreaks(r) ==
    /\ Streaming(r)
    /\ req' = [req EXCEPT ![r] = Nobody]
    /\ SendNothing
    /\ UNCHANGED <<now, events, lastId, rr_index, cooldowns, routes>>

-----------------------------------------------------------------------------
(* Beside the handlers *)

\* The hot reloader or /admin/reload swaps the configuration.
Reload ==
    /\ routes' \in RouteTables \ {routes}
    /\ SendNothing
    /\ UNCHANGED <<now, events, lastId, rr_index, cooldowns, req>>

\* POST /admin/compact
AdminCompact ==
    /\ Compact
    /\ SendNothing
    /\ UNCHANGED <<rr_index, cooldowns, routes, req>>

GatewayTick ==
    /\ Tick
    /\ SendNothing
    /\ UNCHANGED <<rr_index, cooldowns, routes, req>>

\* The process dies and starts again: only the table survives.  Every client
\* loses its connection.
Crash ==
    /\ "crash" \in Faults
    /\ rr_index' = 0
    /\ cooldowns' = FreshCooldowns
    /\ req' = [r \in Reqs |-> Nobody]
    /\ SendNothing
    /\ routes' \in RouteTables
    /\ UNCHANGED <<now, events, lastId>>

CallReturns(r) ==
    \/ \E n \in TokenCounts : CallSucceeds(r, n) \/ RecordFails(r, n)
    \/ OpenStream(r)
    \/ CallFails(r)

\* A stream left open as long as it has brought no usage.
Mut_WaitForUsage(r) == Streaming(r) /\ req[r].tokens > 0 /\ StreamEnds(r)

StreamCloses(r) == StreamEnds(r) \/ StreamBreaks(r)

GatewayNext ==
    \/ \E r \in Reqs : Arrive(r) \/ CallReturns(r) \/ StreamCloses(r)
    \/ \E r \in Reqs, n \in TokenCounts : Chunk(r, n)
    \/ Reload
    \/ AdminCompact
    \/ GatewayTick
    \/ Crash

GatewaySpec == GatewayInit /\ [][GatewayNext]_gatewayVars

\* A provider call ends (litellm gives up after its timeout), a stream ends or
\* breaks, and the event loop then runs the handler.  Nothing makes a client
\* send, a call succeed, time pass or anybody reload.
FairGatewaySpec ==
    /\ GatewaySpec
    /\ \A r \in Reqs : WF_gatewayVars(CallReturns(r)) /\ WF_gatewayVars(StreamCloses(r))
-----------------------------------------------------------------------------
(* Properties *)

\* The provider calls on a slot that are not recorded yet
CallsOn(s) == {r \in Reqs : Calling(r) /\ req[r].cand.slot = s}

InFlight(s) == Cardinality(CallsOn(s))

\* pick() checks a quota that is charged only after the await: concurrent
\* handlers see the same count.  What they overshoot by is bounded all the same:
\* the recorded requests of a window and the calls under way stay below the
\* limit plus the number of requests served at a time.  Crashes, reloads,
\* compaction and failing inserts do not change that.
OvershootBound ==
    \A c \in Candidates : Loosest(c) =>
        RequestsUsed(events, now, c.slot, RequestWindow(c)) + InFlight(c.slot)
            < RequestLimit(c) + Cardinality(Reqs)

\* The counter and the deadline of a cooldown stay consistent although reports
\* of concurrent calls reach it in any order: no failures, no deadline; and
\* after n failures the deadline is at most the n-th backoff step away, the last
\* step being the cap ("cap 5m", TECH_DESIGN.md:107).
EntrySound(cd) ==
    IF cd.consecutive_failures = 0 THEN cd.until = 0
    ELSE IF cd.consecutive_failures <= Len(BACKOFF_STEPS)
         THEN cd.until <= now + BACKOFF_STEPS[cd.consecutive_failures]
         ELSE cd.until <= now + BACKOFF_STEPS[Len(BACKOFF_STEPS)]

CooldownSound == \A s \in Slots : EntrySound(cooldowns[s])

StartsCall(r) == Calling(r)' /\ req'[r] # req[r]

\* No handler starts a call on a slot that is in cooldown once its step is done,
\* the failure it has just reported itself included: the calls on a cooling slot
\* only drain.
CoolingDrains ==
    [][ \A r \in Reqs :
          StartsCall(r) => ~Cooling(cooldowns', req'[r].cand.slot, now') ]_gatewayVars

\* A call is charged to the slot it was made on and at most once, even when the
\* step that charges it fails half-way: recorded and running requests of a slot
\* grow together only by a new call.
CallChargedOnce ==
    [][ \A s \in Slots :
          \/ RequestsUsed(events', now', s, DAY) + InFlight(s)'
                 <= RequestsUsed(events, now, s, DAY) + InFlight(s)
          \/ \E r \in Reqs : StartsCall(r) /\ req'[r].cand.slot = s ]_gatewayVars

\* The list that the request answered in this step was tried with: the one it was
\* accepted with, or, if it arrives in this step, the one its model is routed to.
ListOf(r) == IF Calling(r) THEN req[r].cands ELSE routes[reply'.model]

\* A request is turned away with 429 only after MAX_RETRIES calls, or when no
\* candidate of its list can be called at that moment: the shared index, the
\* reports of other handlers and reloads never make pick overlook a free one.
NoFalseExhaustion ==
    [][ reply'.status = 429 => \E r \in Reqs :
          /\ reply'.to = r
          /\ \/ Calling(r) /\ req[r].tries = MAX_RETRIES
             \/ \A c \in Range(ListOf(r)) : ~Available(cooldowns', events', c) ]_gatewayVars

\* "All candidates exhausted: 429 to client with Retry-After = soonest reset"
\* (TECH_DESIGN.md:182): some candidate of the request can be called again after
\* the announced time if nothing happens until then.
RetryAfterIsReset ==
    [][ \A r \in Reqs :
          Calling(r) /\ reply'.status = 429 /\ reply'.to = r /\ reply'.retry # NoLimit
          => \E c \in Range(req[r].cands) :
                AvailableAt(cooldowns', events', now' + reply'.retry * Second, c) ]_gatewayVars

\* A provider that answers, and a stream that ends, answer the request; so do
\* MAX_RETRIES failures: no request stays in the retry loop for ever.
EveryRequestAnswered == \A r \in Reqs : req[r].pc # "idle" ~> req[r].pc = "idle"

\* The request of RequestLife that a handler's locals stand for
LifeOf(q) ==
    IF q.pc = "idle" THEN [phase |-> "gone"]
    ELSE [phase |-> q.pc, list |-> q.cands, calls |-> q.tries, callee |-> q.cand]

RouteLists == {table[m] : table \in RouteTables, m \in Models}

Life == INSTANCE RequestLife WITH
    Lists <- RouteLists,
    MaxCalls <- MAX_RETRIES,
    life <- [r \in Reqs |-> LifeOf(req[r])]

\* The handlers implement RequestLife, its fairness included: the list is kept
\* over reloads (TECH_DESIGN.md:186), a retry goes to another slot, MAX_RETRIES
\* bounds the calls, and every request leaves.
ImplementsLife == Life!LifeSpec
=============================================================================
