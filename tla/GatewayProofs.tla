---------------------------- MODULE GatewayProofs ----------------------------
(***************************************************************************)
(* Theorems about Gateway: types, cooldowns, OvershootBound,               *)
(* CallChargedOnce, CoolingDrains, NoFalseExhaustion, and the safety part  *)
(* of the refinement of RequestLife.                                       *)
(***************************************************************************)
EXTENDS Gateway, SchedulerProofs, QuotaProofs

\* The locals of a handler between two calls: no call may have been made yet.
Locals == [pc : {"calling", "streaming"}, model : Models, stream : Modes, cands : Seq(Candidates),
           tries : 0..MAX_RETRIES, cand : Candidates, tokens : Nat]

\* The handler, with locals q, calls c next.
Turns(r, q, cds, evs, c) ==
    /\ c \in Range(q.cands)
    /\ q.tries < MAX_RETRIES
    /\ Available(cds, evs, c)
    /\ req' = [req EXCEPT ![r] = [q EXCEPT !.cand = c, !.tries = @ + 1]]

\* The two ways out of the retry loop: an answer, or a call to a candidate of the
\* list that pick found available.
LEMMA AttemptEffect ==
  ASSUME NEW r \in Reqs, NEW q \in Locals, NEW cds, NEW evs,
         rr_index \in Nat, Attempt(r, q, cds, evs)
  PROVE  /\ rr_index' \in Nat
         /\ reply'.status \in {0, 200, 429, 500, 503}
         /\ \/ req' = [req EXCEPT ![r] = Nobody]
            \/ \E c \in Candidates : Turns(r, q, cds, evs, c)
<1>1. CASE CallNext(r, q, cds, evs)
  <2>1. PICK i \in 1..Len(q.cands) :
           /\ q.tries < MAX_RETRIES
           /\ Picks(q.cands, cds, evs, i)
           /\ AdvanceIndex(q.cands, i)
           /\ req' = [req EXCEPT ![r] = [q EXCEPT !.cand = q.cands[i], !.tries = @ + 1]]
           /\ SendNothing
    BY <1>1 DEF CallNext
  <2>2. q.cands \in Seq(Candidates) /\ Len(q.cands) \in Nat /\ i \in Nat /\ Len(q.cands) > 0
    BY <2>1 DEF Locals
  <2>3. q.cands[i] \in Candidates /\ q.cands[i] \in Range(q.cands)
    BY <2>1, <2>2, ElementOfSeq DEF Range
  <2>4. Available(cds, evs, q.cands[i])
    BY <2>1 DEF Picks
  <2>5. rr_index' \in Nat
    BY <2>1, <2>2 DEF AdvanceIndex
  <2>6. reply'.status = 0
    BY <2>1 DEF SendNothing, NoReply
  <2>7. Turns(r, q, cds, evs, q.cands[i])
    BY <2>1, <2>3, <2>4 DEF Turns
  <2> QED
    BY <2>3, <2>5, <2>6, <2>7
<1>2. CASE GiveUp(r, q, cds, evs)
  BY <1>2 DEF GiveUp, PicksNothing, Answer, Send
<1>3. CASE PickRaises(r, q, cds)
  BY <1>3 DEF PickRaises, Answer, Send
<1> QED
  BY <1>1, <1>2, <1>3 DEF Attempt

\* A call handed to the provider is one of Handler's.
LEMMA NextCallType ==
  ASSUME NEW q \in Locals, NEW c \in Candidates, q.tries < MAX_RETRIES, q.pc = "calling"
  PROVE  /\ [q EXCEPT !.cand = c, !.tries = @ + 1] \in Handler
         /\ [q EXCEPT !.cand = c, !.tries = @ + 1].pc = "calling"
<1>1. q.tries \in 0..MAX_RETRIES /\ MAX_RETRIES \in Nat
  BY GatewayAssumption DEF GatewayAssumption, Locals
<1>2. q.tries + 1 \in 1..MAX_RETRIES
  BY <1>1
<1> DEFINE t == q.tries + 1
<1> HIDE DEF t
<1>3. [q EXCEPT !.cand = c, !.tries = t]
        \in [pc : {"calling", "streaming"}, model : Models, stream : Modes, cands : Seq(Candidates),
            tries : 1..MAX_RETRIES, cand : Candidates, tokens : Nat]
  BY <1>2 DEF Locals, t
<1>4. /\ [q EXCEPT !.cand = c, !.tries = t] \in Handler
      /\ [q EXCEPT !.cand = c, !.tries = t].pc = "calling"
  BY <1>3 DEF Handler, Locals
<1> QED
  BY <1>4 DEF t

\* A handler's step through the retry loop keeps the types of what it writes.
LEMMA AttemptType ==
  ASSUME NEW r \in Reqs, NEW q \in Locals, q.pc = "calling", NEW cds, NEW evs,
         GatewayTypeOK, Attempt(r, q, cds, evs)
  PROVE  /\ rr_index' \in Nat
         /\ reply'.status \in {0, 200, 429, 500, 503}
         /\ req' \in [Reqs -> Handler \cup {Nobody}]
<1>1. rr_index \in Nat /\ req \in [Reqs -> Handler \cup {Nobody}]
  BY DEF GatewayTypeOK, SchedTypeOK
<1>a. /\ rr_index' \in Nat
      /\ reply'.status \in {0, 200, 429, 500, 503}
      /\ \/ req' = [req EXCEPT ![r] = Nobody]
         \/ \E c \in Candidates : Turns(r, q, cds, evs, c)
  BY <1>1, AttemptEffect
<1>2. CASE req' = [req EXCEPT ![r] = Nobody]
  BY <1>1, <1>a, <1>2
<1>3. ASSUME NEW c \in Candidates, Turns(r, q, cds, evs, c)
      PROVE  req' \in [Reqs -> Handler \cup {Nobody}]
  <2> DEFINE h == [q EXCEPT !.cand = c, !.tries = @ + 1]
  <2>1. h \in Handler
    BY <1>3, NextCallType DEF Turns
  <2>2. req' = [req EXCEPT ![r] = h]
    BY <1>3 DEF Turns
  <2> HIDE DEF h
  <2> QED
    BY <1>1, <2>1, <2>2
<1> QED
  BY <1>a, <1>2, <1>3

\* What a handler that is calling has for locals
LEMMA CallingLocals ==
  ASSUME GatewayTypeOK, NEW r \in Reqs, Calling(r)
  PROVE  /\ req[r] \in Handler /\ req[r] \in Locals /\ req[r].pc = "calling"
         /\ req[r].cand \in Candidates /\ req[r].cand.slot \in Slots
BY QuotaAssumption, GatewayAssumption
   DEF GatewayTypeOK, Calling, Nobody, Handler, Locals, Candidate, QuotaAssumption,
       GatewayAssumption

LEMMA StreamingLocals ==
  ASSUME GatewayTypeOK, NEW r \in Reqs, Streaming(r)
  PROVE  /\ req[r] \in Handler /\ req[r].pc = "streaming"
         /\ req[r].cand \in Candidates /\ req[r].cand.slot \in Slots
         /\ req[r].tokens \in Nat
BY QuotaAssumption DEF GatewayTypeOK, Streaming, Nobody, Handler, Candidate, QuotaAssumption

\* The first candidates of a request, if there are any
LEMMA FirstLocals ==
  ASSUME GatewayTypeOK, NEW m \in Models, NEW stream \in Modes, routes[m] # <<>>
  PROVE  [pc |-> "calling", model |-> m, stream |-> stream, cands |-> routes[m],
          tries |-> 0, cand |-> routes[m][1], tokens |-> 0] \in Locals
<1>1. routes[m] \in Seq(Candidates) /\ MAX_RETRIES \in Nat
  BY GatewayAssumption DEF GatewayTypeOK, GatewayAssumption
<1>2. Len(routes[m]) \in Nat /\ Len(routes[m]) # 0
  BY <1>1, EmptySeq
<1>3. routes[m][1] \in Candidates
  BY <1>1, <1>2, ElementOfSeq
<1> QED
  BY <1>1, <1>3 DEF Locals

\* The type invariant is inductive.
LEMMA GatewayTypeStep == GatewayTypeOK /\ [GatewayNext]_gatewayVars => GatewayTypeOK'
<1> SUFFICES ASSUME GatewayTypeOK, [GatewayNext]_gatewayVars PROVE GatewayTypeOK'
  OBVIOUS
<1>0. /\ now \in Nat /\ lastId \in Nat /\ events \subseteq Row
      /\ rr_index \in Nat /\ cooldowns \in [Slots -> CooldownEntry]
      /\ req \in [Reqs -> Handler \cup {Nobody}]
      /\ routes \in RouteTables
      /\ reply.status \in {0, 200, 429, 500, 503}
      /\ QuotaTypeOK /\ TokenCounts \subseteq Nat
  BY QuotaAssumption DEF GatewayTypeOK, QuotaTypeOK, SchedTypeOK, QuotaAssumption
<1> USE DEF QuotaTypeOK, SchedTypeOK
<1>1. ASSUME NEW r \in Reqs, Arrive(r) PROVE GatewayTypeOK'
  <2>1. ASSUME NEW m \in Models, NoCandidates(r, m) PROVE GatewayTypeOK'
    BY <1>0, <2>1 DEF NoCandidates, Answer, Send, GatewayTypeOK
  <2>2. ASSUME NEW m \in Models, NEW b \in Modes, Begin(r, m, b) PROVE GatewayTypeOK'
    <3> DEFINE q == [pc |-> "calling", model |-> m, stream |-> b, cands |-> routes[m],
                     tries |-> 0, cand |-> routes[m][1], tokens |-> 0]
    <3>1. q \in Locals /\ q.pc = "calling"
      BY <2>2, FirstLocals DEF Begin
    <3>2. Attempt(r, q, cooldowns, events)
      BY <2>2 DEF Begin
    <3> HIDE DEF q
    <3>3. /\ rr_index' \in Nat
          /\ reply'.status \in {0, 200, 429, 500, 503}
          /\ req' \in [Reqs -> Handler \cup {Nobody}]
      BY <3>1, <3>2, AttemptType
    <3> QED
      BY <1>0, <2>2, <3>3 DEF Begin, GatewayTypeOK
  <2> QED
    BY <1>1, <2>1, <2>2 DEF Arrive
<1>2. ASSUME NEW r \in Reqs, NEW n \in TokenCounts, CallSucceeds(r, n) PROVE GatewayTypeOK'
  <2>1. req[r].cand.slot \in Slots /\ n \in Nat
    BY <1>0, <1>2, CallingLocals DEF CallSucceeds
  <2>2. ReportSuccess(req[r].cand.slot, n)
    BY <1>2 DEF CallSucceeds
  <2>3. events' \subseteq Row /\ lastId' \in Nat /\ cooldowns' \in [Slots -> CooldownEntry]
    BY <1>0, <2>1, <2>2, ReportSuccessType
  <2> QED
    BY <1>0, <1>2, <2>2, <2>3 DEF CallSucceeds, ReportSuccess, RecordUsage, Answer, Send, GatewayTypeOK
<1>3. ASSUME NEW r \in Reqs, OpenStream(r) PROVE GatewayTypeOK'
  <2>1. req[r].cand.slot \in Slots /\ req[r] \in Handler
    BY <1>0, <1>3, CallingLocals DEF OpenStream
  <2>2. ReportSuccess(req[r].cand.slot, 0)
    BY <1>3 DEF OpenStream
  <2>3. events' \subseteq Row /\ lastId' \in Nat /\ cooldowns' \in [Slots -> CooldownEntry]
    BY <1>0, <2>1, <2>2, ReportSuccessType
  <2>4. [req[r] EXCEPT !.pc = "streaming"] \in Handler
    BY <2>1 DEF Handler
  <2>5. req' \in [Reqs -> Handler \cup {Nobody}]
    BY <1>0, <1>3, <2>4 DEF OpenStream
  <2> QED
    BY <1>0, <1>3, <2>2, <2>3, <2>5 DEF OpenStream, ReportSuccess, RecordUsage, Send, GatewayTypeOK
<1>4. ASSUME NEW r \in Reqs, CallFails(r) PROVE GatewayTypeOK'
  <2>1. /\ req[r].cand.slot \in Slots /\ req[r] \in Locals /\ req[r].pc = "calling"
        /\ Attempt(r, req[r], cooldowns', events)
    BY <1>4, CallingLocals DEF CallFails
  <2>2. /\ rr_index' \in Nat
        /\ reply'.status \in {0, 200, 429, 500, 503}
        /\ req' \in [Reqs -> Handler \cup {Nobody}]
    BY <2>1, AttemptType
  <2>3. cooldowns' \in [Slots -> CooldownEntry]
    BY <1>0, <1>4, <2>1, AfterFailureType DEF CallFails
  <2> QED
    BY <1>0, <1>4, <2>2, <2>3 DEF CallFails, GatewayTypeOK
<1>5. ASSUME NEW r \in Reqs, NEW n \in TokenCounts, RecordFails(r, n) PROVE GatewayTypeOK'
  <2> DEFINE slot == req[r].cand.slot
  <2>1. /\ slot \in Slots /\ req[r] \in Locals /\ req[r].pc = "calling"
        /\ Attempt(r, req[r], cooldowns', events')
        /\ cooldowns' = AfterFailure(AfterSuccess(cooldowns, slot), slot)
    BY <1>5, CallingLocals DEF RecordFails
  <2>2. /\ rr_index' \in Nat
        /\ reply'.status \in {0, 200, 429, 500, 503}
        /\ req' \in [Reqs -> Handler \cup {Nobody}]
    BY <2>1, AttemptType
  <2>3. cooldowns' \in [Slots -> CooldownEntry]
    BY <1>0, <2>1, AfterFailureType, AfterSuccessType
  <2>4. events' \subseteq Row /\ lastId' \in Nat
    BY <1>0, <1>5, <2>1 DEF RecordFails, RequestRow, Row
  <2> QED
    BY <1>0, <1>5, <2>2, <2>3, <2>4 DEF RecordFails, GatewayTypeOK
<1>6. ASSUME NEW r \in Reqs, NEW n \in TokenCounts, Chunk(r, n) PROVE GatewayTypeOK'
  <2>1. req[r] \in Handler /\ n \in Nat
    BY <1>0, <1>6, StreamingLocals DEF Chunk
  <2>2. [req[r] EXCEPT !.tokens = n] \in Handler
    BY <2>1 DEF Handler
  <2>3. req' \in [Reqs -> Handler \cup {Nobody}]
    BY <1>0, <1>6, <2>2 DEF Chunk
  <2> QED
    BY <1>0, <1>6, <2>3 DEF Chunk, SendNothing, NoReply, GatewayTypeOK
<1>7. ASSUME NEW r \in Reqs, StreamEnds(r) PROVE GatewayTypeOK'
  <2>1. req[r].cand.slot \in Slots /\ req[r].tokens \in Nat
    BY <1>7, StreamingLocals DEF StreamEnds
  <2>2. events' \subseteq Row /\ lastId' \in Nat /\ now' = now
    BY <1>0, <1>7, <2>1 DEF StreamEnds, RecordTokens, TokensRow, Row
  <2> QED
    BY <1>0, <1>7, <2>2 DEF StreamEnds, SendNothing, NoReply, GatewayTypeOK
<1>8. ASSUME NEW r \in Reqs, StreamBreaks(r) PROVE GatewayTypeOK'
  BY <1>0, <1>8 DEF StreamBreaks, SendNothing, NoReply, GatewayTypeOK
<1>9. CASE Reload
  BY <1>0, <1>9 DEF Reload, SendNothing, NoReply, GatewayTypeOK
<1>10. CASE AdminCompact
  BY <1>0, <1>10 DEF AdminCompact, Compact, SendNothing, NoReply, GatewayTypeOK
<1>11. CASE GatewayTick
  BY <1>0, <1>11 DEF GatewayTick, Tick, SendNothing, NoReply, GatewayTypeOK
<1>12. CASE Crash
  BY <1>0, <1>12 DEF Crash, FreshCooldowns, FreshEntry, CooldownEntry, SendNothing, NoReply, GatewayTypeOK
<1>13. CASE UNCHANGED gatewayVars
  BY <1>0, <1>13 DEF gatewayVars, GatewayTypeOK
<1> QED
  BY <1>1, <1>2, <1>3, <1>4, <1>5, <1>6, <1>7, <1>8, <1>9, <1>10, <1>11, <1>12, <1>13
     DEF GatewayNext, CallReturns, StreamCloses

\* Every reachable state of the hub is type-correct.
THEOREM GatewayTypeCorrect == GatewaySpec => []GatewayTypeOK
<1>1. GatewayInit => GatewayTypeOK
  BY DEF GatewayInit, GatewayTypeOK, QuotaInit, QuotaTypeOK, SchedInit, SchedTypeOK,
         FreshCooldowns, FreshEntry, CooldownEntry, NoReply
<1> QED
  BY <1>1, GatewayTypeStep, PTL DEF GatewaySpec

\* A failure leaves a consistent entry behind, whatever the entry was before.
LEMMA FailureSound ==
  ASSUME NEW cd \in CooldownEntry, now \in Nat
  PROVE  EntrySound(RecordFailure(cd))
<1> DEFINE n   == cd.consecutive_failures
           idx == IF n < Len(BACKOFF_STEPS) THEN n + 1 ELSE Len(BACKOFF_STEPS)
<1>1. n \in Nat /\ Len(BACKOFF_STEPS) \in Nat \ {0}
  BY SchedulerAssumption DEF CooldownEntry, SchedulerAssumption
<1>2. idx \in 1..Len(BACKOFF_STEPS)
  BY <1>1
<1>3. BACKOFF_STEPS[idx] \in Nat
  BY <1>2, SchedulerAssumption, ElementOfSeq DEF SchedulerAssumption
<1>4. RecordFailure(cd) = [until |-> now + BACKOFF_STEPS[idx], consecutive_failures |-> n + 1]
  BY DEF RecordFailure
<1>5. CASE n < Len(BACKOFF_STEPS)
  BY <1>1, <1>3, <1>4, <1>5 DEF EntrySound
<1>6. CASE ~(n < Len(BACKOFF_STEPS))
  BY <1>1, <1>3, <1>4, <1>6 DEF EntrySound
<1> QED
  BY <1>5, <1>6

\* The passing of time keeps an entry consistent.
LEMMA SoundLater ==
  ASSUME NEW cd \in CooldownEntry, EntrySound(cd), now \in Nat, now' \in Nat, now <= now'
  PROVE  EntrySound(cd)'
<1> DEFINE n == cd.consecutive_failures
           top == Len(BACKOFF_STEPS)
<1>1. n \in Nat /\ cd.until \in Nat /\ top \in Nat \ {0}
  BY SchedulerAssumption DEF CooldownEntry, SchedulerAssumption
<1>2. \A i \in 1..top : BACKOFF_STEPS[i] \in Nat
  BY SchedulerAssumption, ElementOfSeq DEF SchedulerAssumption
<1>3. CASE n = 0
  BY <1>3 DEF EntrySound
<1>4. CASE n # 0 /\ n <= top
  BY <1>1, <1>2, <1>4 DEF EntrySound
<1>5. CASE n # 0 /\ ~(n <= top)
  BY <1>1, <1>2, <1>5 DEF EntrySound
<1> QED
  BY <1>3, <1>4, <1>5

\* Reports of concurrent calls in any order, crashes and ticks keep the cooldown
\* table consistent; a cooldown never exceeds the last backoff step.
THEOREM CooldownsAreSound == GatewaySpec => []CooldownSound
<1>1. GatewayInit => CooldownSound
  BY DEF GatewayInit, SchedInit, CooldownSound, FreshCooldowns, FreshEntry, EntrySound
<1>2. GatewayTypeOK /\ GatewayTypeOK' /\ CooldownSound /\ [GatewayNext]_gatewayVars => CooldownSound'
  <2> SUFFICES ASSUME GatewayTypeOK, GatewayTypeOK', CooldownSound, [GatewayNext]_gatewayVars,
                      NEW s \in Slots
               PROVE  EntrySound(cooldowns[s])'
    BY DEF CooldownSound
  <2>0. /\ now \in Nat /\ now' \in Nat /\ cooldowns \in [Slots -> CooldownEntry]
        /\ EntrySound(cooldowns[s])
    BY DEF GatewayTypeOK, QuotaTypeOK, SchedTypeOK, CooldownSound
  <2>1. CASE cooldowns'[s] = cooldowns[s] /\ now <= now'
    <3>1. cooldowns[s] \in CooldownEntry /\ EntrySound(cooldowns[s])
      BY <2>0
    <3> QED
      BY <2>0, <2>1, SoundLater DEF EntrySound
  <2>2. ASSUME cooldowns'[s] = FreshEntry PROVE EntrySound(cooldowns[s])'
    BY <2>2 DEF EntrySound, FreshEntry
  <2>3. ASSUME NEW cd \in CooldownEntry, cooldowns'[s] = RecordFailure(cd), now' = now
        PROVE  EntrySound(cooldowns[s])'
    BY <2>0, <2>3, FailureSound DEF EntrySound
  <2>4. ASSUME NEW r \in Reqs, Arrive(r) PROVE cooldowns' = cooldowns /\ now' = now
    BY <2>4 DEF Arrive, NoCandidates, Begin
  <2>5. ASSUME NEW slot, NEW n, ReportSuccess(slot, n)
        PROVE  /\ cooldowns'[s] \in {cooldowns[s], FreshEntry}
               /\ now' = now
    BY <2>0, <2>5 DEF ReportSuccess, RecordUsage, AfterSuccess
  <2>6. ASSUME NEW r \in Reqs, CallFails(r)
        PROVE  /\ cooldowns'[s] \in {cooldowns[s], RecordFailure(cooldowns[s])}
               /\ now' = now
    BY <2>0, <2>6 DEF CallFails, AfterFailure
  <2>7. ASSUME NEW r \in Reqs, NEW n \in TokenCounts, RecordFails(r, n)
        PROVE  /\ cooldowns'[s] \in {cooldowns[s], RecordFailure(FreshEntry)}
               /\ now' = now
    BY <2>0, <2>7 DEF RecordFails, AfterFailure, AfterSuccess
  <2>8. FreshEntry \in CooldownEntry /\ cooldowns[s] \in CooldownEntry
    BY <2>0 DEF FreshEntry, CooldownEntry
  <2>9. ASSUME NEW r \in Reqs, CallReturns(r) PROVE EntrySound(cooldowns[s])'
    BY <2>0, <2>1, <2>2, <2>3, <2>5, <2>6, <2>7, <2>8, <2>9
       DEF CallReturns, CallSucceeds, OpenStream
  <2>10. ASSUME NEW r \in Reqs, StreamCloses(r) PROVE cooldowns' = cooldowns /\ now' = now
    BY <2>10 DEF StreamCloses, StreamEnds, StreamBreaks, RecordTokens
  <2>11. (\E r \in Reqs, n \in TokenCounts : Chunk(r, n)) \/ Reload \/ AdminCompact \/ GatewayTick
           => cooldowns' = cooldowns /\ now <= now'
    BY <2>0 DEF Chunk, Reload, AdminCompact, Compact, GatewayTick, Tick
  <2>12. Crash => cooldowns'[s] = FreshEntry
    BY DEF Crash, FreshCooldowns
  <2>13. UNCHANGED gatewayVars => cooldowns' = cooldowns /\ now <= now'
    BY <2>0 DEF gatewayVars
  <2> QED
    BY <2>0, <2>1, <2>2, <2>4, <2>9, <2>10, <2>11, <2>12, <2>13 DEF GatewayNext
<1> QED
  BY <1>1, <1>2, GatewayTypeCorrect, PTL DEF GatewaySpec

-----------------------------------------------------------------------------
(* How the calls under way and the recorded requests of a slot move        *)
(* together                                                                *)


\* The request rows of slot s in window w, at the present time
Charged(s, w) == RowsOf(events, now, s, w, "request")

\* What the slot has been and is being asked for
Load(s, w) == Cardinality(Charged(s, w)) + InFlight(s)

\* The counts below are of finite sets.
FiniteTable == IsFiniteSet(events)

\* A call has started on slot s in a step that has found its candidate available.
Started(s) == \E r \in Reqs :
    /\ StartsCall(r)
    /\ req'[r].cand \in Candidates
    /\ req'[r].cand.slot = s
    /\ Available(cooldowns', events', req'[r].cand)
    /\ now' = now

\* The step inserts no request row other than `row`, and that only for the call of
\* r.
ChargesOnly(r, row) ==
    \A e \in events' \ events : e.event_type = "request"
        => e = row /\ Calling(r) /\ e.slot = req[r].cand.slot

\* The handler of r goes on with h.
GoesOn(r, h) == now' = now /\ req' = [req EXCEPT ![r] = h]

-----------------------------------------------------------------------------

\* Counts of finite sets are numbers, and grow with the sets.
LEMMA LoadType ==
  ASSUME FiniteTable, NEW s, NEW w
  PROVE  /\ IsFiniteSet(Charged(s, w)) /\ Cardinality(Charged(s, w)) \in Nat
         /\ IsFiniteSet(CallsOn(s)) /\ InFlight(s) \in Nat
         /\ InFlight(s) <= Cardinality(Reqs) /\ Cardinality(Reqs) \in Nat
<1>1. Charged(s, w) \in SUBSET events
  BY DEF Charged, RowsOf, InWindow
<1>2. IsFiniteSet(Reqs) /\ CallsOn(s) \in SUBSET Reqs
  BY GatewayAssumption DEF GatewayAssumption, CallsOn
<1>3. IsFiniteSet(Charged(s, w)) /\ IsFiniteSet(CallsOn(s))
  BY <1>1, <1>2, FS_Subset DEF FiniteTable
<1>4. Cardinality(CallsOn(s)) <= Cardinality(Reqs)
  BY <1>2, FS_Subset
<1> QED
  BY <1>2, <1>3, <1>4, FS_CardinalityType DEF InFlight

\* A step that neither starts a call nor inserts a request row for slot s does
\* not increase the load of s.
LEMMA QuietStep ==
  ASSUME FiniteTable, NEW s, NEW w,
         Charged(s, w)' \subseteq Charged(s, w), CallsOn(s)' \subseteq CallsOn(s)
  PROVE  Load(s, w)' <= Load(s, w)
<1> DEFINE C == Charged(s, w)
           K == CallsOn(s)
<1>1. /\ IsFiniteSet(C) /\ Cardinality(C) \in Nat
      /\ IsFiniteSet(K) /\ Cardinality(K) \in Nat
  BY LoadType, FS_CardinalityType
<1>2. /\ IsFiniteSet(C') /\ Cardinality(C') <= Cardinality(C)
      /\ IsFiniteSet(K') /\ Cardinality(K') <= Cardinality(K)
  BY <1>1, FS_Subset
<1>3. Cardinality(C') \in Nat /\ Cardinality(K') \in Nat
  BY <1>2, FS_CardinalityType
<1>4. Cardinality(C') + Cardinality(K') <= Cardinality(C) + Cardinality(K)
  <2> HIDE DEF C, K
  <2> QED BY <1>1, <1>2, <1>3
<1> QED
  BY <1>4 DEF Load, InFlight

\* A call that ends may leave one request row behind.
LEMMA ChargingStep ==
  ASSUME FiniteTable, NEW s, NEW w,
         NEW r \in CallsOn(s), NEW row,
         Charged(s, w)' \subseteq Charged(s, w) \cup {row},
         CallsOn(s)' \subseteq CallsOn(s) \ {r}
  PROVE  Load(s, w)' <= Load(s, w)
<1> DEFINE C == Charged(s, w)
           K == CallsOn(s)
<1>0. /\ IsFiniteSet(C) /\ Cardinality(C) \in Nat
      /\ IsFiniteSet(K) /\ Cardinality(K) \in Nat
  BY LoadType, FS_CardinalityType
<1>1. IsFiniteSet(C \cup {row}) /\ Cardinality(C \cup {row}) <= Cardinality(C) + 1
  <2> HIDE DEF C
  <2>1. Cardinality(C \cup {row}) \in {Cardinality(C), Cardinality(C) + 1}
    BY <1>0, FS_AddElement
  <2> QED BY <1>0, <2>1, FS_AddElement
<1>2. IsFiniteSet(K \ {r}) /\ Cardinality(K \ {r}) = Cardinality(K) - 1
  BY <1>0, FS_RemoveElement
<1>3. Cardinality(C') <= Cardinality(C \cup {row}) /\ IsFiniteSet(C')
  BY <1>1, FS_Subset
<1>4. Cardinality(K') <= Cardinality(K \ {r}) /\ IsFiniteSet(K')
  BY <1>2, FS_Subset
<1>5. Cardinality(C') \in Nat /\ Cardinality(K') \in Nat
  BY <1>3, <1>4, FS_CardinalityType
<1>6. Cardinality(C') + Cardinality(K') <= Cardinality(C) + Cardinality(K)
  <2> HIDE DEF C, K
  <2>1. Cardinality(C \cup {row}) \in Nat /\ Cardinality(K \ {r}) \in Nat
    BY <1>1, <1>2, FS_CardinalityType
  <2> QED BY <1>0, <1>1, <1>2, <1>3, <1>4, <1>5, <2>1
<1> QED
  BY <1>6 DEF Load, InFlight

\* The request rows that a step adds to a window are rows it inserts: the clock
\* only advances.
LEMMA ChargedAfter ==
  ASSUME QuotaTypeOK, QuotaTypeOK', now <= now', NEW s, NEW w \in Windows, NEW new,
         \A e \in events' \ events : e.event_type = "request" /\ e.slot = s => e \in new
  PROVE  Charged(s, w)' \subseteq Charged(s, w) \cup new
<1>1. w \in Nat
  BY QuotaAssumption DEF QuotaAssumption, Windows
<1> SUFFICES ASSUME NEW e \in Charged(s, w)', e \notin new
             PROVE  e \in Charged(s, w)
  OBVIOUS
<1>2. e \in events' /\ e.slot = s /\ e.timestamp > now' - w /\ e.event_type = "request"
  BY DEF Charged, RowsOf, InWindow
<1>3. e \in events
  BY <1>2
<1>4. e.timestamp > now - w
  <2>1. e.timestamp \in Nat /\ now \in Nat /\ now' \in Nat
    BY <1>3 DEF QuotaTypeOK, Row
  <2> QED BY <1>1, <1>2, <2>1
<1> QED
  BY <1>2, <1>3, <1>4 DEF Charged, RowsOf, InWindow

\* A step of the handler of r that leaves it with h, inserts at most the request
\* row `row`, and that only for the call of r which it ends, does not increase
\* the load of a slot that h does not call.
LEMMA HandlerStep ==
  ASSUME GatewayTypeOK, GatewayTypeOK', FiniteTable, NEW s, NEW w \in Windows,
         NEW r \in Reqs, NEW h, NEW row,
         GoesOn(r, h), h.pc = "calling" => h.cand.slot # s,
         ChargesOnly(r, row)
  PROVE  Load(s, w)' <= Load(s, w)
<1>0. /\ QuotaTypeOK /\ QuotaTypeOK' /\ now <= now'
      /\ req \in [Reqs -> Handler \cup {Nobody}]
  BY DEF GatewayTypeOK, QuotaTypeOK, GoesOn
<1>1. CallsOn(s)' \subseteq CallsOn(s) \ {r}
  BY <1>0 DEF CallsOn, Calling, GoesOn
<1>2. CASE r \in CallsOn(s)
  <2>1. \A e \in events' \ events : e.event_type = "request" /\ e.slot = s => e \in {row}
    BY DEF ChargesOnly
  <2>2. Charged(s, w)' \subseteq Charged(s, w) \cup {row}
    BY <1>0, <2>1, ChargedAfter
  <2> QED
    BY <1>1, <1>2, <2>2, ChargingStep
<1>3. CASE r \notin CallsOn(s)
  <2>1. \A e \in events' \ events : e.event_type = "request" /\ e.slot = s => e \in {}
    BY <1>3 DEF CallsOn, ChargesOnly
  <2>2. Charged(s, w)' \subseteq Charged(s, w) \cup {}
    BY <1>0, <2>1, ChargedAfter
  <2> QED
    BY <1>1, <2>2, QuietStep
<1> QED
  BY <1>2, <1>3

\* The same when the step goes through the retry loop: the load of s grows only by
\* the call that starts.
LEMMA AttemptStep ==
  ASSUME GatewayTypeOK, GatewayTypeOK', FiniteTable, NEW s, NEW w \in Windows,
         NEW r \in Reqs, NEW q \in Locals, NEW row,
         q.pc = "calling",
         (q.tries = 0 /\ req[r] = Nobody) \/ (q = req[r] /\ Calling(r)),
         now' = now, Attempt(r, q, cooldowns', events'),
         ChargesOnly(r, row)
  PROVE  Load(s, w)' <= Load(s, w) \/ Started(s)
<1>0. rr_index \in Nat /\ req \in [Reqs -> Handler \cup {Nobody}]
  BY DEF GatewayTypeOK, SchedTypeOK
<1>1. \/ req' = [req EXCEPT ![r] = Nobody]
      \/ \E c \in Candidates : Turns(r, q, cooldowns', events', c)
  BY <1>0, AttemptEffect
<1>2. CASE req' = [req EXCEPT ![r] = Nobody]
  <2>1. Nobody.pc = "calling" => Nobody.cand.slot # s
    BY DEF Nobody
  <2>2. GoesOn(r, Nobody)
    BY <1>2 DEF GoesOn
  <2> QED
    BY <2>1, <2>2, HandlerStep
<1>3. ASSUME NEW c \in Candidates, Turns(r, q, cooldowns', events', c)
      PROVE  Load(s, w)' <= Load(s, w) \/ Started(s)
  <2> DEFINE h == [q EXCEPT !.cand = c, !.tries = @ + 1]
  <2>1. h.pc = "calling" /\ h.cand = c /\ h.tries = q.tries + 1 /\ q.tries \in Nat
    BY GatewayAssumption DEF Locals, GatewayAssumption
  <2>2. req' = [req EXCEPT ![r] = h]
    BY <1>3 DEF Turns
  <2> HIDE DEF h
  <2>3. CASE c.slot # s
    <3>1. h.pc = "calling" => h.cand.slot # s
      BY <2>1, <2>3
    <3>2. GoesOn(r, h)
      BY <2>2 DEF GoesOn
    <3> QED
      BY <3>1, <3>2, HandlerStep
  <2>4. CASE c.slot = s
    <3>1. req'[r] = h
      BY <1>0, <2>2
    <3>2. req'[r] # req[r]
      <4>1. CASE req[r] = Nobody
        BY <2>1, <3>1, <4>1 DEF Nobody
      <4>2. CASE q = req[r]
        BY <2>1, <3>1, <4>2
      <4> QED
        BY <4>1, <4>2
    <3>3. StartsCall(r)
      BY <2>1, <3>1, <3>2 DEF StartsCall, Calling
    <3>4. Available(cooldowns', events', c)
      BY <1>3 DEF Turns
    <3> QED
      BY <2>1, <2>4, <3>1, <3>3, <3>4 DEF Started
  <2> QED
    BY <2>3, <2>4
<1> QED
  BY <1>1, <1>2, <1>3

\* The table stays finite.
LEMMA FiniteStep ==
  ASSUME FiniteTable, GatewayTypeOK, [GatewayNext]_gatewayVars
  PROVE  FiniteTable'
<1>1. ASSUME NEW slot, NEW n, ReportSuccess(slot, n) PROVE FiniteTable'
  <2> DEFINE a == RequestRow(slot, lastId + 1)
             b == TokensRow(slot, lastId + 2, n)
  <2>1. events' \subseteq (events \cup {a}) \cup {b}
    BY <1>1 DEF ReportSuccess, RecordUsage, UsageRows
  <2>2. IsFiniteSet((events \cup {a}) \cup {b})
    <3> HIDE DEF a, b
    <3> QED BY FS_AddElement DEF FiniteTable
  <2> QED
    BY <2>1, <2>2, FS_Subset DEF FiniteTable
<1>2. ASSUME NEW row, events' = events \cup {row} PROVE FiniteTable'
  BY <1>2, FS_AddElement DEF FiniteTable
<1>3. ASSUME events' \subseteq events PROVE FiniteTable'
  BY <1>3, FS_Subset DEF FiniteTable
<1>4. ASSUME NEW r \in Reqs, Arrive(r) PROVE FiniteTable'
  BY <1>4 DEF Arrive, NoCandidates, Begin, FiniteTable
<1>5. ASSUME NEW r \in Reqs, CallReturns(r) PROVE FiniteTable'
  BY <1>1, <1>2, <1>3, <1>5 DEF CallReturns, CallSucceeds, OpenStream, CallFails, RecordFails
<1>6. ASSUME NEW r \in Reqs, StreamCloses(r) PROVE FiniteTable'
  BY <1>2, <1>3, <1>6 DEF StreamCloses, StreamEnds, StreamBreaks, RecordTokens
<1>7. (\E r \in Reqs, n \in TokenCounts : Chunk(r, n)) \/ Reload \/ AdminCompact
        \/ GatewayTick \/ Crash \/ UNCHANGED gatewayVars => events' \subseteq events
  BY DEF Chunk, Reload, AdminCompact, Compact, GatewayTick, Tick, Crash, gatewayVars
<1> QED
  BY <1>3, <1>4, <1>5, <1>6, <1>7 DEF GatewayNext

\* In every step, and for every slot: recorded and running requests together grow
\* only by a call that the step starts on an available candidate.
LEMMA LoadStep ==
  ASSUME GatewayTypeOK, GatewayTypeOK', FiniteTable, [GatewayNext]_gatewayVars,
         NEW s, NEW w \in Windows
  PROVE  Load(s, w)' <= Load(s, w) \/ Started(s)
<1>0. /\ QuotaTypeOK /\ QuotaTypeOK' /\ now \in Nat
      /\ req \in [Reqs -> Handler \cup {Nobody}]
  BY DEF GatewayTypeOK, QuotaTypeOK
<1>q. ASSUME now <= now', events' \subseteq events, CallsOn(s)' \subseteq CallsOn(s)
      PROVE  Load(s, w)' <= Load(s, w)
  <2>1. \A e \in events' \ events : e.event_type = "request" /\ e.slot = s => e \in {}
    BY <1>q
  <2>2. Charged(s, w)' \subseteq Charged(s, w) \cup {}
    BY <1>0, <1>q, <2>1, ChargedAfter
  <2> QED
    BY <1>q, <2>2, QuietStep
<1>1. ASSUME NEW r \in Reqs, Arrive(r) PROVE Load(s, w)' <= Load(s, w) \/ Started(s)
  <2>1. req[r] = Nobody /\ now' = now /\ events' = events /\ cooldowns' = cooldowns
    BY <1>0, <1>1 DEF Arrive, NoCandidates, Begin, Handler
  <2>2. ChargesOnly(r, Nobody)
    BY <2>1 DEF ChargesOnly
  <2>3. ASSUME NEW m \in Models, NoCandidates(r, m) PROVE Load(s, w)' <= Load(s, w)
    <3>1. GoesOn(r, Nobody) /\ Nobody.pc # "calling"
      BY <2>1, <2>3 DEF GoesOn, NoCandidates, Answer, Nobody
    <3> QED
      BY <2>2, <3>1, HandlerStep
  <2>4. ASSUME NEW m \in Models, NEW b \in Modes, Begin(r, m, b)
        PROVE  Load(s, w)' <= Load(s, w) \/ Started(s)
    <3> DEFINE q == [pc |-> "calling", model |-> m, stream |-> b, cands |-> routes[m],
                     tries |-> 0, cand |-> routes[m][1], tokens |-> 0]
    <3>1. q \in Locals /\ q.pc = "calling" /\ q.tries = 0
      BY <2>4, FirstLocals DEF Begin
    <3>2. Attempt(r, q, cooldowns', events')
      BY <2>1, <2>4 DEF Begin
    <3> HIDE DEF q
    <3> QED
      BY <2>1, <2>2, <3>1, <3>2, AttemptStep
  <2> QED
    BY <1>1, <2>3, <2>4 DEF Arrive
<1>2. ASSUME NEW r \in Reqs, NEW n, ReportSuccess(req[r].cand.slot, n), Calling(r)
      PROVE  ChargesOnly(r, RequestRow(req[r].cand.slot, lastId + 1))
  BY <1>2 DEF ReportSuccess, RecordUsage, UsageRows, RequestRow, TokensRow, ChargesOnly
<1>3. ASSUME NEW r \in Reqs, NEW n \in TokenCounts, CallSucceeds(r, n)
      PROVE  Load(s, w)' <= Load(s, w)
  <2>1. GoesOn(r, Nobody) /\ Nobody.pc # "calling"
    BY <1>3 DEF CallSucceeds, ReportSuccess, RecordUsage, Answer, GoesOn, Nobody
  <2>2. ChargesOnly(r, RequestRow(req[r].cand.slot, lastId + 1))
    BY <1>2, <1>3 DEF CallSucceeds
  <2> QED
    BY <2>1, <2>2, HandlerStep
<1>4. ASSUME NEW r \in Reqs, OpenStream(r) PROVE Load(s, w)' <= Load(s, w)
  <2> DEFINE h == [req[r] EXCEPT !.pc = "streaming"]
  <2>1. req[r] \in Handler
    BY <1>4, CallingLocals DEF OpenStream
  <2>2. h.pc # "calling"
    BY <2>1 DEF Handler
  <2>3. GoesOn(r, h)
    BY <1>4 DEF OpenStream, ReportSuccess, RecordUsage, GoesOn
  <2>4. ChargesOnly(r, RequestRow(req[r].cand.slot, lastId + 1))
    BY <1>2, <1>4 DEF OpenStream
  <2> HIDE DEF h
  <2> QED
    BY <2>2, <2>3, <2>4, HandlerStep
<1>5. ASSUME NEW r \in Reqs, CallFails(r) PROVE Load(s, w)' <= Load(s, w) \/ Started(s)
  <2>1. /\ req[r] \in Locals /\ req[r].pc = "calling" /\ Calling(r)
        /\ Attempt(r, req[r], cooldowns', events') /\ now' = now
    BY <1>5, CallingLocals DEF CallFails
  <2>2. ChargesOnly(r, Nobody)
    BY <1>5 DEF CallFails, ChargesOnly
  <2> QED
    BY <2>1, <2>2, AttemptStep
<1>6. ASSUME NEW r \in Reqs, NEW n \in TokenCounts, RecordFails(r, n)
      PROVE  Load(s, w)' <= Load(s, w) \/ Started(s)
  <2>1. /\ req[r] \in Locals /\ req[r].pc = "calling" /\ Calling(r)
        /\ Attempt(r, req[r], cooldowns', events') /\ now' = now
    BY <1>6, CallingLocals DEF RecordFails
  <2>2. ChargesOnly(r, RequestRow(req[r].cand.slot, lastId + 1))
    BY <1>6 DEF RecordFails, RequestRow, ChargesOnly
  <2> QED
    BY <2>1, <2>2, AttemptStep
<1>7. ASSUME NEW r \in Reqs, NEW n \in TokenCounts, Chunk(r, n) PROVE Load(s, w)' <= Load(s, w)
  <2> DEFINE h == [req[r] EXCEPT !.tokens = n]
  <2>1. req[r] \in Handler /\ req[r].pc = "streaming"
    BY <1>7, StreamingLocals DEF Chunk
  <2>2. h.pc # "calling"
    BY <2>1 DEF Handler
  <2>3. GoesOn(r, h) /\ ChargesOnly(r, Nobody)
    BY <1>7 DEF Chunk, GoesOn, ChargesOnly
  <2> HIDE DEF h
  <2> QED
    BY <2>2, <2>3, HandlerStep
<1>8. ASSUME NEW r \in Reqs, StreamCloses(r) PROVE Load(s, w)' <= Load(s, w)
  <2>1. GoesOn(r, Nobody) /\ Nobody.pc # "calling"
    BY <1>8 DEF StreamCloses, StreamEnds, StreamBreaks, RecordTokens, GoesOn, Nobody
  <2>2. ChargesOnly(r, Nobody)
    BY <1>8 DEF StreamCloses, StreamEnds, StreamBreaks, RecordTokens, TokensRow, ChargesOnly
  <2> QED
    BY <2>1, <2>2, HandlerStep
<1>9. Reload \/ AdminCompact \/ GatewayTick \/ UNCHANGED gatewayVars
        => /\ now <= now' /\ events' \subseteq events
           /\ CallsOn(s)' \subseteq CallsOn(s)
  BY <1>0 DEF Reload, AdminCompact, Compact, GatewayTick, Tick, gatewayVars, CallsOn, Calling
<1>10. Crash => /\ now <= now' /\ events' \subseteq events
                /\ CallsOn(s)' \subseteq CallsOn(s)
  BY <1>0 DEF Crash, CallsOn, Calling, Nobody
<1> QED
  BY <1>q, <1>1, <1>3, <1>4, <1>5, <1>6, <1>7, <1>8, <1>9, <1>10
     DEF GatewayNext, CallReturns, StreamCloses

\* Every call that starts, starts on a candidate that the same step leaves
\* available, the failure it has just reported included.
LEMMA StartStep ==
  ASSUME GatewayTypeOK, [GatewayNext]_gatewayVars, NEW s \in Reqs, StartsCall(s)
  PROVE  Available(cooldowns', events', req'[s].cand) /\ now' = now
<1>0. rr_index \in Nat /\ req \in [Reqs -> Handler \cup {Nobody}]
  BY DEF GatewayTypeOK, SchedTypeOK
<1>a. req'[s] # req[s] /\ req'[s].pc = "calling"
  BY DEF StartsCall, Calling
<1>1. ASSUME NEW r \in Reqs, NEW q \in Locals, now' = now,
             Attempt(r, q, cooldowns', events')
      PROVE  Available(cooldowns', events', req'[s].cand) /\ now' = now
  <2>1. \/ req' = [req EXCEPT ![r] = Nobody]
        \/ \E c \in Candidates : Turns(r, q, cooldowns', events', c)
    BY <1>0, <1>1, AttemptEffect
  <2>2. req' # [req EXCEPT ![r] = Nobody]
    BY <1>0, <1>a DEF Nobody
  <2>3. PICK c \in Candidates : Turns(r, q, cooldowns', events', c)
    BY <2>1, <2>2
  <2>4. r = s /\ req'[s].cand = c
    BY <1>0, <1>a, <2>3 DEF Turns, Locals
  <2> QED
    BY <1>1, <2>3, <2>4 DEF Turns
<1>2. ASSUME NEW r \in Reqs, Arrive(r)
      PROVE  Available(cooldowns', events', req'[s].cand) /\ now' = now
  <2>1. ASSUME NEW m \in Models, NoCandidates(r, m) PROVE FALSE
    BY <1>0, <1>a, <2>1 DEF NoCandidates, Answer, Nobody
  <2>2. PICK m \in Models, b \in Modes : Begin(r, m, b)
    BY <1>2, <2>1 DEF Arrive
  <2> DEFINE q == [pc |-> "calling", model |-> m, stream |-> b, cands |-> routes[m],
                   tries |-> 0, cand |-> routes[m][1], tokens |-> 0]
  <2>3. q \in Locals
    BY <2>2, FirstLocals DEF Begin
  <2>4. now' = now /\ Attempt(r, q, cooldowns', events')
    BY <2>2 DEF Begin
  <2> HIDE DEF q
  <2> QED
    BY <1>1, <2>3, <2>4
<1>3. ASSUME NEW r \in Reqs, CallFails(r) \/ \E n \in TokenCounts : RecordFails(r, n)
      PROVE  Available(cooldowns', events', req'[s].cand) /\ now' = now
  <2>1. req[r] \in Locals /\ now' = now /\ Attempt(r, req[r], cooldowns', events')
    BY <1>3, CallingLocals DEF CallFails, RecordFails
  <2> QED
    BY <1>1, <2>1
<1>4. ASSUME NEW r \in Reqs, req' = [req EXCEPT ![r] = Nobody] PROVE FALSE
  BY <1>0, <1>a, <1>4 DEF Nobody
<1>5. ASSUME NEW r \in Reqs, (\E n \in TokenCounts : CallSucceeds(r, n)) \/ StreamCloses(r)
      PROVE  FALSE
  BY <1>4, <1>5 DEF CallSucceeds, StreamCloses, StreamEnds, StreamBreaks, Answer
<1>6. ASSUME NEW r \in Reqs, OpenStream(r) PROVE FALSE
  BY <1>0, <1>a, <1>6, CallingLocals DEF OpenStream, Handler
<1>7. ASSUME NEW r \in Reqs, NEW n \in TokenCounts, Chunk(r, n) PROVE FALSE
  BY <1>0, <1>a, <1>7, StreamingLocals DEF Chunk, Handler
<1>8. Reload \/ AdminCompact \/ GatewayTick \/ UNCHANGED gatewayVars => req' = req
  BY DEF Reload, AdminCompact, GatewayTick, gatewayVars
<1>9. Crash => req'[s] = Nobody
  BY DEF Crash
<1> QED
  BY <1>a, <1>2, <1>3, <1>5, <1>6, <1>7, <1>8, <1>9 DEF GatewayNext, CallReturns, Nobody

-----------------------------------------------------------------------------

\* Every reachable table is finite.
LEMMA TableIsFinite == GatewaySpec => []FiniteTable
<1>1. GatewayInit => FiniteTable
  BY FS_EmptySet DEF GatewayInit, QuotaInit, FiniteTable
<1>2. FiniteTable /\ GatewayTypeOK /\ [GatewayNext]_gatewayVars => FiniteTable'
  BY FiniteStep
<1> QED
  BY <1>1, <1>2, GatewayTypeCorrect, PTL DEF GatewaySpec

-----------------------------------------------------------------------------
(* The table under the handlers                                            *)

\* A step of the gateway inserts rows of the present, or is one of the table's own
\* steps without an insert.
Inserts == /\ lastId' # lastId
           /\ now' = now
           /\ \A e \in events' : e \in events \/ e.timestamp = now

QuietStepOfTable == Quiet /\ lastId' = lastId

LEMMA TableStep ==
  ASSUME GatewayTypeOK, [GatewayNext]_gatewayVars
  PROVE  Inserts \/ QuietStepOfTable
<1>0. lastId \in Nat /\ QuotaTypeOK /\ TokenCounts \subseteq Nat
  BY QuotaAssumption DEF GatewayTypeOK, QuotaTypeOK, QuotaAssumption
<1>1. ASSUME NEW slot \in Slots, NEW n \in Nat, ReportSuccess(slot, n) PROVE Inserts
  <2> DEFINE U == UsageRows(slot, n)
  <2>1. events' = events \cup U /\ lastId' = lastId + Cardinality(U) /\ now' = now
    BY <1>1 DEF ReportSuccess, RecordUsage
  <2>2. \A e \in U : e.timestamp = now
    BY DEF UsageRows, RequestRow, TokensRow
  <2>3. Cardinality(U) \in Nat \ {0}
    <3>1. RequestRow(slot, lastId + 1) \in U
      BY DEF UsageRows
    <3>2. IsFiniteSet(U) /\ Cardinality(U) \in Nat
      BY <1>0, UsageRowsType
    <3> HIDE DEF U
    <3>3. Cardinality(U) # 0
      BY <3>1, <3>2, FS_EmptySet
    <3> QED BY <3>2, <3>3
  <2> HIDE DEF U
  <2> QED BY <1>0, <2>1, <2>2, <2>3 DEF Inserts
<1>2. ASSUME NEW row, row.timestamp = now, events' = events \cup {row},
             lastId' = lastId + 1, now' = now
      PROVE  Inserts
  BY <1>0, <1>2 DEF Inserts
<1>3. ASSUME UNCHANGED quotaVars PROVE QuietStepOfTable
  BY <1>3 DEF QuietStepOfTable, Quiet, quotaVars
<1>4. ASSUME NEW r \in Reqs, Arrive(r) PROVE QuietStepOfTable
  BY <1>3, <1>4 DEF Arrive, NoCandidates, Begin, quotaVars
<1>5. ASSUME NEW r \in Reqs, NEW n \in TokenCounts, CallSucceeds(r, n) PROVE Inserts
  BY <1>0, <1>1, <1>5, CallingLocals DEF CallSucceeds
<1>6. ASSUME NEW r \in Reqs, OpenStream(r) PROVE Inserts
  BY <1>1, <1>6, CallingLocals DEF OpenStream
<1>7. ASSUME NEW r \in Reqs, CallFails(r) PROVE QuietStepOfTable
  BY <1>3, <1>7 DEF CallFails, quotaVars
<1>8. ASSUME NEW r \in Reqs, NEW n \in TokenCounts, RecordFails(r, n)
      PROVE  Inserts \/ QuietStepOfTable
  <2> DEFINE row == RequestRow(req[r].cand.slot, lastId + 1)
  <2>1. /\ now' = now
        /\ \/ UNCHANGED <<events, lastId>>
           \/ events' = events \cup {row} /\ lastId' = lastId + 1
    BY <1>8 DEF RecordFails
  <2>2. row.timestamp = now
    BY DEF RequestRow
  <2> HIDE DEF row
  <2> QED BY <1>2, <1>3, <2>1, <2>2 DEF quotaVars
<1>9. ASSUME NEW r \in Reqs, StreamCloses(r) PROVE Inserts \/ QuietStepOfTable
  <2> DEFINE row == TokensRow(req[r].cand.slot, lastId + 1, req[r].tokens)
  <2>1. \/ UNCHANGED <<now, events, lastId>>
        \/ events' = events \cup {row} /\ lastId' = lastId + 1 /\ now' = now
    BY <1>9 DEF StreamCloses, StreamEnds, StreamBreaks, RecordTokens
  <2>2. row.timestamp = now
    BY DEF TokensRow
  <2> HIDE DEF row
  <2> QED BY <1>2, <1>3, <2>1, <2>2 DEF quotaVars
<1>10. CASE AdminCompact \/ GatewayTick
  BY <1>10 DEF AdminCompact, GatewayTick, Compact, Tick, QuietStepOfTable, Quiet
<1>11. CASE (\E r \in Reqs, n \in TokenCounts : Chunk(r, n)) \/ Reload \/ Crash
              \/ UNCHANGED gatewayVars
  BY <1>3, <1>11 DEF Chunk, Reload, Crash, gatewayVars, quotaVars
<1> QED
  BY <1>4, <1>5, <1>6, <1>7, <1>8, <1>9, <1>10, <1>11 DEF GatewayNext, CallReturns

\* What the table's proofs need of it holds under the handlers, too.
LEMMA TableKept == GatewaySpec => []TableInv
<1>1. GatewayInit => TableInv
  BY FS_EmptySet DEF GatewayInit, QuotaInit, TableInv, QuotaTypeOK
<1>2. TableInv /\ GatewayTypeOK /\ GatewayTypeOK' /\ FiniteTable' /\ [GatewayNext]_gatewayVars
        => TableInv'
  <2> SUFFICES ASSUME TableInv, GatewayTypeOK, GatewayTypeOK', FiniteTable',
                      [GatewayNext]_gatewayVars
               PROVE  \A e \in events' : e.timestamp <= now'
    BY DEF TableInv, GatewayTypeOK, FiniteTable
  <2>1. now \in Nat /\ \A e \in events : e.timestamp <= now /\ e.timestamp \in Nat
    BY DEF TableInv, QuotaTypeOK, Row
  <2>2. CASE Inserts
    BY <2>1, <2>2 DEF Inserts
  <2>3. CASE QuietStepOfTable
    BY <2>1, <2>3 DEF QuietStepOfTable, Quiet, Compact, Tick, quotaVars
  <2> QED
    BY <2>2, <2>3, TableStep
<1> QED
  BY <1>1, <1>2, GatewayTypeCorrect, TableIsFinite, PTL DEF GatewaySpec

\* While requests are served, whatever fails or crashes: a candidate that has quota
\* loses it only through rows that handlers insert, ...
THEOREM ServingLosesByInserts == GatewaySpec => OnlyInsertsExhaust
<1> DEFINE Keeps ==
      lastId' = lastId
      => \A c \in Candidates : QuotaOk(events, now, c) => QuotaOk(events', now', c)
<1>1. TableInv /\ GatewayTypeOK /\ [GatewayNext]_gatewayVars => [Keeps]_quotaVars
  <2> SUFFICES ASSUME TableInv, GatewayTypeOK, [GatewayNext]_gatewayVars, lastId' = lastId,
                      NEW c \in Candidates, QuotaOk(events, now, c)
               PROVE  QuotaOk(events', now', c)
    OBVIOUS
  <2>1. Quiet
    BY TableStep DEF Inserts, QuietStepOfTable
  <2> QED
    BY <2>1, QuietKeepsQuota
<1> QED
  BY <1>1, TableKept, GatewayTypeCorrect, PTL DEF GatewaySpec, OnlyInsertsExhaust

\* ... a compaction at any moment, between a pick and its report included, changes no
\* answer of get_usage, ...
THEOREM ServingCompactionUnseen == GatewaySpec => CompactionInvisible
<1> DEFINE Unseen ==
      now' = now /\ lastId' = lastId
      => \A s \in Slots, w \in Windows :
            /\ RequestsUsed(events', now', s, w) = RequestsUsed(events, now, s, w)
            /\ TokensUsed(events', now', s, w) = TokensUsed(events, now, s, w)
<1>1. GatewayTypeOK /\ [GatewayNext]_gatewayVars => [Unseen]_quotaVars
  <2> SUFFICES ASSUME GatewayTypeOK, [GatewayNext]_gatewayVars, now' = now, lastId' = lastId,
                      NEW s \in Slots, NEW w \in Windows
               PROVE  /\ RequestsUsed(events', now', s, w) = RequestsUsed(events, now, s, w)
                      /\ TokensUsed(events', now', s, w) = TokensUsed(events, now, s, w)
    OBVIOUS
  <2>1. Quiet /\ QuotaTypeOK
    BY TableStep DEF Inserts, QuietStepOfTable, GatewayTypeOK
  <2> QED
    BY <2>1, QuietUnseen
<1> QED
  BY <1>1, GatewayTypeCorrect, PTL DEF GatewaySpec, CompactionInvisible

\* ... and the reset hint is long enough.
THEOREM ServingResetHint == GatewaySpec => []ResetsInIsWorstCase
<1>1. TableInv => ResetsInIsWorstCase
  BY HintSuffices
<1> QED
  BY <1>1, TableKept, PTL

\* However many requests run at a time, whatever limits the routes of a slot set
\* and whenever failures, crashes, reloads and compactions happen: the requests
\* of a window overshoot a limit by less than the number of handlers.
THEOREM OvershootIsBounded == GatewaySpec => []OvershootBound
<1> DEFINE Bounded(c) ==
      Loosest(c) => Load(c.slot, RequestWindow(c)) < RequestLimit(c) + Cardinality(Reqs)
<1>0. OvershootBound <=> \A c \in Candidates : Bounded(c)
  BY DEF OvershootBound, Load, Charged, RequestsUsed
<1>n. /\ IsFiniteSet(Reqs) /\ Cardinality(Reqs) \in Nat \ {0}
      /\ \A c \in Candidates :
           /\ RequestWindow(c) \in Windows
           /\ RequestLimit(c) # NoLimit => RequestLimit(c) \in Nat
  <2>1. IsFiniteSet(Reqs) /\ Cardinality(Reqs) \in Nat /\ Cardinality(Reqs) # 0
    BY GatewayAssumption, FS_CardinalityType, FS_EmptySet DEF GatewayAssumption
  <2> QED
    BY <2>1, QuotaAssumption
       DEF QuotaAssumption, RequestWindow, Windows, RequestLimit, Candidate, Limit
<1>1. GatewayInit => OvershootBound
  <2> SUFFICES ASSUME GatewayInit, NEW c \in Candidates, Loosest(c)
               PROVE  Load(c.slot, RequestWindow(c)) < RequestLimit(c) + Cardinality(Reqs)
    BY <1>0
  <2>1. Charged(c.slot, RequestWindow(c)) = {} /\ CallsOn(c.slot) = {}
    BY DEF GatewayInit, QuotaInit, Charged, RowsOf, InWindow, CallsOn, Calling, Nobody
  <2>2. Load(c.slot, RequestWindow(c)) = 0
    BY <2>1, FS_EmptySet DEF Load, InFlight
  <2>3. RequestLimit(c) \in Nat
    BY <1>n DEF Loosest
  <2> QED
    BY <1>n, <2>2, <2>3
<1>2. GatewayTypeOK /\ GatewayTypeOK' /\ FiniteTable /\ FiniteTable' /\ OvershootBound
        /\ [GatewayNext]_gatewayVars => OvershootBound'
  <2> SUFFICES ASSUME GatewayTypeOK, GatewayTypeOK', FiniteTable, FiniteTable', OvershootBound,
                      [GatewayNext]_gatewayVars, NEW c \in Candidates, Loosest(c)
               PROVE  Load(c.slot, RequestWindow(c))' < RequestLimit(c) + Cardinality(Reqs)
    BY DEF OvershootBound, Load, Charged, RequestsUsed
  <2> DEFINE s == c.slot
             w == RequestWindow(c)
  <2>1. w \in Windows /\ RequestLimit(c) \in Nat
    BY <1>n DEF Loosest
  <2>2. CallsOn(s)' \subseteq Reqs /\ Charged(s, w)' \subseteq events'
    BY DEF CallsOn, Charged, RowsOf, InWindow
  <2>3. /\ Cardinality(CallsOn(s)') \in Nat /\ Cardinality(CallsOn(s)') <= Cardinality(Reqs)
        /\ Cardinality(Charged(s, w)') \in Nat
    BY <1>n, <2>2, FS_Subset, FS_CardinalityType DEF FiniteTable
  <2>4. Load(s, w) \in Nat
    BY LoadType DEF Load
  <2>5. Load(s, w) < RequestLimit(c) + Cardinality(Reqs)
    BY <1>0
  <2>6. CASE Load(s, w)' <= Load(s, w)
    BY <1>n, <2>1, <2>3, <2>4, <2>5, <2>6 DEF Load, InFlight
  <2>7. CASE Started(s)
    <3>1. PICK r \in Reqs : /\ req'[r].cand \in Candidates /\ req'[r].cand.slot = s
                            /\ Available(cooldowns', events', req'[r].cand) /\ now' = now
      BY <2>7 DEF Started
    <3> DEFINE d == req'[r].cand
    <3>2. /\ RequestLimit(d) \in Nat /\ RequestLimit(d) <= RequestLimit(c)
          /\ RequestLimit(d) # NoLimit /\ RequestWindow(d) = w
      BY <1>n, <3>1 DEF Loosest
    <3>3. RequestsOk(events', now, d)
      BY <3>1 DEF Available, AvailableAt, QuotaOk
    <3>4. Cardinality(RowsOf(events', now, s, w, "request")) < RequestLimit(d)
      BY <3>1, <3>2, <3>3 DEF RequestsOk, RequestsUsed
    <3>5. Cardinality(Charged(s, w)') < RequestLimit(d)
      BY <3>1, <3>4 DEF Charged
    <3> QED
      BY <1>n, <2>1, <2>3, <3>2, <3>5 DEF Load, InFlight
  <2> QED
    BY <2>1, <2>6, <2>7, LoadStep
<1> QED
  BY <1>1, <1>2, GatewayTypeCorrect, TableIsFinite, PTL DEF GatewaySpec

\* Recorded and running requests of a slot grow together only by a new call.
THEOREM CallsAreChargedOnce == GatewaySpec => CallChargedOnce
<1>1. GatewayTypeOK /\ GatewayTypeOK' /\ FiniteTable /\ [GatewayNext]_gatewayVars
        => [ \A s \in Slots :
               \/ RequestsUsed(events', now', s, DAY) + InFlight(s)'
                      <= RequestsUsed(events, now, s, DAY) + InFlight(s)
               \/ \E r \in Reqs : StartsCall(r) /\ req'[r].cand.slot = s ]_gatewayVars
  <2> SUFFICES ASSUME GatewayTypeOK, GatewayTypeOK', FiniteTable, [GatewayNext]_gatewayVars,
                      NEW s \in Slots
               PROVE  \/ RequestsUsed(events', now', s, DAY) + InFlight(s)'
                            <= RequestsUsed(events, now, s, DAY) + InFlight(s)
                      \/ \E r \in Reqs : StartsCall(r) /\ req'[r].cand.slot = s
    OBVIOUS
  <2>1. Load(s, DAY)' <= Load(s, DAY) \/ Started(s)
    BY LoadStep DEF Windows
  <2> QED
    BY <2>1 DEF Load, Charged, RequestsUsed, Started
<1> QED
  BY <1>1, GatewayTypeCorrect, TableIsFinite, PTL DEF GatewaySpec, CallChargedOnce

\* No handler ever turns to a slot that is cooling when its step is done.
THEOREM CoolingSlotsDrain == GatewaySpec => CoolingDrains
<1>1. GatewayTypeOK /\ [GatewayNext]_gatewayVars
        => [ \A r \in Reqs : StartsCall(r)
               => ~Cooling(cooldowns', req'[r].cand.slot, now') ]_gatewayVars
  BY StartStep DEF Available, AvailableAt
<1> QED
  BY <1>1, GatewayTypeCorrect, PTL DEF GatewaySpec, CoolingDrains

-----------------------------------------------------------------------------
(* What the retry loop promises a request: it is not turned away as long   *)
(* as a candidate is free, and its life is one of RequestLife              *)


\* A handler that ends the retry loop with 429 has made all its calls, or has
\* just seen that no candidate of its list is available.
LEMMA RefusalEffect ==
  ASSUME NEW r \in Reqs, NEW q \in Locals, Attempt(r, q, cooldowns', events'),
         reply'.status = 429
  PROVE  /\ reply'.to = r /\ reply'.model = q.model
         /\ \/ q.tries = MAX_RETRIES
            \/ \A c \in Range(q.cands) : ~Available(cooldowns', events', c)
<1>1. ~CallNext(r, q, cooldowns', events')
  <2>1. CallNext(r, q, cooldowns', events') => reply' = [status |-> 0]
    BY DEF CallNext, SendNothing, NoReply
  <2> QED BY <2>1
<1>2. ~PickRaises(r, q, cooldowns')
  BY DEF PickRaises, Answer, Send
<1>3. GiveUp(r, q, cooldowns', events')
  BY <1>1, <1>2 DEF Attempt
<1>4. q.tries \in 0..MAX_RETRIES /\ MAX_RETRIES \in Nat
  BY GatewayAssumption DEF Locals, GatewayAssumption
<1>5. CASE q.tries < MAX_RETRIES
  BY <1>3, <1>5 DEF GiveUp, PicksNothing, Answer, Send, Range
<1>6. CASE ~(q.tries < MAX_RETRIES)
  BY <1>3, <1>4, <1>6 DEF GiveUp, Answer, Send
<1> QED
  BY <1>5, <1>6

\* A 429 is never sent while calls are left and a candidate of the request's own
\* list is free (the list that its model is routed to, for a request that arrives),
\* whatever the other handlers, the shared index, reloads and faults do.
THEOREM ExhaustionIsReal == GatewaySpec => NoFalseExhaustion
<1> DEFINE Real(r) ==
      /\ reply'.to = r
      /\ \/ Calling(r) /\ req[r].tries = MAX_RETRIES
         \/ \A c \in Range(ListOf(r)) : ~Available(cooldowns', events', c)
<1>1. ASSUME GatewayTypeOK, GatewayNext, reply'.status = 429
      PROVE  \E r \in Reqs : Real(r)
  <2>1. ASSUME NEW r \in Reqs, Arrive(r) PROVE \E x \in Reqs : Real(x)
    <3>1. PICK m \in Models : NoCandidates(r, m) \/ \E b \in Modes : Begin(r, m, b)
      BY <2>1 DEF Arrive
    <3>2. ~NoCandidates(r, m)
      BY <1>1 DEF NoCandidates, Answer, Send
    <3>3. PICK b \in Modes : Begin(r, m, b)
      BY <3>1, <3>2
    <3> DEFINE q == [pc |-> "calling", model |-> m, stream |-> b, cands |-> routes[m],
                     tries |-> 0, cand |-> routes[m][1], tokens |-> 0]
    <3>4. q \in Locals /\ q.tries = 0 /\ q.cands = routes[m] /\ q.model = m
      BY <1>1, <3>3, FirstLocals DEF Begin
    <3>5. Attempt(r, q, cooldowns', events')
      BY <3>3 DEF Begin
    <3>6. ~Calling(r) /\ MAX_RETRIES # 0
      BY <2>1, GatewayAssumption DEF Arrive, Calling, GatewayAssumption
    <3> HIDE DEF q
    <3>7. /\ reply'.to = r /\ reply'.model = m
          /\ \A c \in Range(routes[m]) : ~Available(cooldowns', events', c)
      BY <1>1, <3>4, <3>5, <3>6, RefusalEffect
    <3> QED
      BY <3>6, <3>7 DEF ListOf
  <2>2. ASSUME NEW r \in Reqs, CallFails(r) \/ \E n \in TokenCounts : RecordFails(r, n)
        PROVE  \E x \in Reqs : Real(x)
    <3>1. req[r] \in Locals /\ Attempt(r, req[r], cooldowns', events') /\ Calling(r)
      BY <1>1, <2>2, CallingLocals DEF CallFails, RecordFails
    <3> QED
      BY <1>1, <3>1, RefusalEffect DEF ListOf
  <2>3. ASSUME NEW r \in Reqs, (\E n \in TokenCounts : CallSucceeds(r, n)) \/ OpenStream(r)
        PROVE  FALSE
    BY <1>1, <2>3 DEF CallSucceeds, OpenStream, Answer, Send
  <2>4. ASSUME SendNothing PROVE FALSE
    BY <1>1, <2>4 DEF SendNothing, NoReply
  <2> QED
    BY <1>1, <2>1, <2>2, <2>3, <2>4
       DEF GatewayNext, CallReturns, StreamCloses, StreamEnds, StreamBreaks, Chunk, Reload,
           AdminCompact, GatewayTick, Crash
<1>2. GatewayTypeOK /\ [GatewayNext]_gatewayVars
        => [reply'.status = 429 => \E r \in Reqs : Real(r)]_gatewayVars
  BY <1>1
<1> QED
  BY <1>2, GatewayTypeCorrect, PTL DEF GatewaySpec, NoFalseExhaustion

-----------------------------------------------------------------------------
(* The refinement *)

\* What a running handler's locals have to do with RequestLife: its list is one
\* of the router's, and the call it makes is to a member of that list.
LocalsSound(q) ==
    q.pc # "idle" => /\ q.cands \in RouteLists
                     /\ q.cand \in Range(q.cands)

LifeInv == \A r \in Reqs : LocalsSound(req[r])

\* The step leaves r alone or gone, opens its stream, or makes its next call, on
\* another slot than the one that has failed.
LifeStep(r, h) ==
    \/ h = Nobody
    \/ /\ req[r] # Nobody
       /\ LifeOf(h) = LifeOf(req[r])
    \/ /\ Calling(r)
       /\ LifeOf(h) = [LifeOf(req[r]) EXCEPT !.phase = "streaming"]
    \/ \E c \in Range(req[r].cands) :
       /\ Calling(r)
       /\ req[r].tries < MAX_RETRIES
       /\ c.slot # req[r].cand.slot
       /\ LifeOf(h) = [phase |-> "calling", list |-> req[r].cands,
                       calls |-> req[r].tries + 1, callee |-> c]
    \/ \E list \in RouteLists :
       \E c \in Range(list) :
       /\ req[r] = Nobody
       /\ LifeOf(h) = [phase |-> "calling", list |-> list, calls |-> 1, callee |-> c]

\* The handler of r goes on with h, a step of the life of r.
Lives(r) == \E h : /\ req' = [req EXCEPT ![r] = h]
                   /\ LifeStep(r, h)
                   /\ LocalsSound(h)

\* A handler that leaves, whatever the reason, ends a life or stutters.
LEMMA GoneLives ==
  ASSUME NEW r \in Reqs, req' = [req EXCEPT ![r] = Nobody]
  PROVE  Lives(r)
<1>1. LifeStep(r, Nobody)
  BY DEF LifeStep
<1>2. LocalsSound(Nobody)
  BY DEF LocalsSound, Nobody
<1> QED
  BY <1>1, <1>2 DEF Lives

\* A pass through the retry loop: the slot that has just failed is cooling, so
\* that pick returns another one.
LEMMA AttemptLives ==
  ASSUME GatewayTypeOK, NEW r \in Reqs, NEW q \in Locals, q.pc = "calling",
         q.cands \in RouteLists,
         Attempt(r, q, cooldowns', events'),
         \/ q.tries = 0 /\ req[r] = Nobody
         \/ q = req[r] /\ Calling(r) /\ Cooling(cooldowns', req[r].cand.slot, now)
  PROVE  Lives(r)
<1>0. rr_index \in Nat
  BY DEF GatewayTypeOK, SchedTypeOK
<1>1. \/ req' = [req EXCEPT ![r] = Nobody]
      \/ \E c \in Candidates : Turns(r, q, cooldowns', events', c)
  BY <1>0, AttemptEffect
<1>2. ASSUME NEW c \in Candidates, Turns(r, q, cooldowns', events', c)
      PROVE  Lives(r)
  <2> DEFINE h == [q EXCEPT !.cand = c, !.tries = @ + 1]
  <2>1. /\ req' = [req EXCEPT ![r] = h] /\ c \in Range(q.cands)
        /\ q.tries < MAX_RETRIES /\ ~Cooling(cooldowns', c.slot, now)
    BY <1>2 DEF Turns, Available, AvailableAt
  <2>2. /\ h.pc = "calling" /\ h.cand = c /\ h.cands = q.cands
        /\ h.tries = q.tries + 1
    BY DEF Locals
  <2> HIDE DEF h
  <2>3. LifeOf(h) = [phase |-> "calling", list |-> q.cands, calls |-> q.tries + 1, callee |-> c]
    BY <2>2 DEF LifeOf
  <2>4. LocalsSound(h)
    BY <2>1, <2>2 DEF LocalsSound
  <2>5. CASE q.tries = 0 /\ req[r] = Nobody
    <3>1. LifeOf(h) = [phase |-> "calling", list |-> q.cands, calls |-> 1, callee |-> c]
      BY <2>3, <2>5
    <3>2. LifeStep(r, h)
      BY <2>1, <2>5, <3>1 DEF LifeStep
    <3> QED
      BY <2>1, <2>4, <3>2 DEF Lives
  <2>6. CASE q = req[r] /\ Calling(r) /\ Cooling(cooldowns', req[r].cand.slot, now)
    <3>1. c.slot # req[r].cand.slot
      BY <2>1, <2>6
    <3>2. LifeStep(r, h)
      BY <2>1, <2>3, <2>6, <3>1 DEF LifeStep
    <3> QED
      BY <2>1, <2>4, <3>2 DEF Lives
  <2> QED
    BY <2>5, <2>6
<1> QED
  BY <1>1, <1>2, GoneLives

\* Every step of the hub is one of the life of some request, an outage, or does
\* not concern the requests.
LEMMA EveryStepLives ==
  ASSUME GatewayTypeOK, LifeInv, [GatewayNext]_gatewayVars
  PROVE  \/ \E r \in Reqs : Lives(r)
         \/ req' = [r \in Reqs |-> Nobody]
         \/ req' = req
<1>0. /\ now \in Nat /\ cooldowns \in [Slots -> CooldownEntry]
      /\ req \in [Reqs -> Handler \cup {Nobody}]
      /\ routes \in RouteTables /\ routes \in [Models -> Seq(Candidates)]
  BY GatewayAssumption DEF GatewayTypeOK, QuotaTypeOK, SchedTypeOK, GatewayAssumption
<1>1. ASSUME NEW r \in Reqs, Arrive(r) PROVE Lives(r)
  <2>1. req[r] = Nobody
    BY <1>0, <1>1 DEF Arrive, Handler
  <2>2. PICK m \in Models : NoCandidates(r, m) \/ \E b \in Modes : Begin(r, m, b)
    BY <1>1 DEF Arrive
  <2>3. CASE NoCandidates(r, m)
    BY <2>3, GoneLives DEF NoCandidates, Answer
  <2>4. ASSUME NEW b \in Modes, Begin(r, m, b) PROVE Lives(r)
    <3> DEFINE q == [pc |-> "calling", model |-> m, stream |-> b, cands |-> routes[m],
                     tries |-> 0, cand |-> routes[m][1], tokens |-> 0]
    <3>1. q \in Locals /\ q.pc = "calling" /\ q.tries = 0 /\ q.cands = routes[m]
      BY <2>4, FirstLocals DEF Begin
    <3>2. Attempt(r, q, cooldowns', events')
      BY <2>4 DEF Begin
    <3> HIDE DEF q
    <3>3. q.cands \in RouteLists
      BY <1>0, <3>1 DEF RouteLists
    <3> QED
      BY <2>1, <3>1, <3>2, <3>3, AttemptLives
  <2> QED
    BY <2>2, <2>3, <2>4
<1>2. ASSUME NEW r \in Reqs, CallFails(r) \/ \E n \in TokenCounts : RecordFails(r, n)
      PROVE  Lives(r)
  <2>1. /\ req[r] \in Locals /\ req[r].pc = "calling" /\ Calling(r)
        /\ Attempt(r, req[r], cooldowns', events') /\ req[r].cand.slot \in Slots
    BY <1>2, CallingLocals DEF CallFails, RecordFails
  <2>2. Cooling(cooldowns', req[r].cand.slot, now)
    BY <1>0, <1>2, <2>1, FailureCools, AfterSuccessType DEF CallFails, RecordFails
  <2>3. req[r].cands \in RouteLists
    BY <2>1 DEF LifeInv, LocalsSound
  <2> QED
    BY <2>1, <2>2, <2>3, AttemptLives
<1>3. ASSUME NEW r \in Reqs, (\E n \in TokenCounts : CallSucceeds(r, n)) \/ StreamCloses(r)
      PROVE  Lives(r)
  BY <1>3, GoneLives DEF CallSucceeds, StreamCloses, StreamEnds, StreamBreaks, Answer
<1>4. ASSUME NEW r \in Reqs, OpenStream(r) PROVE Lives(r)
  <2> DEFINE h == [req[r] EXCEPT !.pc = "streaming"]
  <2>1. req[r] \in Handler /\ req[r].pc = "calling" /\ Calling(r)
    BY <1>4, CallingLocals DEF OpenStream
  <2>2. /\ h.pc = "streaming" /\ h.cands = req[r].cands /\ h.tries = req[r].tries
        /\ h.cand = req[r].cand
    BY <2>1 DEF Handler
  <2>3. req' = [req EXCEPT ![r] = h]
    BY <1>4 DEF OpenStream
  <2> HIDE DEF h
  <2>4. LifeOf(h) = [LifeOf(req[r]) EXCEPT !.phase = "streaming"]
    BY <2>1, <2>2 DEF LifeOf
  <2>5. LocalsSound(h)
    BY <2>1, <2>2 DEF LifeInv, LocalsSound
  <2>6. LifeStep(r, h)
    BY <2>1, <2>4 DEF LifeStep
  <2> QED
    BY <2>3, <2>5, <2>6 DEF Lives
<1>5. ASSUME NEW r \in Reqs, NEW n \in TokenCounts, Chunk(r, n) PROVE Lives(r)
  <2> DEFINE h == [req[r] EXCEPT !.tokens = n]
  <2>1. req[r] \in Handler /\ req[r].pc = "streaming"
    BY <1>5, StreamingLocals DEF Chunk
  <2>2. /\ h.pc = req[r].pc /\ h.cands = req[r].cands /\ h.tries = req[r].tries
        /\ h.cand = req[r].cand
    BY <2>1 DEF Handler
  <2>3. req' = [req EXCEPT ![r] = h]
    BY <1>5 DEF Chunk
  <2> HIDE DEF h
  <2>4. LifeOf(h) = LifeOf(req[r]) /\ req[r] # Nobody
    BY <2>1, <2>2 DEF LifeOf, Nobody
  <2>5. LocalsSound(h)
    BY <2>1, <2>2 DEF LifeInv, LocalsSound
  <2>6. LifeStep(r, h)
    BY <2>4 DEF LifeStep
  <2> QED
    BY <2>3, <2>5, <2>6 DEF Lives
<1>6. Reload \/ AdminCompact \/ GatewayTick \/ UNCHANGED gatewayVars => req' = req
  BY DEF Reload, AdminCompact, GatewayTick, gatewayVars
<1>7. Crash => req' = [r \in Reqs |-> Nobody]
  BY DEF Crash
<1> QED
  BY <1>1, <1>2, <1>3, <1>4, <1>5, <1>6, <1>7 DEF GatewayNext, CallReturns

\* The list and the callee of a running handler belong together.
LEMMA LifeInvariant == GatewaySpec => []LifeInv
<1>1. GatewayInit => LifeInv
  BY DEF GatewayInit, LifeInv, LocalsSound, Nobody
<1>2. GatewayTypeOK /\ LifeInv /\ [GatewayNext]_gatewayVars => LifeInv'
  <2> SUFFICES ASSUME GatewayTypeOK, LifeInv, [GatewayNext]_gatewayVars PROVE LifeInv'
    OBVIOUS
  <2>0. req \in [Reqs -> Handler \cup {Nobody}]
    BY DEF GatewayTypeOK
  <2>1. ASSUME NEW r \in Reqs, Lives(r) PROVE LifeInv'
    <3>1. PICK h : req' = [req EXCEPT ![r] = h] /\ LocalsSound(h)
      BY <2>1 DEF Lives
    <3>2. \A x \in Reqs : LocalsSound(req'[x])
      BY <2>0, <3>1 DEF LifeInv
    <3> QED
      BY <3>2 DEF LifeInv, LocalsSound
  <2>2. CASE req' = [r \in Reqs |-> Nobody]
    BY <2>2 DEF LifeInv, LocalsSound, Nobody
  <2>3. CASE req' = req
    BY <2>3 DEF LifeInv, LocalsSound
  <2> QED
    BY <2>1, <2>2, <2>3, EveryStepLives
<1> QED
  BY <1>1, <1>2, GatewayTypeCorrect, PTL DEF GatewaySpec

\* The handlers implement RequestLife: the list is kept, a retry goes to another
\* slot, the calls are bounded.  (That a request leaves is checked by TLC.)
THEOREM RequestsLive == GatewaySpec => Life!LifeSafeSpec
<1> DEFINE life == [r \in Reqs |-> LifeOf(req[r])]
<1>1. GatewayInit => Life!LifeInit
  BY DEF GatewayInit, Life!LifeInit, Life!Gone, LifeOf, Nobody
<1>2. GatewayTypeOK /\ LifeInv /\ [GatewayNext]_gatewayVars => [Life!LifeNext]_life
  <2> SUFFICES ASSUME GatewayTypeOK, LifeInv, [GatewayNext]_gatewayVars
               PROVE  Life!LifeNext \/ life' = life
    OBVIOUS
  <2>0. req \in [Reqs -> Handler \cup {Nobody}]
    BY DEF GatewayTypeOK
  <2>1. ASSUME NEW r \in Reqs, NEW h, req' = [req EXCEPT ![r] = h], LifeStep(r, h)
        PROVE  Life!LifeNext \/ life' = life
    <3>1. life' = [life EXCEPT ![r] = LifeOf(h)]
      BY <2>0, <2>1
    <3>2. life[r] = LifeOf(req[r])
      OBVIOUS
    <3>3. CASE h = Nobody
      <4>1. LifeOf(h) = [phase |-> "gone"]
        BY <3>3 DEF LifeOf, Nobody
      <4>2. CASE life[r].phase = "gone"
        <5>1. req[r] = Nobody
          BY <2>0, <4>2 DEF LifeOf, Handler
        <5> QED
          BY <2>0, <2>1, <3>3, <5>1
      <4>3. CASE life[r].phase # "gone"
        <5>1. Life!Finish(r) /\ Life!InService(r)
          BY <3>1, <4>1, <4>3 DEF Life!Finish, Life!InService, Life!Gone
        <5> QED
          BY <5>1 DEF Life!LifeNext, Life!GoOn
      <4> QED
        BY <4>2, <4>3
    <3>4. CASE req[r] # Nobody /\ LifeOf(h) = LifeOf(req[r])
      BY <3>1, <3>4
    <3>5. CASE Calling(r) /\ LifeOf(h) = [LifeOf(req[r]) EXCEPT !.phase = "streaming"]
      <4>1. life[r].phase = "calling"
        BY <3>5 DEF LifeOf, Calling
      <4>2. Life!Open(r)
        BY <3>1, <3>5 DEF Life!Open
      <4> QED
        BY <4>1, <4>2 DEF Life!LifeNext, Life!GoOn
    <3>6. ASSUME NEW c \in Range(req[r].cands), Calling(r), req[r].tries < MAX_RETRIES,
                 c.slot # req[r].cand.slot,
                 LifeOf(h) = [phase |-> "calling", list |-> req[r].cands,
                              calls |-> req[r].tries + 1, callee |-> c]
          PROVE  Life!LifeNext
      <4>1. life[r] = [phase |-> "calling", list |-> req[r].cands,
                       calls |-> req[r].tries, callee |-> req[r].cand]
        BY <3>6 DEF LifeOf, Calling
      <4>2. life' = [life EXCEPT ![r] = [phase |-> "calling", list |-> life[r].list,
                                         calls |-> life[r].calls + 1, callee |-> c]]
        <5>1. life[r].list = req[r].cands /\ life[r].calls = req[r].tries
          BY <4>1
        <5>2. LifeOf(h) = [phase |-> "calling", list |-> life[r].list,
                           calls |-> life[r].calls + 1, callee |-> c]
          BY <3>6, <5>1
        <5> QED
          BY <3>1, <5>2
      <4>3. c \in Life!Range(life[r].list) /\ c.slot # life[r].callee.slot
               /\ life[r].calls < MAX_RETRIES
        BY <3>6, <4>1 DEF Life!Range, Range
      <4>4. Life!Retry(r)
        BY <4>2, <4>3 DEF Life!Retry
      <4> QED
        BY <4>1, <4>4 DEF Life!LifeNext, Life!GoOn
    <3>7. ASSUME NEW list \in RouteLists,
                 NEW c \in Range(list), req[r] = Nobody,
                 LifeOf(h) = [phase |-> "calling", list |-> list, calls |-> 1, callee |-> c]
          PROVE  Life!LifeNext
      <4>1. ~Life!InService(r)
        BY <3>7 DEF Life!InService, LifeOf, Nobody
      <4>2. life' = [life EXCEPT ![r] = [phase |-> "calling", list |-> list, calls |-> 1,
                                         callee |-> c]]
        BY <3>1, <3>7
      <4>3. c \in Life!Range(list)
        BY DEF Life!Range, Range
      <4>4. Life!Accept(r)
        BY <4>1, <4>2, <4>3 DEF Life!Accept
      <4> QED
        BY <4>4 DEF Life!LifeNext
    <3> QED
      BY <2>1, <3>3, <3>4, <3>5, <3>6, <3>7 DEF LifeStep
  <2>2. CASE req' = [r \in Reqs |-> Nobody]
    <3>1. Life!Outage
      BY <2>2 DEF Life!Outage, Life!Gone, LifeOf, Nobody
    <3> QED
      BY <3>1 DEF Life!LifeNext
  <2>3. CASE req' = req
    BY <2>3
  <2> QED
    BY <2>1, <2>2, <2>3, EveryStepLives DEF Lives
<1> QED
  BY <1>1, <1>2, GatewayTypeCorrect, LifeInvariant, PTL DEF GatewaySpec, Life!LifeSafeSpec
=============================================================================
