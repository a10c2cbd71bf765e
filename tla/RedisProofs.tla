----------------------------- MODULE RedisProofs -----------------------------
(***************************************************************************)
(* Theorems about RedisTracker: the sorted sets stand in for the table of  *)
(* one tracker, and processes whose clocks agree share a limit.            *)
(***************************************************************************)
EXTENDS RedisTracker, FiniteSetTheorems, TLAPS

\* What the assumptions say about the constants of time.
LEMMA TimeConstants ==
  /\ MINUTE \in Nat /\ DAY \in Nat /\ 0 < MINUTE /\ MINUTE < DAY
  /\ Skew \in Nat /\ Grace \in Nat /\ MaxDelay \in Nat
  /\ Windows = {MINUTE, DAY} /\ Windows \subseteq Nat
BY QuotaAssumption, RedisAssumption DEF QuotaAssumption, RedisAssumption, Windows

\* A request is in exactly one of the four kinds of states.
LEMMA Kinds ==
  ASSUME RedisTypeOK, NEW r \in Reqs
  PROVE  /\ Asking(r) => req[r] \in Check
         /\ Calling(r) => req[r] \in Call
         /\ Reporting(r) => req[r] \in Report
         /\ Home[r] \in Procs
         /\ Clock(Home[r]) \in Nat
<1>1. req[r] \in Check \cup Call \cup Report \cup {Idle}
  BY DEF RedisTypeOK
<1>2. Home[r] \in Procs /\ offset[Home[r]] \in Nat /\ now \in Nat
  BY RedisAssumption, TimeConstants DEF RedisAssumption, RedisTypeOK, QuotaTypeOK
<1> QED
  BY <1>1, <1>2 DEF Asking, Calling, Reporting, Types, Check, Call, Report, Idle, Clock

\* The pipeline keeps the types of the sorted sets and of the table.
LEMMA ExecutesTypes ==
  ASSUME RedisTypeOK, NEW q \in Report, Executes(q)
  PROVE  /\ zsets' \in [Slots -> [Types -> SUBSET Member]]
         /\ expireAt' \in [Slots -> [Types -> Nat]]
         /\ events' \subseteq Row
<1>1. MemberOf(q) \in Member /\ q.slot \in Slots /\ q.at \in Types
  BY DEF MemberOf, Member, Report
<1>2. RowOf(q) \in Row
  BY DEF RowOf, Row, Report, Types
<1>3. Live(q.slot, q.at) \subseteq Member
  BY <1>1 DEF Live, RedisTypeOK
<1>4. {x \in Live(q.slot, q.at) \cup {MemberOf(q)} : x.score > MemberOf(q).score - DAY}
         \subseteq Member
  BY <1>1, <1>3
<1>5. zsets' \in [Slots -> [Types -> SUBSET Member]]
  BY <1>1, <1>4 DEF Executes, Put, RedisTypeOK
<1>6. now + DAY + Grace \in Nat
  BY TimeConstants DEF RedisTypeOK, QuotaTypeOK
<1>7. expireAt' \in [Slots -> [Types -> Nat]]
  BY <1>1, <1>6 DEF Executes, Put, RedisTypeOK
<1>8. events' \subseteq Row
  BY <1>2 DEF Executes, RedisTypeOK, QuotaTypeOK
<1> QED
  BY <1>5, <1>7, <1>8

\* The begin of a report keeps the types of the requests and of the history.
LEMMA BeginReportTypes ==
  ASSUME RedisTypeOK, NEW r \in Reqs, NEW slot \in Slots, NEW type \in Types,
         NEW amount \in Nat \ {0}, NEW tokens \in Nat,
         BeginReport(r, slot, type, amount, tokens)
  PROVE  /\ req' \in [Reqs -> Check \cup Call \cup Report \cup {Idle}]
         /\ lastId' \in Nat
         /\ writer' \in Seq(Procs) /\ Len(writer') = lastId'
<1>1. Home[r] \in Procs /\ Clock(Home[r]) \in Nat
  BY Kinds
<1>2. lastId \in Nat /\ now \in Nat /\ writer \in Seq(Procs) /\ Len(writer) = lastId
      /\ req \in [Reqs -> Check \cup Call \cup Report \cup {Idle}]
  BY DEF RedisTypeOK, QuotaTypeOK
<1> DEFINE q == [at |-> type, slot |-> slot, id |-> lastId + 1, amount |-> amount,
                 tokens |-> tokens, stamp |-> Clock(Home[r]), read |-> now]
<1>3. q \in Report
  BY <1>1, <1>2 DEF Report
<1>4. req' = [req EXCEPT ![r] = q] /\ lastId' = lastId + 1 /\ writer' = Append(writer, Home[r])
  BY DEF BeginReport
<1> HIDE DEF q
<1> QED
  BY <1>1, <1>2, <1>3, <1>4

\* Every reachable state of the sorted sets, the clocks and the requests is
\* type-correct; in particular no row or member stands for zero tokens.
THEOREM RedisTypeCorrect == RedisSpec => []RedisTypeOK
<1>1. RedisInit => RedisTypeOK
  <2> SUFFICES ASSUME RedisInit PROVE RedisTypeOK
    OBVIOUS
  <2>1. QuotaTypeOK
    BY DEF RedisInit, QuotaInit, QuotaTypeOK
  <2>2. writer \in Seq(Procs) /\ Len(writer) = lastId
    BY DEF RedisInit, QuotaInit
  <2> QED
    BY <2>1, <2>2 DEF RedisInit, RedisTypeOK
<1>2. RedisTypeOK /\ [RedisNext]_redisVars => RedisTypeOK'
  <2> SUFFICES ASSUME RedisTypeOK, [RedisNext]_redisVars PROVE RedisTypeOK'
    OBVIOUS
  <2>0. /\ now \in Nat /\ events \subseteq Row /\ lastId \in Nat
        /\ req \in [Reqs -> Check \cup Call \cup Report \cup {Idle}]
        /\ Candidates \subseteq Candidate
    BY QuotaAssumption DEF RedisTypeOK, QuotaTypeOK, QuotaAssumption
  <2>1. ASSUME NEW r \in Reqs, NEW c \in Candidates, StartCheck(r, c) PROVE RedisTypeOK'
    <3>1. Clock(Home[r]) \in Nat
      BY Kinds
    <3>2. [at |-> "check", cand |-> c, query |-> 1, stamp |-> Clock(Home[r]), read |-> now]
             \in Check
      BY <2>0, <3>1 DEF Check
    <3> QED
      BY <2>1, <3>2 DEF StartCheck, RedisTypeOK, QuotaTypeOK
  <2>2. ASSUME NEW r \in Reqs, Query(r) PROVE RedisTypeOK'
    <3>1. req[r] \in Check /\ Clock(Home[r]) \in Nat
      BY <2>2, Kinds DEF Query
    <3>2. \E q \in Check \cup Call \cup {Idle} : req' = [req EXCEPT ![r] = q]
      <4>1. CASE req' = [req EXCEPT ![r] = Idle]
        BY <4>1
      <4>2. CASE req[r].query \in {1, 3} /\ req' = [req EXCEPT ![r].query = @ + 1]
        <5>1. [req[r] EXCEPT !.query = @ + 1] \in Check
          BY <3>1, <4>2 DEF Check
        <5> QED BY <4>2, <5>1
      <4>3. CASE req' = [req EXCEPT ![r].query = 3, ![r].stamp = Clock(Home[r]), ![r].read = now]
        <5>1. ASSUME NEW t \in Nat
              PROVE  [req[r] EXCEPT !.query = 3, !.stamp = t, !.read = now] \in Check
          <6>1. [req[r] EXCEPT !.query = 3] \in Check
            BY <3>1 DEF Check
          <6>2. [[req[r] EXCEPT !.query = 3] EXCEPT !.stamp = t] \in Check
            BY <5>1, <6>1 DEF Check
          <6>3. [[[req[r] EXCEPT !.query = 3] EXCEPT !.stamp = t] EXCEPT !.read = now] \in Check
            BY <2>0, <6>2 DEF Check
          <6> QED BY <3>1, <6>3 DEF Check
        <5>2. req' = [req EXCEPT ![r] =
                [req[r] EXCEPT !.query = 3, !.stamp = Clock(Home[r]), !.read = now]]
          BY <2>0, <4>3
        <5>3. [req[r] EXCEPT !.query = 3, !.stamp = Clock(Home[r]), !.read = now] \in Check
          BY <3>1, <5>1
        <5> QED BY <5>2, <5>3
      <4>4. CASE req' = [req EXCEPT ![r] = [at |-> "call", cand |-> req[r].cand]]
        <5>1. [at |-> "call", cand |-> req[r].cand] \in Call
          BY <3>1 DEF Check, Call
        <5> QED BY <4>4, <5>1
      <4> QED
        BY <2>2, <4>1, <4>2, <4>3, <4>4 DEF Query
    <3>3. req' \in [Reqs -> Check \cup Call \cup Report \cup {Idle}]
      BY <2>0, <3>2
    <3> QED
      BY <2>2, <3>3 DEF Query, RedisTypeOK, QuotaTypeOK
  <2>3. ASSUME NEW r \in Reqs, NEW n \in TokenCounts, CallSucceeds(r, n) PROVE RedisTypeOK'
    <3>1. req[r].cand.slot \in Slots /\ n \in Nat /\ "request" \in Types
      BY <2>0, <2>3, Kinds, QuotaAssumption
         DEF CallSucceeds, Call, Candidate, QuotaAssumption, Types
    <3>2. /\ req' \in [Reqs -> Check \cup Call \cup Report \cup {Idle}]
          /\ lastId' \in Nat /\ writer' \in Seq(Procs) /\ Len(writer') = lastId'
      BY <2>3, <3>1, BeginReportTypes DEF CallSucceeds
    <3> QED
      BY <2>3, <3>2 DEF CallSucceeds, RedisTypeOK, QuotaTypeOK
  <2>4. ASSUME NEW r \in Reqs, CallFails(r) PROVE RedisTypeOK'
    BY <2>4 DEF CallFails, RedisTypeOK, QuotaTypeOK
  <2>5. ASSUME NEW r \in Reqs, Recorded(r) PROVE RedisTypeOK'
    <3>1. req[r] \in Report /\ Executes(req[r])
      BY <2>5, Kinds DEF Recorded
    <3>2. /\ zsets' \in [Slots -> [Types -> SUBSET Member]]
          /\ expireAt' \in [Slots -> [Types -> Nat]]
          /\ events' \subseteq Row
      BY <3>1, ExecutesTypes
    <3>3. /\ req' \in [Reqs -> Check \cup Call \cup Report \cup {Idle}]
          /\ lastId' \in Nat /\ writer' \in Seq(Procs) /\ Len(writer') = lastId'
      <4>1. CASE /\ req[r].tokens > 0
                 /\ BeginReport(r, req[r].slot, "tokens", req[r].tokens, 0)
        <5>1. /\ req[r].slot \in Slots /\ req[r].tokens \in Nat \ {0} /\ 0 \in Nat
              /\ "tokens" \in Types
          BY <3>1, <4>1 DEF Report, Types
        <5> QED BY <4>1, <5>1, BeginReportTypes
      <4>2. CASE req' = [req EXCEPT ![r] = Idle] /\ UNCHANGED <<lastId, writer>>
        BY <4>2 DEF RedisTypeOK, QuotaTypeOK
      <4> QED
        BY <2>5, <4>1, <4>2 DEF Recorded
    <3> QED
      BY <2>5, <3>2, <3>3 DEF Recorded, RedisTypeOK, QuotaTypeOK
  <2>6. ASSUME NEW r \in Reqs, Resend(r) PROVE RedisTypeOK'
    <3>1. req[r] \in Report /\ Executes(req[r])
      BY <2>6, Kinds DEF Resend
    <3> QED
      BY <2>6, <3>1, ExecutesTypes DEF Resend, RedisTypeOK, QuotaTypeOK
  <2>7. ASSUME NEW r \in Reqs, CommandRaises(r) PROVE RedisTypeOK'
    <3>1. /\ zsets' \in [Slots -> [Types -> SUBSET Member]]
          /\ expireAt' \in [Slots -> [Types -> Nat]]
          /\ events' \subseteq Row
      <4>1. CASE Reporting(r) /\ Executes(req[r])
        BY <4>1, Kinds, ExecutesTypes
      <4>2. CASE UNCHANGED <<zsets, expireAt, events>>
        BY <4>2 DEF RedisTypeOK, QuotaTypeOK
      <4> QED
        BY <2>7, <4>1, <4>2 DEF CommandRaises
    <3> QED
      BY <2>7, <3>1 DEF CommandRaises, RedisTypeOK, QuotaTypeOK
  <2>8. ASSUME NEW p \in Procs, CrashProcess(p) PROVE RedisTypeOK'
    BY <2>8 DEF CrashProcess, RedisTypeOK, QuotaTypeOK
  <2>9. ASSUME NEW p \in Procs, AdjustClock(p) PROVE RedisTypeOK'
    BY <2>9 DEF AdjustClock, RedisTypeOK, QuotaTypeOK
  <2>10. CASE RedisTick
    BY <2>10 DEF RedisTick, Tick, RedisTypeOK, QuotaTypeOK
  <2>11. CASE UNCHANGED redisVars
    BY <2>11 DEF redisVars, RedisTypeOK, QuotaTypeOK
  <2> QED
    BY <2>1, <2>2, <2>3, <2>4, <2>5, <2>6, <2>7, <2>8, <2>9, <2>10, <2>11 DEF RedisNext
<1> QED
  BY <1>1, <1>2, PTL DEF RedisSpec

-----------------------------------------------------------------------------
(* The sorted sets mirror the table                                        *)

\* What a check or a report carries is at most MaxDelay old, and its stamp at most
\* Skew ahead of the server's clock.
InTime(r) ==
  /\ req[r].read <= req[r].stamp /\ req[r].stamp <= req[r].read + Skew
  /\ req[r].read <= now /\ now <= req[r].read + MaxDelay
  /\ Home[r] \in steady => req[r].stamp = req[r].read + offset[Home[r]]

Timely == \A r \in Reqs : Asking(r) \/ Reporting(r) => InTime(r)

\* An id names one row ...
RowsNamed ==
  /\ \A e \in events : e.id \in 1..lastId /\ e.timestamp <= now
  /\ \A e, f \in events : e.id = f.id => e = f

\* ... and is carried by the report of that row only.
ReportsNamed ==
  /\ \A r \in Reqs : Reporting(r) =>
       /\ req[r].id \in 1..lastId /\ writer[req[r].id] = Home[r]
       /\ \A e \in events : e.id = req[r].id => e = RowOf(req[r])
  /\ \A r, q \in Reqs : Reporting(r) /\ Reporting(q) /\ req[r].id = req[q].id => r = q

\* Member m stands for row e.
Near(m, e) ==
  /\ CountedAs(m, e)
  /\ e.timestamp <= m.score /\ m.score <= e.timestamp + Skew
  /\ writer[e.id] \in steady => m.score = e.timestamp + offset[writer[e.id]]

MembersHaveRows == \A s \in Slots, t \in Types : \A m \in zsets[s][t] :
  \E e \in events : e.slot = s /\ e.event_type = t /\ Near(m, e)

RowsHaveMembers == \A e \in events :
  /\ e.timestamp + DAY + Grace <= expireAt[e.slot][e.event_type]
  /\ Age(e) < DAY - Skew => \E m \in zsets[e.slot][e.event_type] : Near(m, e)

KeysExpire == \A s \in Slots, t \in Types : \A m \in zsets[s][t] :
  expireAt[s][t] < m.score + 2 * DAY + Grace + MaxDelay

AllFinite ==
  /\ IsFiniteSet(events)
  /\ \A s \in Slots, t \in Types : IsFiniteSet(zsets[s][t])

Mirrored == RowsNamed /\ MembersHaveRows /\ RowsHaveMembers /\ KeysExpire /\ AllFinite

MirrorInv == RedisTypeOK /\ Timely /\ ReportsNamed /\ Mirrored

\* What every step leaves of the past: the clock does not go back, ids keep their
\* writer, and a steady process its offset.
PastKept ==
  /\ now <= now' /\ lastId <= lastId'
  /\ \A i \in 1..lastId : writer'[i] = writer[i]
  /\ steady' \subseteq steady
  /\ \A p \in steady' : offset'[p] = offset[p]

\* A new id extends the history.
LEMMA BeginReportKeepsPast ==
  ASSUME RedisTypeOK, NEW r \in Reqs, NEW slot, NEW type, NEW amount, NEW tokens,
         BeginReport(r, slot, type, amount, tokens), UNCHANGED <<now, offset, steady>>
  PROVE  PastKept /\ writer'[lastId + 1] = Home[r]
<1>1. Home[r] \in Procs /\ writer \in Seq(Procs) /\ Len(writer) = lastId /\ lastId \in Nat
      /\ now \in Nat
  BY Kinds DEF RedisTypeOK, QuotaTypeOK
<1>2. writer' = Append(writer, Home[r]) /\ lastId' = lastId + 1
  BY DEF BeginReport
<1>3. writer'[lastId + 1] = Home[r] /\ \A i \in 1..lastId : writer'[i] = writer[i]
  BY <1>1, <1>2
<1> QED
  BY <1>1, <1>2, <1>3 DEF PastKept

\* A step runs the pipeline of one report, or leaves table and sorted sets alone.
LEMMA StepKinds ==
  ASSUME RedisTypeOK, [RedisNext]_redisVars
  PROVE  /\ PastKept
         /\ \/ UNCHANGED <<zsets, expireAt, events>>
            \/ /\ UNCHANGED <<now, offset, steady>>
               /\ \E r \in Reqs : Reporting(r) /\ Executes(req[r])
<1>0. now \in Nat /\ lastId \in Nat
  BY DEF RedisTypeOK, QuotaTypeOK
<1> DEFINE Goal == /\ PastKept
                   /\ \/ UNCHANGED <<zsets, expireAt, events>>
                      \/ /\ UNCHANGED <<now, offset, steady>>
                         /\ \E r \in Reqs : Reporting(r) /\ Executes(req[r])
<1>1. CASE UNCHANGED <<now, lastId, offset, steady, writer, zsets, expireAt, events>>
  BY <1>0, <1>1 DEF PastKept
<1>2. ASSUME NEW r \in Reqs, NEW c \in Candidates, StartCheck(r, c) PROVE Goal
  BY <1>1, <1>2 DEF StartCheck
<1>3. ASSUME NEW r \in Reqs, Query(r) PROVE Goal
  BY <1>1, <1>3 DEF Query
<1>4. ASSUME NEW r \in Reqs, NEW n \in TokenCounts, CallSucceeds(r, n) PROVE Goal
  BY <1>4, BeginReportKeepsPast DEF CallSucceeds
<1>5. ASSUME NEW r \in Reqs, CallFails(r) PROVE Goal
  BY <1>1, <1>5 DEF CallFails
<1>6. ASSUME NEW r \in Reqs, Recorded(r) PROVE Goal
  <2>1. PastKept
    <3>1. CASE UNCHANGED <<lastId, writer>>
      BY <1>0, <1>6, <3>1 DEF Recorded, PastKept
    <3>2. CASE BeginReport(r, req[r].slot, "tokens", req[r].tokens, 0)
      BY <1>6, <3>2, BeginReportKeepsPast DEF Recorded
    <3> QED BY <1>6, <3>1, <3>2 DEF Recorded
  <2> QED BY <1>6, <2>1 DEF Recorded
<1>7. ASSUME NEW r \in Reqs, Resend(r) PROVE Goal
  BY <1>0, <1>7 DEF Resend, PastKept
<1>8. ASSUME NEW r \in Reqs, CommandRaises(r) PROVE Goal
  BY <1>0, <1>8 DEF CommandRaises, PastKept
<1>9. ASSUME NEW p \in Procs, CrashProcess(p) PROVE Goal
  BY <1>1, <1>9 DEF CrashProcess
<1>10. ASSUME NEW p \in Procs, AdjustClock(p) PROVE Goal
  BY <1>0, <1>10 DEF AdjustClock, PastKept, RedisTypeOK
<1>11. CASE RedisTick
  BY <1>0, <1>11 DEF RedisTick, Tick, PastKept
<1>12. CASE UNCHANGED redisVars
  BY <1>1, <1>12 DEF redisVars
<1> QED
  BY <1>2, <1>3, <1>4, <1>5, <1>6, <1>7, <1>8, <1>9, <1>10, <1>11, <1>12 DEF RedisNext

\* What a step makes of request r: what it carries stays, was read in this very
\* step, or is given up.  Of a report that begins, the id is new.
Carries(r) ==
  \/ req'[r] = req[r]
  \/ ~Asking(r)' /\ ~Reporting(r)'
  \/ /\ UNCHANGED <<now, offset, steady>>
     /\ \/ /\ Asking(r) /\ Asking(r)'
           /\ req'[r].stamp = req[r].stamp /\ req'[r].read = req[r].read
        \/ /\ req'[r].stamp = Clock(Home[r]) /\ req'[r].read = now
           /\ Reporting(r)' =>
                /\ req'[r].id = lastId + 1 /\ lastId' = lastId + 1
                /\ writer'[lastId + 1] = Home[r]
                /\ \A q \in Reqs \ {r} : req'[q] = req[q]

\* A report that begins carries what was read in the step.
LEMMA BeginReportCarries ==
  ASSUME RedisTypeOK, NEW r \in Reqs, NEW slot \in Slots, NEW type \in Types, NEW amount, NEW tokens,
         BeginReport(r, slot, type, amount, tokens), UNCHANGED <<now, offset, steady>>
  PROVE  \A q \in Reqs : Carries(q)
<1>1. writer'[lastId + 1] = Home[r]
  BY BeginReportKeepsPast
<1>2. req \in [Reqs -> Check \cup Call \cup Report \cup {Idle}]
  BY DEF RedisTypeOK
<1>3. /\ req'[r].stamp = Clock(Home[r]) /\ req'[r].read = now /\ req'[r].id = lastId + 1
      /\ lastId' = lastId + 1
      /\ \A q \in Reqs \ {r} : req'[q] = req[q]
  BY <1>2 DEF BeginReport
<1> QED
  BY <1>1, <1>3 DEF Carries

LEMMA RequestSteps ==
  ASSUME RedisTypeOK, Timely, [RedisNext]_redisVars, NEW q \in Reqs
  PROVE  /\ Carries(q)
         /\ Asking(q) \/ Reporting(q) => now' <= req[q].read + MaxDelay
<1>0. /\ now \in Nat /\ MaxDelay \in Nat
      /\ req \in [Reqs -> Check \cup Call \cup Report \cup {Idle}]
  BY TimeConstants DEF RedisTypeOK, QuotaTypeOK
<1>1. Idle.at = "idle" /\ \A c : [at |-> "call", cand |-> c].at = "call"
  BY DEF Idle
<1> DEFINE Goal == Carries(q) /\ (Asking(q) \/ Reporting(q) => now' <= req[q].read + MaxDelay)
<1>2. ASSUME now' = now, Carries(q) PROVE Goal
  BY <1>2 DEF Timely, InTime
<1>3. ASSUME NEW r \in Reqs, req' = [req EXCEPT ![r] = Idle], now' = now PROVE Goal
  BY <1>0, <1>1, <1>2, <1>3 DEF Carries, Asking, Reporting, Types
<1>4. ASSUME NEW r \in Reqs, NEW c \in Candidates, StartCheck(r, c) PROVE Goal
  <2>1. q # r => req'[q] = req[q]
    BY <1>0, <1>4 DEF StartCheck
  <2>2. q = r => /\ req'[q].at = "check" /\ req'[q].stamp = Clock(Home[q]) /\ req'[q].read = now
    BY <1>0, <1>4 DEF StartCheck
  <2> QED
    BY <2>1, <2>2, <1>2, <1>4 DEF StartCheck, Carries, Asking, Reporting, Types
<1>5. ASSUME NEW r \in Reqs, Query(r) PROVE Goal
  <2>1. q # r => req'[q] = req[q]
    BY <1>0, <1>5 DEF Query
  <2>2. req[r] \in Check
    BY <1>5, Kinds DEF Query
  <2>3. CASE req' = [req EXCEPT ![r] = Idle]
    BY <2>3, <1>3, <1>5 DEF Query
  <2>4. CASE req' = [req EXCEPT ![r].query = @ + 1]
    <3>1. /\ req'[r].at = "check"
          /\ req'[r].stamp = req[r].stamp /\ req'[r].read = req[r].read
      BY <1>0, <2>2, <2>4 DEF Check
    <3> QED
      BY <3>1, <2>1, <1>2, <1>5 DEF Query, Carries, Asking, Reporting, Types
  <2>5. CASE req' = [req EXCEPT ![r].query = 3, ![r].stamp = Clock(Home[r]), ![r].read = now]
    <3>1. /\ req'[r].at = "check"
          /\ req'[r].stamp = Clock(Home[r]) /\ req'[r].read = now
      BY <1>0, <2>2, <2>5 DEF Check
    <3> QED
      BY <3>1, <2>1, <1>2, <1>5 DEF Query, Carries, Asking, Reporting, Types
  <2>6. CASE req' = [req EXCEPT ![r] = [at |-> "call", cand |-> req[r].cand]]
    <3>1. req'[r].at = "call"
      BY <1>0, <2>6
    <3> QED
      BY <3>1, <2>1, <1>2, <1>5 DEF Query, Carries, Asking, Reporting, Types
  <2> QED
    BY <1>5, <2>3, <2>4, <2>5, <2>6 DEF Query
<1>6. ASSUME NEW r \in Reqs, NEW n \in TokenCounts, CallSucceeds(r, n) PROVE Goal
  <2>1. req[r].cand.slot \in Slots /\ "request" \in Types
    BY <1>6, Kinds, QuotaAssumption DEF CallSucceeds, Call, Candidate, QuotaAssumption, Types
  <2> QED
    BY <2>1, <1>2, <1>6, BeginReportCarries DEF CallSucceeds
<1>7. ASSUME NEW r \in Reqs, CallFails(r) PROVE Goal
  BY <1>3, <1>7 DEF CallFails
<1>8. ASSUME NEW r \in Reqs, Recorded(r) PROVE Goal
  <2>1. CASE req' = [req EXCEPT ![r] = Idle]
    BY <1>3, <1>8, <2>1 DEF Recorded
  <2>2. CASE BeginReport(r, req[r].slot, "tokens", req[r].tokens, 0)
    <3>1. req[r].slot \in Slots /\ "tokens" \in Types
      BY <1>8, Kinds DEF Recorded, Report, Types
    <3> QED
      BY <3>1, <2>2, <1>2, <1>8, BeginReportCarries DEF Recorded
  <2> QED
    BY <1>8, <2>1, <2>2 DEF Recorded
<1>9. ASSUME NEW r \in Reqs, Resend(r) PROVE Goal
  BY <1>2, <1>9 DEF Resend, Carries
<1>10. ASSUME NEW r \in Reqs, CommandRaises(r) PROVE Goal
  BY <1>3, <1>10 DEF CommandRaises
<1>11. ASSUME NEW p \in Procs, CrashProcess(p) PROVE Goal
  <2>1. req'[q] = req[q] \/ req'[q] = Idle
    BY <1>11 DEF CrashProcess
  <2> QED
    BY <2>1, <1>1, <1>2, <1>11 DEF CrashProcess, Carries, Asking, Reporting, Types
<1>12. ASSUME NEW p \in Procs, AdjustClock(p) PROVE Goal
  BY <1>2, <1>12 DEF AdjustClock, Carries
<1>13. CASE RedisTick
  <2>1. Asking(q) \/ Reporting(q) => req[q].read \in Nat /\ now - req[q].read < MaxDelay
    BY <1>13, Kinds DEF RedisTick, Check, Report
  <2> QED
    BY <2>1, <1>0, <1>13 DEF RedisTick, Tick, Carries
<1>14. CASE UNCHANGED redisVars
  BY <1>2, <1>14 DEF redisVars, Carries
<1> QED
  BY <1>4, <1>5, <1>6, <1>7, <1>8, <1>9, <1>10, <1>11, <1>12, <1>13, <1>14 DEF RedisNext

\* Clocks and delays stay within their bounds.
LEMMA TimelyStep ==
  ASSUME RedisTypeOK, RedisTypeOK', Timely, [RedisNext]_redisVars
  PROVE  Timely'
<1> SUFFICES ASSUME NEW r \in Reqs, Asking(r)' \/ Reporting(r)' PROVE InTime(r)'
  BY DEF Timely
<1>0. /\ now \in Nat /\ now' \in Nat /\ Skew \in Nat /\ MaxDelay \in Nat
      /\ Home[r] \in Procs /\ offset[Home[r]] \in 0..Skew
  BY TimeConstants, Kinds DEF RedisTypeOK, QuotaTypeOK
<1>1. Carries(r) /\ (Asking(r) \/ Reporting(r) => now' <= req[r].read + MaxDelay)
  BY RequestSteps
<1>2. PastKept
  BY StepKinds
<1>3. Asking(r) \/ Reporting(r) => req[r].read \in Nat /\ req[r].stamp \in Nat /\ InTime(r)
  BY Kinds DEF Timely, Check, Report
<1>4. CASE req'[r] = req[r]
  BY <1>0, <1>1, <1>2, <1>3, <1>4 DEF InTime, PastKept, Asking, Reporting
<1>5. CASE /\ UNCHANGED <<now, offset, steady>> /\ Asking(r)
           /\ req'[r].stamp = req[r].stamp /\ req'[r].read = req[r].read
  BY <1>3, <1>5 DEF InTime
<1>6. CASE /\ UNCHANGED <<now, offset, steady>>
           /\ req'[r].stamp = Clock(Home[r]) /\ req'[r].read = now
  BY <1>0, <1>6 DEF InTime, Clock
<1> QED
  BY <1>1, <1>4, <1>5, <1>6 DEF Carries

\* A row keeps its report, and no other has its id.
LEMMA ReportsNamedStep ==
  ASSUME RedisTypeOK, RedisTypeOK', Timely, RowsNamed, ReportsNamed, [RedisNext]_redisVars
  PROVE  ReportsNamed'
<1>0. lastId \in Nat /\ lastId' \in Nat
  BY DEF RedisTypeOK, QuotaTypeOK
<1>1. PastKept
  BY StepKinds
<1>2. \A e \in events' : e \in events \/ \E x \in Reqs : Reporting(x) /\ e = RowOf(req[x])
  <2>1. CASE UNCHANGED <<zsets, expireAt, events>>
    BY <2>1
  <2>2. CASE \E x \in Reqs : Reporting(x) /\ Executes(req[x])
    BY <2>2 DEF Executes
  <2> QED
    BY <2>1, <2>2, StepKinds
<1>3. \A e \in events' : e.id \in 1..lastId
  BY <1>2 DEF RowsNamed, ReportsNamed, RowOf
<1>4. ASSUME NEW r \in Reqs, Reporting(r)'
      PROVE  \/ Reporting(r) /\ req'[r] = req[r]
             \/ /\ req'[r].id = lastId + 1 /\ lastId' = lastId + 1
                /\ writer'[lastId + 1] = Home[r]
                /\ \A q \in Reqs \ {r} : req'[q] = req[q]
  BY <1>4, RequestSteps DEF Carries, Asking, Reporting, Types
<1>5. ASSUME NEW r \in Reqs, Reporting(r)'
      PROVE  /\ req'[r].id \in 1..lastId' /\ writer'[req'[r].id] = Home[r]
             /\ \A e \in events' : e.id = req'[r].id => e = RowOf(req'[r])
  <2>1. CASE Reporting(r) /\ req'[r] = req[r]
    <3>1. req[r].id \in 1..lastId /\ writer[req[r].id] = Home[r]
      BY <2>1 DEF ReportsNamed
    <3>2. req'[r].id \in 1..lastId' /\ writer'[req'[r].id] = Home[r]
      BY <1>0, <1>1, <2>1, <3>1 DEF PastKept
    <3>3. ASSUME NEW e \in events', e.id = req'[r].id PROVE e = RowOf(req'[r])
      <4>1. CASE e \in events
        BY <2>1, <3>3, <4>1 DEF ReportsNamed
      <4>2. ASSUME NEW x \in Reqs, Reporting(x), e = RowOf(req[x]) PROVE e = RowOf(req'[r])
        <5>1. req[x].id = req[r].id
          BY <2>1, <3>3, <4>2 DEF RowOf
        <5> QED
          BY <2>1, <4>2, <5>1 DEF ReportsNamed
      <4> QED BY <1>2, <4>1, <4>2
    <3> QED BY <3>2, <3>3
  <2>2. CASE /\ req'[r].id = lastId + 1 /\ lastId' = lastId + 1
             /\ writer'[lastId + 1] = Home[r]
    BY <1>0, <1>3, <2>2
  <2> QED BY <1>4, <1>5, <2>1, <2>2
<1>6. ASSUME NEW r \in Reqs, NEW q \in Reqs, Reporting(r)', Reporting(q)',
             req'[r].id = req'[q].id, r # q
      PROVE  FALSE
  <2>1. \A x \in Reqs : Reporting(x) => req[x].id \in 1..lastId
    BY DEF ReportsNamed
  <2>2. CASE Reporting(r) /\ req'[r] = req[r] /\ Reporting(q) /\ req'[q] = req[q]
    BY <1>6, <2>2 DEF ReportsNamed
  <2>3. CASE req'[r].id = lastId + 1 /\ \A x \in Reqs \ {r} : req'[x] = req[x]
    <3>1. req'[q] = req[q]
      BY <1>6, <2>3
    <3>2. req[q].id \in 1..lastId
      BY <1>6, <2>1, <3>1 DEF Reporting
    <3>3. req[q].id = lastId + 1
      BY <1>6, <2>3, <3>1
    <3> QED BY <1>0, <3>2, <3>3
  <2>4. CASE req'[q].id = lastId + 1 /\ \A x \in Reqs \ {q} : req'[x] = req[x]
    <3>1. req'[r] = req[r]
      BY <1>6, <2>4
    <3>2. req[r].id \in 1..lastId
      BY <1>6, <2>1, <3>1 DEF Reporting
    <3>3. req[r].id = lastId + 1
      BY <1>6, <2>4, <3>1
    <3> QED BY <1>0, <3>2, <3>3
  <2> QED BY <1>4, <1>6, <2>2, <2>3, <2>4
<1> QED
  BY <1>5, <1>6 DEF ReportsNamed

\* A member goes on standing for its row.
LEMMA NearKept ==
  ASSUME RowsNamed, PastKept, NEW e \in events, NEW m, Near(m, e)
  PROVE  Near(m, e)'
<1>1. e.id \in 1..lastId
  BY DEF RowsNamed
<1>2. writer'[e.id] = writer[e.id]
  BY <1>1 DEF PastKept
<1> QED
  BY <1>2 DEF PastKept, Near, CountedAs

\* The effect of a pipeline on each key
LEMMA PutEffect ==
  ASSUME RedisTypeOK, NEW q \in Report, Executes(q), NEW s \in Slots, NEW t \in Types
  PROVE  IF s = q.slot /\ t = q.at
         THEN /\ zsets'[s][t] = {x \in Live(s, t) \cup {MemberOf(q)} : x.score > q.stamp - DAY}
              /\ expireAt'[s][t] = now + DAY + Grace
         ELSE /\ zsets'[s][t] = zsets[s][t]
              /\ expireAt'[s][t] = expireAt[s][t]
BY DEF RedisTypeOK, Executes, Put, MemberOf, Report

\* The pipeline of a report keeps the mirror.
LEMMA ExecutesMirrored ==
  ASSUME MirrorInv, RedisTypeOK', PastKept, NEW r \in Reqs, Reporting(r),
         NEW q, q = req[r], Executes(q), UNCHANGED <<now, offset, steady>>
  PROVE  Mirrored'
<1> DEFINE m0 == MemberOf(q)
           e0 == RowOf(q)
<1>1. q \in Report /\ InTime(r) /\ RedisTypeOK
  BY Kinds DEF MirrorInv, Timely
<1>2. /\ now \in Nat /\ lastId \in Nat /\ events \subseteq Row
      /\ DAY \in Nat /\ 0 < DAY /\ Skew \in Nat /\ Grace \in Nat /\ MaxDelay \in Nat
      /\ q.stamp \in Nat /\ q.read \in Nat /\ q.slot \in Slots /\ q.at \in Types
      /\ \A s \in Slots, t \in Types : zsets[s][t] \subseteq Member /\ expireAt[s][t] \in Nat
  BY <1>1, TimeConstants DEF RedisTypeOK, QuotaTypeOK, Report
<1>3. events' = events \cup {e0}
  BY DEF Executes
<1>4. /\ m0.score = q.stamp /\ m0.id = q.id /\ m0.amount = q.amount
      /\ e0.id = q.id /\ e0.slot = q.slot /\ e0.event_type = q.at /\ e0.amount = q.amount
      /\ e0.timestamp = q.read
  BY DEF MemberOf, RowOf
<1>5. /\ q.id \in 1..lastId /\ writer[q.id] = Home[r]
      /\ \A e \in events : e.id = q.id => e = e0
  BY DEF MirrorInv, ReportsNamed
<1>6. Near(m0, e0)'
  <2>1. writer'[q.id] = Home[r]
    BY <1>5 DEF PastKept
  <2> QED
    BY <1>1, <1>4, <2>1 DEF Near, CountedAs, InTime
<1>7. \A e \in events : \A m : Near(m, e) => Near(m, e)'
  BY NearKept DEF MirrorInv, Mirrored
<1>8. \A s \in Slots, t \in Types : Live(s, t) \subseteq zsets[s][t]
  BY DEF Live
<1> HIDE DEF m0, e0
<1>9. \A s \in Slots, t \in Types :
         IF s = q.slot /\ t = q.at
         THEN /\ zsets'[s][t] = {x \in Live(s, t) \cup {m0} : x.score > q.stamp - DAY}
              /\ expireAt'[s][t] = now + DAY + Grace
         ELSE /\ zsets'[s][t] = zsets[s][t]
              /\ expireAt'[s][t] = expireAt[s][t]
  BY <1>1, PutEffect DEF m0
<1>10. RowsNamed'
  <2>1. \A e \in events' : e.id \in 1..lastId /\ e.timestamp <= now
    BY <1>1, <1>3, <1>4, <1>5 DEF MirrorInv, Mirrored, RowsNamed, InTime
  <2>2. \A e, f \in events' : e.id = f.id => e = f
    BY <1>3, <1>4, <1>5 DEF MirrorInv, Mirrored, RowsNamed
  <2>3. \A e \in events' : e.id \in 1..lastId' /\ e.timestamp <= now'
    BY <1>2, <2>1 DEF PastKept, RedisTypeOK, QuotaTypeOK
  <2> QED BY <2>2, <2>3 DEF RowsNamed
<1>11. MembersHaveRows'
  <2> SUFFICES ASSUME NEW s \in Slots, NEW t \in Types, NEW m \in zsets'[s][t]
               PROVE  \E e \in events' : e.slot = s /\ e.event_type = t /\ Near(m, e)'
    BY DEF MembersHaveRows
  <2>1. CASE m \in zsets[s][t]
    BY <1>3, <1>7, <2>1 DEF MirrorInv, Mirrored, MembersHaveRows
  <2>2. CASE s = q.slot /\ t = q.at /\ m = m0
    BY <1>3, <1>4, <1>6, <2>2
  <2> QED BY <1>8, <1>9, <2>1, <2>2
<1>12. RowsHaveMembers'
  <2> SUFFICES ASSUME NEW e \in events'
               PROVE  /\ e.timestamp + DAY + Grace <= expireAt'[e.slot][e.event_type]
                      /\ now - e.timestamp < DAY - Skew
                           => \E m \in zsets'[e.slot][e.event_type] : Near(m, e)'
    BY DEF RowsHaveMembers, Age
  <2>1. CASE e = e0
    <3>1. m0 \in zsets'[q.slot][q.at]
      BY <1>2, <1>4, <1>9
    <3> QED BY <1>1, <1>2, <1>4, <1>6, <1>9, <2>1, <3>1 DEF InTime
  <2>2. CASE e \in events /\ ~(e.slot = q.slot /\ e.event_type = q.at)
    <3>1. e.slot \in Slots /\ e.event_type \in Types
      BY <1>2, <2>2 DEF Row, Types
    <3> QED BY <1>7, <1>9, <2>2, <3>1 DEF MirrorInv, Mirrored, RowsHaveMembers, Age
  <2>3. CASE e \in events /\ e.slot = q.slot /\ e.event_type = q.at
    <3>1. e.slot \in Slots /\ e.event_type \in Types /\ e.timestamp \in Nat /\ e.timestamp <= now
      BY <1>2, <2>3 DEF Row, Types, MirrorInv, Mirrored, RowsNamed
    <3>2. e.timestamp + DAY + Grace <= expireAt'[e.slot][e.event_type]
      BY <1>2, <1>9, <2>3, <3>1
    <3>3. ASSUME now - e.timestamp < DAY - Skew
          PROVE  \E m \in zsets'[e.slot][e.event_type] : Near(m, e)'
      <4>1. PICK m \in zsets[e.slot][e.event_type] : Near(m, e)
        BY <2>3, <3>3 DEF MirrorInv, Mirrored, RowsHaveMembers, Age
      <4>2. now < expireAt[e.slot][e.event_type]
        <5>1. e.timestamp + DAY + Grace <= expireAt[e.slot][e.event_type]
          BY <2>3 DEF MirrorInv, Mirrored, RowsHaveMembers
        <5> QED BY <1>2, <3>1, <3>3, <5>1
      <4>3. m \in Live(e.slot, e.event_type)
        BY <4>1, <4>2 DEF Live
      <4>4. m.score > q.stamp - DAY
        <5>1. m.score \in Nat /\ e.timestamp <= m.score
          BY <1>2, <3>1, <4>1 DEF Near, Member
        <5>2. q.stamp <= q.read + Skew /\ q.read <= now
          BY <1>1 DEF InTime
        <5> QED BY <1>2, <3>1, <3>3, <5>1, <5>2
      <4> QED BY <1>7, <1>9, <2>3, <3>1, <4>1, <4>3, <4>4
    <3> QED BY <3>2, <3>3
  <2> QED BY <1>3, <2>1, <2>2, <2>3
<1>13. KeysExpire'
  <2> SUFFICES ASSUME NEW s \in Slots, NEW t \in Types, NEW m \in zsets'[s][t]
               PROVE  expireAt'[s][t] < m.score + 2 * DAY + Grace + MaxDelay
    BY DEF KeysExpire
  <2>1. CASE s = q.slot /\ t = q.at
    <3>1. m.score \in Nat
      BY DEF RedisTypeOK, Member
    <3>2. q.read <= q.stamp /\ now <= q.read + MaxDelay
      BY <1>1 DEF InTime
    <3>3. m.score > q.stamp - DAY /\ expireAt'[s][t] = now + DAY + Grace
      BY <1>9, <2>1
    <3> QED BY <1>2, <3>1, <3>2, <3>3
  <2>2. CASE ~(s = q.slot /\ t = q.at)
    BY <1>9, <2>2 DEF MirrorInv, Mirrored, KeysExpire
  <2> QED BY <2>1, <2>2
<1>14. AllFinite'
  <2>1. IsFiniteSet(events')
    BY <1>3, FS_AddElement DEF MirrorInv, Mirrored, AllFinite
  <2>2. ASSUME NEW s \in Slots, NEW t \in Types PROVE IsFiniteSet(zsets'[s][t])
    <3>1. IsFiniteSet(zsets[s][t] \cup {m0})
      BY FS_AddElement DEF MirrorInv, Mirrored, AllFinite
    <3>2. zsets'[s][t] \subseteq zsets[s][t] \cup {m0}
      BY <1>8, <1>9
    <3> QED BY <3>1, <3>2, FS_Subset
  <2> QED BY <2>1, <2>2 DEF AllFinite
<1> QED
  BY <1>10, <1>11, <1>12, <1>13, <1>14 DEF Mirrored

\* So does every other step.
LEMMA QuietMirrored ==
  ASSUME MirrorInv, RedisTypeOK', PastKept, UNCHANGED <<zsets, expireAt, events>>
  PROVE  Mirrored'
<1>1. /\ now \in Nat /\ now' \in Nat /\ lastId \in Nat /\ lastId' \in Nat /\ events \subseteq Row
      /\ DAY \in Nat /\ Skew \in Nat
  BY TimeConstants DEF MirrorInv, RedisTypeOK, QuotaTypeOK
<1>2. \A e \in events : \A m : Near(m, e) => Near(m, e)'
  BY NearKept DEF MirrorInv, Mirrored
<1>3. RowsNamed'
  <2> SUFFICES ASSUME NEW e \in events
               PROVE  e.id \in 1..lastId' /\ e.timestamp <= now'
    BY DEF RowsNamed, MirrorInv, Mirrored
  <2>1. e.id \in 1..lastId /\ e.timestamp <= now /\ e.timestamp \in Nat
    BY <1>1 DEF MirrorInv, Mirrored, RowsNamed, Row
  <2> QED BY <1>1, <2>1 DEF PastKept
<1>4. MembersHaveRows'
  BY <1>2 DEF MirrorInv, Mirrored, MembersHaveRows
<1>5. RowsHaveMembers'
  <2> SUFFICES ASSUME NEW e \in events
               PROVE  /\ e.timestamp + DAY + Grace <= expireAt[e.slot][e.event_type]
                      /\ now' - e.timestamp < DAY - Skew
                           => \E m \in zsets[e.slot][e.event_type] : Near(m, e)'
    BY DEF RowsHaveMembers, Age
  <2>1. e.timestamp \in Nat
    BY <1>1 DEF Row
  <2>2. now' - e.timestamp < DAY - Skew => Age(e) < DAY - Skew
    BY <1>1, <2>1 DEF Age, PastKept
  <2> QED
    BY <1>2, <2>2 DEF MirrorInv, Mirrored, RowsHaveMembers
<1>6. KeysExpire' /\ AllFinite'
  BY DEF MirrorInv, Mirrored, KeysExpire, AllFinite
<1> QED
  BY <1>3, <1>4, <1>5, <1>6 DEF Mirrored

\* The mirror is an invariant.
LEMMA MirrorInvariant == RedisSpec => []MirrorInv
<1>1. RedisInit => MirrorInv
  <2> SUFFICES ASSUME RedisInit PROVE MirrorInv
    OBVIOUS
  <2>1. \A r \in Reqs : ~Asking(r) /\ ~Reporting(r)
    BY DEF RedisInit, Idle, Asking, Reporting, Types
  <2>2. events = {} /\ \A s \in Slots, t \in Types : zsets[s][t] = {}
    BY DEF RedisInit, QuotaInit
  <2>3. Mirrored
    BY <2>2, FS_EmptySet
       DEF Mirrored, RowsNamed, MembersHaveRows, RowsHaveMembers, KeysExpire, AllFinite
  <2>4. Timely /\ ReportsNamed
    BY <2>1 DEF Timely, ReportsNamed
  <2>5. RedisTypeOK
    <3>1. QuotaTypeOK
      BY DEF RedisInit, QuotaInit, QuotaTypeOK
    <3>2. writer \in Seq(Procs) /\ Len(writer) = lastId
      BY DEF RedisInit, QuotaInit
    <3> QED BY <3>1, <3>2 DEF RedisInit, RedisTypeOK
  <2> QED BY <2>3, <2>4, <2>5 DEF MirrorInv
<1>2. RedisTypeOK /\ RedisTypeOK' /\ MirrorInv /\ [RedisNext]_redisVars => MirrorInv'
  <2> SUFFICES ASSUME RedisTypeOK, RedisTypeOK', MirrorInv, [RedisNext]_redisVars
               PROVE  MirrorInv'
    OBVIOUS
  <2>1. PastKept
    BY StepKinds
  <2>2. Mirrored'
    BY <2>1, StepKinds, QuietMirrored, ExecutesMirrored
  <2>3. Timely' /\ ReportsNamed'
    BY TimelyStep, ReportsNamedStep DEF MirrorInv, Mirrored
  <2> QED BY <2>2, <2>3 DEF MirrorInv
<1> QED
  BY <1>1, <1>2, RedisTypeCorrect, PTL DEF RedisSpec

\* Whatever the clocks, the delays and the pruning by other hosts, every process
\* counts the rows that it should, but for those whose age is within the skew of a
\* boundary, and nothing else.
THEOREM SortedSetsAgree == RedisSpec => []AgreesUpToSkew
<1>1. MirrorInv => AgreesUpToSkew
  <2> SUFFICES ASSUME MirrorInv, NEW p \in Procs, NEW s \in Slots, NEW t \in Types, NEW w \in Windows
               PROVE  /\ \A e \in {f \in events : f.slot = s /\ f.event_type = t} :
                            Skew <= Age(e) /\ Age(e) < w - Skew
                              => \E m \in Counted(s, t, Clock(p), w) : CountedAs(m, e)
                      /\ \A m \in Counted(s, t, Clock(p), w) :
                            \E e \in {f \in events : f.slot = s /\ f.event_type = t} :
                               CountedAs(m, e) /\ Age(e) <= w + Skew
    BY DEF AgreesUpToSkew
  <2>1. /\ now \in Nat /\ offset[p] \in 0..Skew /\ Skew \in Nat /\ Grace \in Nat
        /\ w \in Nat /\ DAY \in Nat /\ w <= DAY
        /\ events \subseteq Row /\ zsets[s][t] \subseteq Member /\ expireAt[s][t] \in Nat
    BY TimeConstants DEF MirrorInv, RedisTypeOK, QuotaTypeOK
  <2>2. ASSUME NEW e \in events, e.slot = s, e.event_type = t, Skew <= Age(e), Age(e) < w - Skew
        PROVE  \E m \in Counted(s, t, Clock(p), w) : CountedAs(m, e)
    <3>1. e.timestamp \in Nat /\ e.timestamp + DAY + Grace <= expireAt[s][t]
      BY <2>1, <2>2 DEF Row, MirrorInv, Mirrored, RowsHaveMembers
    <3>2. Age(e) < DAY - Skew
      BY <2>1, <2>2, <3>1 DEF Age
    <3>3. PICK m \in zsets[s][t] : Near(m, e)
      BY <2>2, <3>2 DEF MirrorInv, Mirrored, RowsHaveMembers
    <3>4. m.score \in Nat /\ e.timestamp <= m.score /\ m.score <= e.timestamp + Skew
      BY <2>1, <3>3 DEF Near, Member
    <3>5. now < expireAt[s][t] /\ Clock(p) - w <= m.score /\ m.score <= Clock(p)
      BY <2>1, <2>2, <3>1, <3>4 DEF Age, Clock
    <3> QED BY <3>3, <3>5 DEF Counted, Live, Near
  <2>3. ASSUME NEW m \in Counted(s, t, Clock(p), w)
        PROVE  \E e \in events : /\ e.slot = s /\ e.event_type = t
                                 /\ CountedAs(m, e) /\ Age(e) <= w + Skew
    <3>1. m \in zsets[s][t] /\ Clock(p) - w <= m.score
      BY DEF Counted, Live
    <3>2. PICK e \in events : e.slot = s /\ e.event_type = t /\ Near(m, e)
      BY <3>1 DEF MirrorInv, Mirrored, MembersHaveRows
    <3>3. e.timestamp \in Nat /\ m.score \in Nat /\ m.score <= e.timestamp + Skew
      BY <2>1, <3>1, <3>2 DEF Near, Row, Member
    <3>4. Age(e) <= w + Skew
      BY <2>1, <3>1, <3>3 DEF Age, Clock
    <3> QED BY <3>2, <3>4 DEF Near
  <2> QED BY <2>2, <2>3
<1> QED
  BY <1>1, MirrorInvariant, PTL

\* The time to live of a key, renewed by every write, keeps no member longer than
\* pruning and expiry allow together.
THEOREM SortedSetsExpire == RedisSpec => []RowsExpire
<1>1. MirrorInv => RowsExpire
  <2> SUFFICES ASSUME MirrorInv, NEW s \in Slots, NEW t \in Types, NEW m \in Live(s, t),
                      NEW e \in events, e.id = m.id
               PROVE  expireAt[s][t] < e.timestamp + 2 * DAY + Grace + Skew + MaxDelay
    BY DEF RowsExpire
  <2>1. /\ Skew \in Nat /\ Grace \in Nat /\ DAY \in Nat /\ MaxDelay \in Nat
        /\ events \subseteq Row /\ zsets[s][t] \subseteq Member /\ expireAt[s][t] \in Nat
    BY TimeConstants DEF MirrorInv, RedisTypeOK, QuotaTypeOK
  <2>2. m \in zsets[s][t]
    BY DEF Live
  <2>3. PICK f \in events : f.slot = s /\ f.event_type = t /\ Near(m, f)
    BY <2>2 DEF MirrorInv, Mirrored, MembersHaveRows
  <2>4. e = f
    BY <2>3 DEF MirrorInv, Mirrored, RowsNamed, Near, CountedAs
  <2>5. e.timestamp \in Nat /\ m.score \in Nat /\ m.score <= e.timestamp + Skew
    BY <2>1, <2>2, <2>3, <2>4 DEF Near, Row, Member
  <2>6. expireAt[s][t] < m.score + 2 * DAY + Grace + MaxDelay
    BY <2>2 DEF MirrorInv, Mirrored, KeysExpire
  <2> QED BY <2>1, <2>5, <2>6
<1> QED
  BY <1>1, MirrorInvariant, PTL

-----------------------------------------------------------------------------
(* The shared limit                                                        *)

\* The rows of group G on c's slot that a check of the clock at t will find
Early(evs, wr, G, c, t) == {e \in evs :
  /\ e.slot = c.slot /\ e.event_type = "request" /\ wr[e.id] \in G
  /\ t - Horizon(c) < e.timestamp /\ e.timestamp <= t}

\* The query whose answer is compared with the request limit
Deciding(c) == IF c.rpm # NoLimit THEN 1 ELSE 3

\* The checks for c's slot that have passed that query, or may still do so.  What a
\* check will find never becomes less, so that hope is never gained but by reading
\* the clock.
Hopeful(G, c) == {r \in ServedBy(G) :
  /\ Asking(r) /\ req[r].cand.slot = c.slot
  /\ req[r].query <= Deciding(c)
       => Cardinality(Early(events, writer, G, c, req[r].read)) < RequestLimit(c)}

Active(G, c) == Pending(G, c.slot) \cup Hopeful(G, c)

Recent(G, c) == RecordedBy(G, c.slot, Horizon(c))

SharedLoad(G, c) == Cardinality(Recent(G, c)) + Cardinality(Active(G, c))

SharedInv == \A c \in Candidates : Loosest(c) => \A G \in Groups :
  SharedLoad(G, c) < RequestLimit(c) + Cardinality(ServedBy(G))

LEMMA HorizonFacts ==
  ASSUME NEW c \in Candidates, Loosest(c)
  PROVE  /\ Horizon(c) \in Int
         /\ Horizon(c) <= RequestWindow(c) /\ Horizon(c) <= DAY - Skew - MaxDelay
         /\ RequestWindow(c) \in {MINUTE, DAY} /\ RequestLimit(c) \in Nat
<1>1. c \in Candidate /\ RequestLimit(c) # NoLimit
  BY QuotaAssumption DEF QuotaAssumption, Loosest
<1>2. RequestLimit(c) \in Nat /\ RequestWindow(c) \in {MINUTE, DAY}
  BY <1>1 DEF Candidate, Limit, RequestLimit, RequestWindow
<1> DEFINE a == RequestWindow(c)
           b == DAY - Skew - MaxDelay
<1>3. a \in Int /\ b \in Int
  BY <1>2, TimeConstants
<1> HIDE DEF a, b
<1>4. \E x \in {a, b} : \A y \in {a, b} : x <= y
  BY <1>3
<1>5. Min({a, b}) \in {a, b} /\ \A y \in {a, b} : Min({a, b}) <= y
  BY <1>4 DEF Min
<1> QED
  BY <1>2, <1>3, <1>5 DEF Horizon, a, b

\* A check that passes the deciding query has found all the early rows, and they
\* are fewer than the limit allows.
LEMMA DecidingQuery ==
  ASSUME MirrorInv, NEW c \in Candidates, Loosest(c), NEW G \in Groups,
         NEW r \in ServedBy(G), Asking(r), req[r].cand.slot = c.slot,
         req[r].query = Deciding(c), Passes(req[r].cand, req[r].query, req[r].stamp)
  PROVE  Cardinality(Early(events, writer, G, c, req[r].read)) < RequestLimit(c)
<1> DEFINE d == req[r].cand
           stamp == req[r].stamp
           read == req[r].read
           w == RequestWindow(c)
           answer == Counted(c.slot, "request", stamp, w)
           early == Early(events, writer, G, c, read)
<1>0. r \in Reqs /\ Home[r] \in G /\ G \subseteq steady
  BY DEF ServedBy, Groups
<1>1. /\ req[r] \in Check /\ InTime(r) /\ RedisTypeOK /\ Home[r] \in Procs
      /\ c.slot \in Slots /\ "request" \in Types
  BY <1>0, Kinds, QuotaAssumption
     DEF MirrorInv, Timely, QuotaAssumption, Candidate, Types
<1>2. /\ d \in Candidates /\ d.slot = c.slot /\ stamp \in Nat /\ read \in Nat
      /\ read <= now /\ now <= read + MaxDelay /\ stamp = read + offset[Home[r]]
  BY <1>0, <1>1 DEF Check, InTime
<1>3. /\ RequestLimit(d) # NoLimit /\ RequestWindow(d) = w /\ RequestLimit(d) <= RequestLimit(c)
      /\ RequestLimit(d) \in Nat
  <2>1. /\ RequestLimit(d) # NoLimit /\ RequestWindow(d) = w /\ RequestLimit(d) <= RequestLimit(c)
    BY <1>2 DEF Loosest
  <2>2. d \in Candidate
    BY <1>2, QuotaAssumption DEF QuotaAssumption
  <2> QED BY <2>1, <2>2 DEF Candidate, Limit, RequestLimit
<1>4. Queries[Deciding(c)] = <<"request", w>>
  BY DEF Queries, Deciding, RequestWindow
<1>5. Cardinality(answer) < RequestLimit(d)
  BY <1>2, <1>3, <1>4 DEF Passes
<1>6. IsFiniteSet(answer) /\ IsFiniteSet(early)
  <2>1. answer \subseteq zsets[c.slot]["request"]
    BY DEF Counted, Live
  <2>2. early \subseteq events
    BY DEF Early
  <2> QED BY <1>1, <2>1, <2>2, FS_Subset DEF MirrorInv, Mirrored, AllFinite
<1>7. ASSUME NEW e \in early PROVE \E m \in answer : Near(m, e)
  <2>1. /\ e \in events /\ e.slot = c.slot /\ e.event_type = "request" /\ writer[e.id] \in G
        /\ read - Horizon(c) < e.timestamp /\ e.timestamp <= read
    BY <1>7 DEF Early
  <2>2. /\ e.timestamp \in Nat /\ now \in Nat /\ w \in Nat /\ Horizon(c) \in Int
        /\ Horizon(c) <= w /\ Horizon(c) <= DAY - Skew - MaxDelay
        /\ DAY \in Nat /\ Skew \in Nat /\ MaxDelay \in Nat /\ Grace \in Nat
        /\ expireAt[c.slot]["request"] \in Nat
        /\ offset[Home[r]] \in Nat
    <3>1. e.timestamp \in Nat /\ now \in Nat
      BY <1>1, <2>1 DEF RedisTypeOK, QuotaTypeOK, Row
    <3>2. /\ w \in Nat /\ Horizon(c) \in Int
          /\ Horizon(c) <= w /\ Horizon(c) <= DAY - Skew - MaxDelay
      BY TimeConstants, HorizonFacts
    <3>3. expireAt[c.slot]["request"] \in Nat /\ offset[Home[r]] \in Nat
      BY <1>1, TimeConstants DEF RedisTypeOK
    <3> QED BY <3>1, <3>2, <3>3, TimeConstants
  <2>3. Age(e) < DAY - Skew
    BY <1>2, <2>1, <2>2 DEF Age
  <2>4. PICK m \in zsets[c.slot]["request"] : Near(m, e)
    BY <2>1, <2>3 DEF MirrorInv, Mirrored, RowsHaveMembers
  <2>5. now < expireAt[c.slot]["request"]
    <3>1. e.timestamp + DAY + Grace <= expireAt[c.slot]["request"]
      BY <2>1 DEF MirrorInv, Mirrored, RowsHaveMembers
    <3> QED BY <2>2, <2>3, <3>1 DEF Age
  <2>6. m.score = e.timestamp + offset[Home[r]]
    <3>1. offset[writer[e.id]] = offset[Home[r]]
      BY <1>0, <2>1 DEF Groups
    <3> QED BY <1>0, <2>1, <2>4, <3>1 DEF Near
  <2>7. stamp - w <= m.score /\ m.score <= stamp
    BY <1>2, <2>1, <2>2, <2>6
  <2> QED BY <2>4, <2>5, <2>7 DEF Counted, Live
<1>8. Cardinality(early) <= Cardinality(answer)
  <2> DEFINE f == [e \in early |-> CHOOSE m \in answer : Near(m, e)]
  <2>1. \A e \in early : f[e] \in answer /\ Near(f[e], e)
    BY <1>7
  <2>2. f \in [early -> answer]
    BY <2>1
  <2>3. ASSUME NEW x \in early, NEW y \in early, f[x] = f[y] PROVE x = y
    <3>1. x.id = y.id
      BY <2>1, <2>3 DEF Near, CountedAs
    <3>2. x \in events /\ y \in events
      BY DEF Early
    <3> QED BY <3>1, <3>2 DEF MirrorInv, Mirrored, RowsNamed
  <2> HIDE DEF f, early, answer
  <2>4. ~(Cardinality(answer) < Cardinality(early))
    BY <1>6, <2>2, <2>3, FS_PigeonHole
  <2>5. Cardinality(answer) \in Nat /\ Cardinality(early) \in Nat
    BY <1>6, FS_CardinalityType
  <2> QED BY <2>4, <2>5
<1>9. Cardinality(answer) \in Nat /\ Cardinality(early) \in Nat
  BY <1>6, FS_CardinalityType
<1> HIDE DEF answer, early
<1> QED
  BY <1>3, <1>5, <1>8, <1>9, HorizonFacts DEF early

\* What is counted is finite.
LEMMA LoadType ==
  ASSUME IsFiniteSet(events), NEW G, NEW c
  PROVE  /\ IsFiniteSet(Recent(G, c)) /\ Cardinality(Recent(G, c)) \in Nat
         /\ IsFiniteSet(Active(G, c)) /\ Cardinality(Active(G, c)) \in Nat
         /\ Active(G, c) \subseteq ServedBy(G)
         /\ IsFiniteSet(ServedBy(G)) /\ Cardinality(ServedBy(G)) \in Nat
         /\ Cardinality(Active(G, c)) <= Cardinality(ServedBy(G))
<1>1. Recent(G, c) \subseteq events
  BY DEF Recent, RecordedBy, RowsOf, InWindow
<1>2. Active(G, c) \subseteq ServedBy(G)
  BY DEF Active, Pending, Hopeful
<1>3. IsFiniteSet(ServedBy(G))
  BY RedisAssumption, FS_Subset DEF RedisAssumption, ServedBy
<1>4. IsFiniteSet(Recent(G, c)) /\ IsFiniteSet(Active(G, c))
      /\ Cardinality(Active(G, c)) <= Cardinality(ServedBy(G))
  BY <1>1, <1>2, <1>3, FS_Subset
<1> QED
  BY <1>2, <1>3, <1>4, FS_CardinalityType

\* What a check will find never becomes less.
LEMMA EarlyGrows ==
  ASSUME RowsNamed, PastKept, events \subseteq events', IsFiniteSet(events'),
         NEW G, NEW c, NEW t
  PROVE  /\ Cardinality(Early(events, writer, G, c, t)) \in Nat
         /\ Cardinality(Early(events', writer', G, c, t)) \in Nat
         /\ Cardinality(Early(events, writer, G, c, t))
              <= Cardinality(Early(events', writer', G, c, t))
<1>1. Early(events, writer, G, c, t) \subseteq Early(events', writer', G, c, t)
  BY DEF Early, RowsNamed, PastKept
<1>2. IsFiniteSet(Early(events', writer', G, c, t))
  BY FS_Subset DEF Early
<1> QED
  BY <1>1, <1>2, FS_Subset, FS_CardinalityType

\* A request that the step leaves alone is not active anew.
LEMMA KeepsActive ==
  ASSUME RowsNamed, PastKept, events \subseteq events', IsFiniteSet(events'),
         NEW c \in Candidates, Loosest(c), NEW G, NEW r \in Active(G, c)', req'[r] = req[r]
  PROVE  r \in Active(G, c)
<1>1. CASE r \in Pending(G, c.slot)'
  BY <1>1 DEF Active, Pending, Calling
<1>2. CASE r \in Hopeful(G, c)'
  <2>1. /\ r \in ServedBy(G) /\ Asking(r) /\ req[r].cand.slot = c.slot
        /\ req[r].query <= Deciding(c)
             => Cardinality(Early(events', writer', G, c, req[r].read)) < RequestLimit(c)
    BY <1>2 DEF Hopeful, Asking
  <2>2. req[r].query <= Deciding(c)
             => Cardinality(Early(events, writer, G, c, req[r].read)) < RequestLimit(c)
    BY <2>1, EarlyGrows, HorizonFacts
  <2> QED BY <2>1, <2>2 DEF Active, Hopeful
<1> QED BY <1>1, <1>2 DEF Active

\* With the table left alone and no request active anew, the load does not grow.
LEMMA QuietLoad ==
  ASSUME RedisTypeOK, RedisTypeOK', RowsNamed, IsFiniteSet(events), PastKept,
         UNCHANGED events,
         NEW c \in Candidates, Loosest(c), NEW G,
         Active(G, c)' \subseteq Active(G, c)
  PROVE  SharedLoad(G, c)' <= SharedLoad(G, c)
<1> DEFINE h == Horizon(c)
<1>1. h \in Int /\ now \in Nat /\ now' \in Nat /\ events \subseteq Row
  BY HorizonFacts DEF RedisTypeOK, QuotaTypeOK
<1> HIDE DEF h
<1>2. Recent(G, c)' \subseteq Recent(G, c)
  <2> SUFFICES ASSUME NEW e \in events, e.slot = c.slot, e.timestamp > now' - h,
                      e.event_type = "request", writer'[e.id] \in G
               PROVE  e.timestamp > now - h /\ writer[e.id] \in G
    BY DEF Recent, RecordedBy, RowsOf, InWindow, h
  <2>1. e.timestamp \in Nat
    BY <1>1 DEF Row
  <2> QED BY <1>1, <2>1 DEF PastKept, RowsNamed
<1> DEFINE C1 == Recent(G, c)
           K1 == Active(G, c)
<1>3. /\ IsFiniteSet(C1) /\ Cardinality(C1) \in Nat
      /\ IsFiniteSet(K1) /\ Cardinality(K1) \in Nat
  BY LoadType
<1>4. /\ IsFiniteSet(C1') /\ Cardinality(C1') <= Cardinality(C1)
      /\ IsFiniteSet(K1') /\ Cardinality(K1') <= Cardinality(K1)
  BY <1>2, <1>3, FS_Subset
<1>5. Cardinality(C1') \in Nat /\ Cardinality(K1') \in Nat
  BY <1>4, FS_CardinalityType
<1>6. Cardinality(C1') + Cardinality(K1') <= Cardinality(C1) + Cardinality(K1)
  BY <1>3, <1>4, <1>5
<1> QED
  BY <1>6 DEF SharedLoad

\* The pipeline of a report trades an active request for a row.
LEMMA RecordingLoad ==
  ASSUME MirrorInv, RedisTypeOK', PastKept, UNCHANGED now,
         NEW x \in Reqs, Reporting(x), Executes(req[x]),
         \A r \in Reqs \ {x} : req'[r] = req[r],
         req'[x] = req[x] \/ req'[x].at \notin {"check", "call", "request"},
         NEW c \in Candidates, Loosest(c), NEW G
  PROVE  SharedLoad(G, c)' <= SharedLoad(G, c)
<1> DEFINE row == RowOf(req[x])
           C1 == Recent(G, c)
           K1 == Active(G, c)
<1>1. events' = events \cup {row} /\ IsFiniteSet(events) /\ RowsNamed /\ RedisTypeOK
  BY DEF Executes, MirrorInv, Mirrored, AllFinite
<1>2. IsFiniteSet(events')
  BY <1>1, FS_AddElement
<1>3. K1' \subseteq K1
  <2> SUFFICES ASSUME NEW r \in K1' PROVE r \in K1
    OBVIOUS
  <2>1. CASE req'[r] = req[r]
    BY <1>1, <1>2, <2>1, KeepsActive
  <2>2. CASE r = x /\ req'[x].at \notin {"check", "call", "request"}
    BY <2>2 DEF Active, Pending, Hopeful, Calling, Asking
  <2>3. r \in Reqs
    BY DEF Active, Pending, Hopeful, ServedBy
  <2> QED BY <2>1, <2>2, <2>3
<1>4. /\ IsFiniteSet(C1) /\ Cardinality(C1) \in Nat
      /\ IsFiniteSet(K1) /\ Cardinality(K1) \in Nat
  BY <1>1, LoadType
<1>5. CASE row \in events
  <2>1. events' = events
    BY <1>1, <1>5
  <2> QED BY <1>1, <1>3, <2>1, QuietLoad
<1>6. CASE row \notin events /\ row \in C1'
  <2>1. /\ req[x].at = "request" /\ req[x].slot = c.slot /\ writer'[req[x].id] \in G
    BY <1>6 DEF RowOf, Recent, RecordedBy, RowsOf, InWindow
  <2>2. x \in ServedBy(G)
    <3>1. req[x].id \in 1..lastId /\ writer[req[x].id] = Home[x]
      BY DEF MirrorInv, ReportsNamed
    <3> QED BY <2>1, <3>1 DEF PastKept, ServedBy
  <2>3. x \in K1
    BY <1>6, <2>1, <2>2 DEF Active, Pending
  <2>4. x \notin K1'
    <3>1. CASE req'[x] = req[x]
      <4>1. RowOf(req'[x]) \in events'
        BY <1>1, <3>1
      <4> QED BY <2>1, <3>1, <4>1 DEF Active, Pending, Hopeful, Calling, Asking
    <3>2. CASE req'[x].at \notin {"check", "call", "request"}
      BY <3>2 DEF Active, Pending, Hopeful, Calling, Asking
    <3> QED BY <3>1, <3>2
  <2>5. C1' \subseteq C1 \cup {row}
    BY <1>1 DEF Recent, RecordedBy, RowsOf, InWindow, PastKept, RowsNamed
  <2>6. IsFiniteSet(C1 \cup {row}) /\ Cardinality(C1 \cup {row}) \in {Cardinality(C1), Cardinality(C1) + 1}
    BY <1>4, FS_AddElement
  <2>7. IsFiniteSet(K1 \ {x}) /\ Cardinality(K1 \ {x}) = Cardinality(K1) - 1
    BY <1>4, <2>3, FS_RemoveElement
  <2>8. /\ IsFiniteSet(C1') /\ Cardinality(C1') <= Cardinality(C1 \cup {row})
        /\ IsFiniteSet(K1') /\ Cardinality(K1') <= Cardinality(K1 \ {x})
    BY <1>3, <2>4, <2>5, <2>6, <2>7, FS_Subset
  <2>9. Cardinality(C1') \in Nat /\ Cardinality(K1') \in Nat
    BY <2>8, FS_CardinalityType
  <2> HIDE DEF C1, K1
  <2>10. Cardinality(C1') + Cardinality(K1') <= Cardinality(C1) + Cardinality(K1)
    BY <1>4, <2>6, <2>7, <2>8, <2>9
  <2> QED BY <2>10 DEF SharedLoad, C1, K1
<1>7. CASE row \notin C1'
  <2>1. C1' \subseteq C1
    BY <1>1, <1>7 DEF Recent, RecordedBy, RowsOf, InWindow, PastKept, RowsNamed
  <2>2. /\ IsFiniteSet(C1') /\ Cardinality(C1') <= Cardinality(C1)
        /\ IsFiniteSet(K1') /\ Cardinality(K1') <= Cardinality(K1)
    BY <1>3, <1>4, <2>1, FS_Subset
  <2>3. Cardinality(C1') \in Nat /\ Cardinality(K1') \in Nat
    BY <2>2, FS_CardinalityType
  <2> HIDE DEF C1, K1
  <2>4. Cardinality(C1') + Cardinality(K1') <= Cardinality(C1) + Cardinality(K1)
    BY <1>4, <2>2, <2>3
  <2> QED BY <2>4 DEF SharedLoad, C1, K1
<1> QED
  BY <1>5, <1>6, <1>7

\* A check that has just read the clock and may pass has seen everything recent.
LEMMA FreshHope ==
  ASSUME RedisTypeOK, RowsNamed, IsFiniteSet(events), PastKept, UNCHANGED <<now, events>>,
         NEW c \in Candidates, Loosest(c), NEW G, NEW r \in Active(G, c)',
         req'[r].at = "check", req'[r].read = now, req'[r].query <= Deciding(c)
  PROVE  Cardinality(Recent(G, c)') < RequestLimit(c)
<1>1. Cardinality(Early(events', writer', G, c, now)) < RequestLimit(c)
  BY DEF Active, Pending, Hopeful, Calling, Asking
<1>2. Recent(G, c)' \subseteq Early(events', writer', G, c, now)
  <2> SUFFICES ASSUME NEW e \in events, e.timestamp > now - Horizon(c)
               PROVE  now - Horizon(c) < e.timestamp /\ e.timestamp <= now
    BY DEF Recent, RecordedBy, RowsOf, InWindow, Early
  <2>1. e.timestamp \in Nat /\ now \in Nat /\ e.timestamp <= now
    BY DEF RedisTypeOK, QuotaTypeOK, Row, RowsNamed
  <2> QED BY <2>1, HorizonFacts
<1>3. IsFiniteSet(Early(events', writer', G, c, now))
  BY FS_Subset DEF Early
<1>4. Cardinality(Recent(G, c)') <= Cardinality(Early(events', writer', G, c, now))
  BY <1>2, <1>3, FS_Subset
<1>5. /\ Cardinality(Recent(G, c)') \in Nat
      /\ Cardinality(Early(events', writer', G, c, now)) \in Nat
      /\ RequestLimit(c) \in Nat
  BY <1>2, <1>3, FS_Subset, FS_CardinalityType, HorizonFacts
<1> QED
  BY <1>1, <1>4, <1>5

\* The load of a group grows only when a check reads the clock, and then the rows
\* alone are below the limit.
LEMMA LoadStep ==
  ASSUME MirrorInv, MirrorInv', [RedisNext]_redisVars,
         NEW c \in Candidates, Loosest(c), NEW G \in Groups
  PROVE  \/ SharedLoad(G, c)' <= SharedLoad(G, c)
         \/ Cardinality(Recent(G, c)') < RequestLimit(c)
<1> DEFINE Goal == \/ SharedLoad(G, c)' <= SharedLoad(G, c)
                   \/ Cardinality(Recent(G, c)') < RequestLimit(c)
<1>0. /\ RedisTypeOK /\ RedisTypeOK' /\ RowsNamed /\ IsFiniteSet(events) /\ PastKept
      /\ req \in [Reqs -> Check \cup Call \cup Report \cup {Idle}]
  BY StepKinds DEF MirrorInv, Mirrored, AllFinite, RedisTypeOK
<1>1. ASSUME UNCHANGED events,
             \A q \in Reqs : req'[q] = req[q] \/ q \in Active(G, c) \/ q \notin Active(G, c)'
      PROVE  Goal
  <2> SUFFICES Active(G, c)' \subseteq Active(G, c)
    BY <1>0, <1>1, QuietLoad
  <2> SUFFICES ASSUME NEW q \in Active(G, c)', req'[q] = req[q] PROVE q \in Active(G, c)
    BY <1>1 DEF Active, Pending, Hopeful, ServedBy
  <2> QED
    BY <1>0, <1>1, KeepsActive
<1>2. ASSUME NEW q \in Reqs, req'[q] = Idle PROVE q \notin Active(G, c)'
  BY <1>2 DEF Active, Pending, Hopeful, Calling, Asking, Idle
<1>3. ASSUME NEW r \in Reqs, UNCHANGED events, req' = [req EXCEPT ![r] = Idle] PROVE Goal
  <2>1. \A q \in Reqs : req'[q] = req[q] \/ req'[q] = Idle
    BY <1>0, <1>3
  <2> QED BY <1>1, <1>2, <1>3, <2>1
<1>4. ASSUME NEW r \in Reqs, NEW d \in Candidates, StartCheck(r, d) PROVE Goal
  <2>1. \A q \in Reqs \ {r} : req'[q] = req[q]
    BY <1>0, <1>4 DEF StartCheck
  <2>2. req'[r].at = "check" /\ req'[r].read = now /\ req'[r].query <= Deciding(c)
    BY <1>0, <1>4 DEF StartCheck, Deciding
  <2>3. CASE r \in Active(G, c)'
    BY <1>0, <1>4, <2>2, <2>3, FreshHope DEF StartCheck
  <2>4. CASE r \notin Active(G, c)'
    BY <1>1, <1>4, <2>1, <2>4 DEF StartCheck
  <2> QED BY <2>3, <2>4
<1>5. ASSUME NEW r \in Reqs, Query(r) PROVE Goal
  <2> DEFINE q == req[r]
  <2>1. q \in Check /\ Asking(r)
    BY <1>5, Kinds, <1>0 DEF Query
  <2>2. UNCHANGED <<now, events, lastId, writer>>
    BY <1>5 DEF Query
  <2>3. CASE req' = [req EXCEPT ![r] = Idle]
    BY <1>3, <2>2, <2>3
  <2>4. CASE Passes(q.cand, q.query, q.stamp) /\ q.query \in {1, 3}
             /\ req' = [req EXCEPT ![r].query = @ + 1]
    <3>1. \A x \in Reqs \ {r} : req'[x] = req[x]
      BY <1>0, <2>4
    <3>2. /\ req'[r].at = "check" /\ req'[r].cand = q.cand /\ req'[r].read = q.read
          /\ req'[r].query = q.query + 1
      BY <1>0, <2>1, <2>4 DEF Check
    <3>3. ASSUME r \in Active(G, c)' PROVE r \in Active(G, c)
      <4>1. /\ r \in ServedBy(G) /\ q.cand.slot = c.slot
            /\ q.query + 1 <= Deciding(c)
                => Cardinality(Early(events, writer, G, c, q.read)) < RequestLimit(c)
        BY <2>2, <3>2, <3>3 DEF Active, Pending, Hopeful, Calling, Asking
      <4>2. q.query = Deciding(c)
                => Cardinality(Early(events, writer, G, c, q.read)) < RequestLimit(c)
        BY <2>1, <2>4, <4>1, DecidingQuery
      <4>3. q.query <= Deciding(c) => q.query + 1 <= Deciding(c) \/ q.query = Deciding(c)
        BY <2>4 DEF Deciding
      <4> QED BY <2>1, <4>1, <4>2, <4>3 DEF Active, Hopeful
    <3> QED BY <1>1, <2>2, <3>1, <3>3
  <2>5. CASE q.query = 2
             /\ req' = [req EXCEPT ![r].query = 3, ![r].stamp = Clock(Home[r]), ![r].read = now]
    <3>1. \A x \in Reqs \ {r} : req'[x] = req[x]
      BY <1>0, <2>5
    <3>2. /\ req'[r].at = "check" /\ req'[r].cand = q.cand /\ req'[r].read = now
          /\ req'[r].query = 3
      BY <1>0, <2>1, <2>5 DEF Check
    <3>3. CASE Deciding(c) = 1
      <4>1. r \in Active(G, c)' => r \in Active(G, c)
        BY <2>1, <2>5, <3>2, <3>3 DEF Active, Pending, Hopeful, Calling, Asking
      <4> QED BY <1>1, <2>2, <3>1, <4>1
    <3>4. CASE Deciding(c) = 3 /\ r \in Active(G, c)'
      BY <1>0, <2>2, <3>2, <3>4, FreshHope
    <3>5. CASE r \notin Active(G, c)'
      BY <1>1, <2>2, <3>1, <3>5
    <3> QED BY <3>3, <3>4, <3>5 DEF Deciding
  <2>6. CASE q.query = 4 /\ req' = [req EXCEPT ![r] = [at |-> "call", cand |-> q.cand]]
    <3>1. \A x \in Reqs \ {r} : req'[x] = req[x]
      BY <1>0, <2>6
    <3>2. req'[r].at = "call" /\ req'[r].cand = q.cand
      BY <1>0, <2>6
    <3>3. r \in Active(G, c)' => r \in ServedBy(G) /\ q.cand.slot = c.slot
      BY <3>2 DEF Active, Pending, Hopeful, Calling, Asking
    <3>4. r \in Active(G, c)' => r \in Active(G, c)
      BY <2>1, <2>6, <3>3 DEF Active, Hopeful, Deciding
    <3> QED BY <1>1, <2>2, <3>1, <3>4
  <2> QED
    BY <1>5, <2>3, <2>4, <2>5, <2>6 DEF Query
<1>6. ASSUME NEW r \in Reqs, NEW n \in TokenCounts, CallSucceeds(r, n) PROVE Goal
  <2>1. \A x \in Reqs \ {r} : req'[x] = req[x]
    BY <1>0, <1>6 DEF CallSucceeds, BeginReport
  <2>2. /\ req'[r].at = "request" /\ req'[r].slot = req[r].cand.slot /\ Calling(r)
        /\ UNCHANGED events
    BY <1>0, <1>6 DEF CallSucceeds, BeginReport
  <2>3. r \in Active(G, c)' => r \in Active(G, c)
    BY <2>2 DEF Active, Pending, Hopeful, Calling, Asking
  <2> QED BY <1>1, <2>1, <2>2, <2>3
<1>7. ASSUME NEW r \in Reqs, CallFails(r) PROVE Goal
  BY <1>3, <1>7 DEF CallFails
<1>8. ASSUME NEW r \in Reqs, Recorded(r) PROVE Goal
  <2>1. \A x \in Reqs \ {r} : req'[x] = req[x]
    BY <1>0, <1>8 DEF Recorded, BeginReport
  <2>2. req'[r].at \in {"tokens", "idle"}
    BY <1>0, <1>8 DEF Recorded, BeginReport, Idle
  <2> QED BY <1>0, <1>8, <2>1, <2>2, RecordingLoad DEF Recorded
<1>9. ASSUME NEW r \in Reqs, Resend(r) PROVE Goal
  BY <1>0, <1>9, RecordingLoad DEF Resend
<1>10. ASSUME NEW r \in Reqs, CommandRaises(r) PROVE Goal
  <2>1. CASE UNCHANGED <<zsets, expireAt, events>>
    BY <1>3, <1>10, <2>1 DEF CommandRaises
  <2>2. CASE Reporting(r) /\ Executes(req[r])
    <3>1. \A x \in Reqs \ {r} : req'[x] = req[x]
      BY <1>0, <1>10 DEF CommandRaises
    <3>2. req'[r].at = "idle"
      BY <1>0, <1>10 DEF CommandRaises, Idle
    <3> QED BY <1>0, <1>10, <2>2, <3>1, <3>2, RecordingLoad DEF CommandRaises
  <2> QED BY <1>10, <2>1, <2>2 DEF CommandRaises
<1>11. ASSUME NEW p \in Procs, CrashProcess(p) PROVE Goal
  <2>1. UNCHANGED events /\ \A q \in Reqs : req'[q] = req[q] \/ req'[q] = Idle
    BY <1>11 DEF CrashProcess
  <2> QED BY <1>1, <1>2, <2>1
<1>12. ASSUME NEW p \in Procs, AdjustClock(p) PROVE Goal
  BY <1>1, <1>12 DEF AdjustClock
<1>13. CASE RedisTick
  BY <1>1, <1>13 DEF RedisTick, Tick
<1>14. CASE UNCHANGED redisVars
  BY <1>1, <1>14 DEF redisVars
<1> QED
  BY <1>4, <1>5, <1>6, <1>7, <1>8, <1>9, <1>10, <1>11, <1>12, <1>13, <1>14 DEF RedisNext

\* Processes whose clocks agree share a limit as the handlers of one process do,
\* for any number of processes and requests, any skew, and any clocks elsewhere.
THEOREM LimitIsShared == RedisSpec => []SharedLimit
<1>1. RedisInit /\ MirrorInv => SharedInv
  <2> SUFFICES ASSUME RedisInit, MirrorInv, NEW c \in Candidates, Loosest(c), NEW G \in Groups
               PROVE  SharedLoad(G, c) < RequestLimit(c) + Cardinality(ServedBy(G))
    BY DEF SharedInv
  <2>1. Recent(G, c) = {}
    BY DEF Recent, RecordedBy, RowsOf, InWindow, RedisInit, QuotaInit
  <2>2. Active(G, c) = {}
    BY DEF Active, Pending, Hopeful, Calling, Asking, RedisInit, Idle, ServedBy
  <2>3. Cardinality(ServedBy(G)) \in Nat /\ Cardinality(ServedBy(G)) # 0
    <3>1. IsFiniteSet(ServedBy(G)) /\ Cardinality(ServedBy(G)) \in Nat
      BY LoadType DEF MirrorInv, Mirrored, AllFinite
    <3> QED BY <3>1, FS_EmptySet DEF Groups
  <2> QED BY <2>1, <2>2, <2>3, FS_EmptySet, HorizonFacts DEF SharedLoad
<1>2. MirrorInv /\ MirrorInv' /\ SharedInv /\ [RedisNext]_redisVars => SharedInv'
  <2> SUFFICES ASSUME MirrorInv, MirrorInv', SharedInv, [RedisNext]_redisVars,
                      NEW c \in Candidates, Loosest(c), NEW G \in Groups'
               PROVE  SharedLoad(G, c)' < RequestLimit(c) + Cardinality(ServedBy(G))
    BY DEF SharedInv, Loosest
  <2>1. G \in Groups
    BY StepKinds DEF Groups, PastKept, MirrorInv
  <2>2. SharedLoad(G, c) < RequestLimit(c) + Cardinality(ServedBy(G))
    BY <2>1 DEF SharedInv
  <2>3. \/ SharedLoad(G, c)' <= SharedLoad(G, c)
        \/ Cardinality(Recent(G, c)') < RequestLimit(c)
    BY <2>1, LoadStep
  <2>4. /\ Cardinality(Recent(G, c)) \in Nat /\ Cardinality(Active(G, c)) \in Nat
        /\ Cardinality(ServedBy(G)) \in Nat
    BY LoadType DEF MirrorInv, Mirrored, AllFinite
  <2>5. /\ Cardinality(Recent(G, c)') \in Nat /\ Cardinality(Active(G, c)') \in Nat
        /\ Cardinality(Active(G, c)') <= Cardinality(ServedBy(G))
    <3>1. IsFiniteSet(events')
      BY DEF MirrorInv, Mirrored, AllFinite
    <3>2. (IsFiniteSet(events) =>
             /\ Cardinality(Recent(G, c)) \in Nat /\ Cardinality(Active(G, c)) \in Nat
             /\ Cardinality(Active(G, c)) <= Cardinality(ServedBy(G)))'
      BY LoadType, PTL
    <3> QED BY <3>1, <3>2
  <2>6. SharedLoad(G, c) \in Nat /\ SharedLoad(G, c)' \in Nat /\ RequestLimit(c) \in Nat
    BY <2>4, <2>5, HorizonFacts DEF SharedLoad
  <2>7. SharedLoad(G, c)' = Cardinality(Recent(G, c)') + Cardinality(Active(G, c)')
    BY DEF SharedLoad
  <2> QED BY <2>2, <2>3, <2>4, <2>5, <2>6, <2>7
<1>3. MirrorInv /\ SharedInv => SharedLimit
  <2> SUFFICES ASSUME MirrorInv, SharedInv, NEW c \in Candidates, Loosest(c), NEW G \in Groups
               PROVE  Cardinality(RecordedBy(G, c.slot, Horizon(c)))
                        + Cardinality(Pending(G, c.slot))
                        < RequestLimit(c) + Cardinality(ServedBy(G))
    BY DEF SharedLimit
  <2>1. /\ IsFiniteSet(Active(G, c)) /\ Cardinality(Active(G, c)) \in Nat
        /\ Cardinality(Recent(G, c)) \in Nat /\ Cardinality(ServedBy(G)) \in Nat
    BY LoadType DEF MirrorInv, Mirrored, AllFinite
  <2>2. /\ IsFiniteSet(Pending(G, c.slot))
        /\ Cardinality(Pending(G, c.slot)) <= Cardinality(Active(G, c))
    BY <2>1, FS_Subset DEF Active
  <2>3. Cardinality(Pending(G, c.slot)) \in Nat
    BY <2>2, FS_CardinalityType
  <2>4. Cardinality(Recent(G, c)) + Cardinality(Active(G, c))
          < RequestLimit(c) + Cardinality(ServedBy(G))
    BY DEF SharedInv, SharedLoad
  <2>5. RequestLimit(c) \in Nat
    BY HorizonFacts
  <2> QED BY <2>1, <2>2, <2>3, <2>4, <2>5 DEF Recent
<1> QED
  BY <1>1, <1>2, <1>3, MirrorInvariant, PTL DEF RedisSpec
=============================================================================
