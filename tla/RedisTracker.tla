----------------------------- MODULE RedisTracker -----------------------------
(***************************************************************************)
(* The optional Redis backend of the tracker, app/core/quota_redis.py, and *)
(* the hub processes that share it.                                        *)
(*                                                                         *)
(* The client blocks: a check_quota, or the report of a call, keeps its    *)
(* whole process waiting, while the provider calls of other requests go    *)
(* on.  Every round trip to Redis is a step, so that the commands of the   *)
(* processes interleave.  Every host has a clock of its own; `now` is that *)
(* of the Redis server, and `events` is the table that a single SQLite     *)
(* tracker on the server's clock would hold.                               *)
(***************************************************************************)
EXTENDS QuotaTracker, Sequences

CONSTANTS
    Procs,        \* the hub processes
    Reqs,         \* requests that are served at a time
    Home,         \* the process that serves each of them
    Skew,         \* how far a host's clock may be ahead of the server's
    Grace,        \* what EXPIRE adds to a day: 60 s in the code
    MaxAdjusted,  \* bound: clocks that are adjusted, once each
    MaxDelay      \* bound: ticks from a reading of the clock to the last answer
                  \* of Redis to the commands that carry it

ASSUME RedisAssumption ==
    /\ IsFiniteSet(Procs) /\ IsFiniteSet(Reqs)
    /\ Home \in [Reqs -> Procs]
    /\ Skew \in Nat
    /\ Grace \in Nat
    /\ MaxDelay \in Nat
    /\ MaxAdjusted \in Nat

VARIABLES
    zsets,     \* the sorted sets, one for each slot and event type
    expireAt,  \* the server's time at which each of them expires
    offset,    \* the clocks of the hosts
    steady,    \* history: the processes whose clock was never adjusted
    writer,    \* history: the process that has drawn each id
    req        \* how far each request has come, and the locals of its code

redisVars == <<now, events, lastId, zsets, expireAt, offset, steady, writer, req>>

Types == {"request", "tokens"}

\* A member's name is its uuid and, of tokens, their number.
Member == [id : Nat, score : Nat, amount : Nat]

Idle == [at |-> "idle"]

\* stamp is what time.time() has answered, read the server's time when it did.
Check  == [at : {"check"}, cand : Candidates, query : 1..4,
           stamp : Nat, read : Nat]
Call   == [at : {"call"}, cand : Candidates]
Report == [at : Types, slot : Slots, id : Nat, amount : Nat \ {0}, tokens : Nat,
           stamp : Nat, read : Nat]

RedisTypeOK ==
    /\ QuotaTypeOK
    /\ zsets \in [Slots -> [Types -> SUBSET Member]]
    /\ expireAt \in [Slots -> [Types -> Nat]]
    /\ offset \in [Procs -> 0..Skew]
    /\ steady \subseteq Procs
    /\ writer \in Seq(Procs) /\ Len(writer) = lastId
    /\ req \in [Reqs -> Check \cup Call \cup Report \cup {Idle}]

RedisInit ==
    /\ QuotaInit
    /\ zsets = [s \in Slots |-> [t \in Types |-> {}]]
    /\ expireAt = [s \in Slots |-> [t \in Types |-> 0]]
    /\ offset \in [Procs -> 0..Skew]
    /\ steady = Procs
    /\ writer = <<>>
    /\ req = [r \in Reqs |-> Idle]

\* time.time() on the host of p
Clock(p) == now + offset[p]

-----------------------------------------------------------------------------
(* The commands *)

\* An expired key reads like an empty one.
Live(s, t) == IF now < expireAt[s][t] THEN zsets[s][t] ELSE {}

\* ZCOUNT and ZRANGEBYSCORE from cutoff to now, both ends included
Counted(s, t, stamp, w) == {m \in Live(s, t) : stamp - w <= m.score /\ m.score <= stamp}

\* EXPIRE given to a new key only.
Mut_ExpireOnce(s, t, m) ==
    /\ zsets' = [zsets EXCEPT ![s][t] = {x \in Live(s, t) \cup {m} : x.score > m.score - DAY}]
    /\ expireAt' = [expireAt EXCEPT ![s][t] = IF Live(s, t) = {} THEN now + DAY + Grace ELSE @]

\* Pruning that keeps the members of just a day ago, as `cutoff - 1` would.
Mut_PruneLess(s, t, m) ==
    /\ zsets' = [zsets EXCEPT ![s][t] = {x \in Live(s, t) \cup {m} : x.score >= m.score - DAY}]
    /\ expireAt' = [expireAt EXCEPT ![s][t] = now + DAY + Grace]

\* The pipeline is one transaction: ZADD, ZREMRANGEBYSCORE from 0 to a day before
\* the member's own score, EXPIRE.  To add a member again changes nothing.
Put(s, t, m) ==
    /\ zsets' = [zsets EXCEPT ![s][t] = {x \in Live(s, t) \cup {m} : x.score > m.score - DAY}]
    /\ expireAt' = [expireAt EXCEPT ![s][t] = now + DAY + Grace]

-----------------------------------------------------------------------------
(* check_quota: two get_usage, each with one reading of the clock *)

Queries == << <<"request", MINUTE>>, <<"tokens", MINUTE>>,
              <<"request", DAY>>,    <<"tokens", DAY>> >>

\* A limit that is reached, but not exceeded, taken for quota left.
Mut_UpToLimit(c, i, stamp) ==
    LET answer == Counted(c.slot, Queries[i][1], stamp, Queries[i][2]) IN
    /\ Queries[i] = <<"request", RequestWindow(c)>> /\ RequestLimit(c) # NoLimit
         => Cardinality(answer) <= RequestLimit(c)
    /\ Queries[i] = <<"tokens", TokenWindow(c)>> /\ TokenLimit(c) # NoLimit
         => MapThenSumSet(Amount, answer) <= TokenLimit(c)

\* What the answer to query i says about the candidate; most answers are not
\* compared with anything.
Passes(c, i, stamp) ==
    LET answer == Counted(c.slot, Queries[i][1], stamp, Queries[i][2]) IN
    /\ Queries[i] = <<"request", RequestWindow(c)>> /\ RequestLimit(c) # NoLimit
         => Cardinality(answer) < RequestLimit(c)
    /\ Queries[i] = <<"tokens", TokenWindow(c)>> /\ TokenLimit(c) # NoLimit
         => MapThenSumSet(Amount, answer) < TokenLimit(c)

Asking(r)    == req[r].at = "check"
Calling(r)   == req[r].at = "call"
Reporting(r) == req[r].at \in Types

\* No code of the process waits for Redis.
Responsive(p) == \A r \in Reqs : Home[r] = p => ~Asking(r) /\ ~Reporting(r)

\* The scheduler asks for a candidate of the request.
StartCheck(r, c) ==
    /\ req[r] = Idle /\ Responsive(Home[r])
    /\ lastId < MaxRows
    /\ req' = [req EXCEPT ![r] =
         [at |-> "check", cand |-> c, query |-> 1, stamp |-> Clock(Home[r]), read |-> now]]
    /\ UNCHANGED <<now, events, lastId, zsets, expireAt, offset, steady, writer>>

\* The next answer.  The clock is read for each pair of queries.  The last answer
\* leads to the call; once one has refused the candidate, the rest change nothing.
Query(r) ==
    /\ Asking(r)
    /\ LET q == req[r] IN
       \/ /\ ~Passes(q.cand, q.query, q.stamp)
          /\ req' = [req EXCEPT ![r] = Idle]
       \/ /\ Passes(q.cand, q.query, q.stamp)
          /\ q.query \in {1, 3}
          /\ req' = [req EXCEPT ![r].query = @ + 1]
       \/ /\ Passes(q.cand, q.query, q.stamp)
          /\ q.query = 2
          /\ req' = [req EXCEPT ![r].query = 3, ![r].stamp = Clock(Home[r]), ![r].read = now]
       \/ /\ Passes(q.cand, q.query, q.stamp)
          /\ q.query = 4
          /\ req' = [req EXCEPT ![r] = [at |-> "call", cand |-> q.cand]]
    /\ UNCHANGED <<now, events, lastId, zsets, expireAt, offset, steady, writer>>

-----------------------------------------------------------------------------
(* A provider call returns: report_failure, or record_request and then     *)
(* record_tokens                                                           *)

CallFails(r) ==
    /\ Calling(r) /\ Responsive(Home[r])
    /\ req' = [req EXCEPT ![r] = Idle]
    /\ UNCHANGED <<now, events, lastId, zsets, expireAt, offset, steady, writer>>

\* The clock is read and a uuid drawn before each pipeline.
BeginReport(r, slot, type, amount, tokens) ==
    /\ req' = [req EXCEPT ![r] =
         [at |-> type, slot |-> slot, id |-> lastId + 1, amount |-> amount, tokens |-> tokens,
          stamp |-> Clock(Home[r]), read |-> now]]
    /\ lastId' = lastId + 1
    /\ writer' = Append(writer, Home[r])

CallSucceeds(r, n) ==
    /\ Calling(r) /\ Responsive(Home[r])
    /\ BeginReport(r, req[r].cand.slot, "request", 1, n)
    /\ UNCHANGED <<now, events, zsets, expireAt, offset, steady>>

\* The row of the table that a report stands for
RowOf(q) == [id |-> q.id, slot |-> q.slot, event_type |-> q.at, amount |-> q.amount,
             timestamp |-> q.read]

MemberOf(q) == [id |-> q.id, score |-> q.stamp, amount |-> q.amount]

\* A uuid drawn at every sending.
Mut_FreshUuid(q) ==
    /\ \E id \in {q.id, q.id + MaxRows} : Put(q.slot, q.at, [MemberOf(q) EXCEPT !.id = id])
    /\ events' = events \cup {RowOf(q)}

\* The pipeline of a report runs on the server.
Executes(q) ==
    /\ Put(q.slot, q.at, MemberOf(q))
    /\ events' = events \cup {RowOf(q)}

\* record_tokens without its early return.
Mut_RecordNoTokens(r) ==
    /\ Reporting(r)
    /\ Executes(req[r])
    /\ \/ /\ req[r].at = "request"
          /\ BeginReport(r, req[r].slot, "tokens", req[r].tokens, 0)
       \/ /\ req[r].at = "tokens"
          /\ req' = [req EXCEPT ![r] = Idle] /\ UNCHANGED <<lastId, writer>>
    /\ UNCHANGED <<now, offset, steady>>

\* ... and answers.  record_tokens returns at once when there are none.
Recorded(r) ==
    /\ Reporting(r)
    /\ Executes(req[r])
    /\ \/ /\ req[r].tokens > 0
          /\ BeginReport(r, req[r].slot, "tokens", req[r].tokens, 0)
       \/ /\ req[r].tokens = 0
          /\ req' = [req EXCEPT ![r] = Idle] /\ UNCHANGED <<lastId, writer>>
    /\ UNCHANGED <<now, offset, steady>>

\* The answer is lost, and the client library sends the pipeline again.
Resend(r) ==
    /\ Reporting(r)
    /\ Executes(req[r])
    /\ UNCHANGED <<now, lastId, offset, steady, writer, req>>

\* A command raises, whether the server has run it or not: the rest of the report,
\* or the request of the check, is given up.
CommandRaises(r) ==
    /\ Asking(r) \/ Reporting(r)
    /\ req' = [req EXCEPT ![r] = Idle]
    /\ \/ Reporting(r) /\ Executes(req[r])
       \/ UNCHANGED <<zsets, expireAt, events>>
    /\ UNCHANGED <<now, lastId, offset, steady, writer>>

-----------------------------------------------------------------------------
(* Beside the requests *)

CrashProcess(p) ==
    /\ req' = [r \in Reqs |-> IF Home[r] = p THEN Idle ELSE req[r]]
    /\ UNCHANGED <<now, events, lastId, zsets, expireAt, offset, steady, writer>>

AdjustClock(p) ==
    /\ p \in steady /\ Cardinality(Procs \ steady) < MaxAdjusted
    /\ offset' \in {[offset EXCEPT ![p] = o] : o \in (0..Skew) \ {offset[p]}}
    /\ steady' = steady \ {p}
    /\ UNCHANGED <<now, events, lastId, zsets, expireAt, writer, req>>

RedisTick ==
    /\ \A r \in Reqs : Asking(r) \/ Reporting(r) => now - req[r].read < MaxDelay
    /\ Tick
    /\ UNCHANGED <<zsets, expireAt, offset, steady, writer, req>>

RedisNext ==
    \/ \E r \in Reqs :
          \/ \E c \in Candidates : StartCheck(r, c)
          \/ Query(r)
          \/ \E n \in TokenCounts : CallSucceeds(r, n)
          \/ CallFails(r)
          \/ Recorded(r) \/ Resend(r) \/ CommandRaises(r)
    \/ \E p \in Procs : CrashProcess(p) \/ AdjustClock(p)
    \/ RedisTick

RedisSpec == RedisInit /\ [][RedisNext]_redisVars

-----------------------------------------------------------------------------
(* Properties *)

Age(e) == now - e.timestamp

CountedAs(m, e) == m.id = e.id /\ m.amount = e.amount

\* The sorted sets stand in for the table: whatever the clocks, the delays and the
\* pruning by other hosts, every process counts each row that is at least Skew
\* old and younger than the window by more than Skew, and counts nothing but
\* rows that are at most Skew older than the window.  A pipeline that was sent
\* twice counts once.
AgreesUpToSkew ==
    \A p \in Procs, s \in Slots, t \in Types, w \in Windows :
        LET rows    == {e \in events : e.slot = s /\ e.event_type = t}
            counted == Counted(s, t, Clock(p), w)
        IN  /\ \A e \in rows : Skew <= Age(e) /\ Age(e) < w - Skew
                  => \E m \in counted : CountedAs(m, e)
            /\ \A m \in counted : \E e \in rows : CountedAs(m, e) /\ Age(e) <= w + Skew

\* "Redis auto-expires; nothing to do" (quota_redis.py:123), with compact() doing
\* nothing: every write renews the time to live of its whole key, old members
\* included, so that a busy key never expires and only the pruning by that same
\* write lets them go.  Together the two keep no member for two days, the grace, the
\* skew and the delay.
RowsExpire ==
    \A s \in Slots, t \in Types : \A m \in Live(s, t) : \A e \in events :
        e.id = m.id => expireAt[s][t] < e.timestamp + 2 * DAY + Grace + Skew + MaxDelay

ServedBy(G) == {r \in Reqs : Home[r] \in G}

\* Processes whose clocks agree and were never adjusted
Groups == {G \in SUBSET steady : ServedBy(G) # {} /\ \A p, q \in G : offset[p] = offset[q]}

\* The requests of group G whose call on slot s is under way, or not yet recorded
Pending(G, s) == {r \in ServedBy(G) :
    \/ Calling(r) /\ req[r].cand.slot = s
    \/ req[r].at = "request" /\ req[r].slot = s /\ RowOf(req[r]) \notin events}

\* Those that it has recorded within the last w ticks
RecordedBy(G, s, w) == {e \in RowsOf(events, now, s, w, "request") : writer[e.id] \in G}

\* A fast clock elsewhere prunes the rows of a day too early, and an answer tells
\* how things stood up to MaxDelay ago.
Horizon(c) == Min({RequestWindow(c), DAY - Skew - MaxDelay})

\* "Redis (optional, multi-process)" (TECH_DESIGN.md:115): processes whose clocks
\* agree share a limit as the handlers of one process do.  What they have recorded
\* in a window and have under way stays below the limit plus the requests they
\* serve at a time, however the commands of all processes interleave, and whatever
\* the others' clocks prune.
SharedLimit ==
    \A c \in Candidates : Loosest(c) => \A G \in Groups :
        Cardinality(RecordedBy(G, c.slot, Horizon(c))) + Cardinality(Pending(G, c.slot))
            < RequestLimit(c) + Cardinality(ServedBy(G))
=============================================================================
