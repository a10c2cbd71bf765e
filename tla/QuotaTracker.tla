---------------------------- MODULE QuotaTracker ----------------------------
(***************************************************************************)
(* The sliding-window quota table of app/core/quota.py (SQLite backend).   *)
(*                                                                         *)
(* A slot stands for one (provider, key_label, model) triple: the table's  *)
(* key (key_id, model) and the scheduler's cooldown key are both made of   *)
(* exactly that triple.  A candidate is a slot with the four limits the    *)
(* router attached to it.  Time is a counter of ticks; time.time() is      *)
(* `now`, and every synchronous stretch of Python reads it once.           *)
(***************************************************************************)
EXTENDS Integers, FiniteSets, FiniteSetsExt

CONSTANTS
    Slots,        \* the (provider, key_label, model) triples of the instance
    Candidates,   \* the Candidate records that the router may produce
    NoLimit,      \* Python's None, for a limit and for a missing time
    MINUTE, DAY,  \* Window.MINUTE and Window.DAY, in ticks
    MaxAge,       \* compact()'s max_age_seconds, in ticks (172800 s by default)
    TokenCounts,  \* the usage.total_tokens values a provider may report
    MaxTime,      \* bound: the clock stops here
    MaxRows       \* bound: no new row, or request, once this many rows were
                  \* inserted

Limit == Nat \cup {NoLimit}

Candidate == [slot : Slots, rpm : Limit, rpd : Limit, tpm : Limit, tpd : Limit]

ASSUME QuotaAssumption ==
    /\ NoLimit \notin Int
    /\ MINUTE \in Nat \ {0}
    /\ DAY \in Nat
    /\ MINUTE < DAY
    /\ MaxAge \in Nat
    /\ DAY <= MaxAge
    /\ Candidates \subseteq Candidate
    /\ TokenCounts \subseteq Nat
    /\ MaxTime \in Nat
    /\ MaxRows \in Nat

VARIABLES
    now,     \* time.time()
    events,  \* the rows of table quota_events
    lastId   \* its AUTOINCREMENT counter

quotaVars == <<now, events, lastId>>

Row == [id : Nat, slot : Slots, event_type : {"request", "tokens"},
        amount : Nat \ {0}, timestamp : Nat]

QuotaTypeOK ==
    /\ now \in Nat
    /\ events \subseteq Row
    /\ lastId \in Nat

QuotaInit ==
    /\ now = 0
    /\ events = {}
    /\ lastId = 0

-----------------------------------------------------------------------------
(* Queries *)

Windows == {MINUTE, DAY}

\* The sign of the comparison with the cutoff turned round.
Mut_OlderThanCutoff(evs, t, slot, w) ==
    {e \in evs : e.slot = slot /\ e.timestamp < t - w}

\* The rows that get_usage's WHERE clause selects at time t.
InWindow(evs, t, slot, w) ==
    {e \in evs : e.slot = slot /\ e.timestamp > t - w}

RowsOf(evs, t, slot, w, type) ==
    {e \in InWindow(evs, t, slot, w) : e.event_type = type}

Amount(e) == e.amount

\* get_usage: every request row is inserted with amount 1, so that their SUM
\* is their number.
RequestsUsed(evs, t, slot, w) == Cardinality(RowsOf(evs, t, slot, w, "request"))
TokensUsed(evs, t, slot, w)   == MapThenSumSet(Amount, RowsOf(evs, t, slot, w, "tokens"))

\* check_quota compares requests with ONE limit over ONE window: rpm over the
\* minute when there is an rpm, and only otherwise rpd over the day.  Tokens
\* alike.
RequestWindow(c) == IF c.rpm # NoLimit THEN MINUTE ELSE DAY
RequestLimit(c)  == IF c.rpm # NoLimit THEN c.rpm ELSE c.rpd
TokenWindow(c)   == IF c.tpm # NoLimit THEN MINUTE ELSE DAY
TokenLimit(c)    == IF c.tpm # NoLimit THEN c.tpm ELSE c.tpd

\* The hint taken to be a minute for every candidate.
Mut_AlwaysMinute(c) == MINUTE

\* resets_in_seconds: `rpm or tpm` is false for None and for 0.
ResetsIn(c) ==
    IF c.rpm \notin {NoLimit, 0} \/ c.tpm \notin {NoLimit, 0} THEN MINUTE ELSE DAY

RequestsOk(evs, t, c) ==
    RequestLimit(c) # NoLimit
        => RequestsUsed(evs, t, c.slot, RequestWindow(c)) < RequestLimit(c)

TokensOk(evs, t, c) ==
    TokenLimit(c) # NoLimit
        => TokensUsed(evs, t, c.slot, TokenWindow(c)) < TokenLimit(c)

\* QuotaStatus.ok of the status check_quota returns
QuotaOk(evs, t, c) == RequestsOk(evs, t, c) /\ TokensOk(evs, t, c)

\* c's request limit is the loosest that any route sets for its slot, and all of
\* them count over the same window.
Loosest(c) == \A d \in {x \in Candidates : x.slot = c.slot} :
    /\ RequestLimit(d) # NoLimit
    /\ RequestWindow(d) = RequestWindow(c)
    /\ RequestLimit(d) <= RequestLimit(c)

-----------------------------------------------------------------------------
(* Statements that change the table *)

RequestRow(slot, id) ==
    [id |-> id, slot |-> slot, event_type |-> "request", amount |-> 1,
     timestamp |-> now]

TokensRow(slot, id, n) ==
    [id |-> id, slot |-> slot, event_type |-> "tokens", amount |-> n,
     timestamp |-> now]

\* record_request
RecordRequest(slot) ==
    /\ events' = events \cup {RequestRow(slot, lastId + 1)}
    /\ lastId' = lastId + 1
    /\ UNCHANGED now

\* The early return for tokens <= 0 missing.
Mut_RecordAnyTokens(slot, n) ==
    /\ events' = events \cup {TokensRow(slot, lastId + 1, n)}
    /\ lastId' = lastId + 1
    /\ UNCHANGED now

\* record_tokens returns at once when tokens <= 0.
RecordTokens(slot, n) ==
    /\ n > 0
    /\ events' = events \cup {TokensRow(slot, lastId + 1, n)}
    /\ lastId' = lastId + 1
    /\ UNCHANGED now

\* Compaction with the length of a window as its maximal age.
Mut_CompactMinute ==
    /\ events' = {e \in events : e.timestamp >= now - MINUTE}
    /\ UNCHANGED <<now, lastId>>

\* compact(max_age_seconds), called with its default: DELETE ... WHERE timestamp < now - max_age
Compact ==
    /\ events' = {e \in events : e.timestamp >= now - MaxAge}
    /\ UNCHANGED <<now, lastId>>

Tick ==
    /\ now < MaxTime
    /\ now' = now + 1
    /\ UNCHANGED <<events, lastId>>

QuotaNext ==
    \/ lastId < MaxRows /\ \E s \in Slots : RecordRequest(s)
    \/ lastId < MaxRows /\ \E s \in Slots, n \in TokenCounts : RecordTokens(s, n)
    \/ Compact
    \/ Tick

QuotaSpec == QuotaInit /\ [][QuotaNext]_quotaVars

-----------------------------------------------------------------------------
(* Properties *)

\* /admin/compact may run at any moment, between a pick and its report
\* included.  A step that neither inserts a row nor lets time pass leaves every
\* answer of get_usage as it was: no row that a window still counts is deleted.
CompactionInvisible ==
    [][ now' = now /\ lastId' = lastId
        => \A s \in Slots, w \in Windows :
              /\ RequestsUsed(events', now', s, w) = RequestsUsed(events, now, s, w)
              /\ TokensUsed(events', now', s, w) = TokensUsed(events, now, s, w) ]_quotaVars

\* The window really slides: a candidate with quota left loses it only because
\* a row was inserted, never by the passing of time or by compaction.
OnlyInsertsExhaust ==
    [][ lastId' = lastId
        => \A c \in Candidates :
              QuotaOk(events, now, c) => QuotaOk(events', now', c) ]_quotaVars

\* Requests and tokens of c are counted over the same window.
SingleWindow(c) ==
    RequestLimit(c) # NoLimit /\ TokenLimit(c) # NoLimit => RequestWindow(c) = TokenWindow(c)

\* resets_in_seconds is announced as the worst case (quota.py:154): a candidate
\* that is refused now, whose limits are over one window and not 0, has quota again
\* after that long if nothing more is recorded.
ResetsInIsWorstCase ==
    \A c \in Candidates :
        /\ ~QuotaOk(events, now, c)
        /\ 0 \notin {RequestLimit(c), TokenLimit(c)}
        /\ SingleWindow(c)
        => QuotaOk(events, now + ResetsIn(c), c)

\* The tracker answers whether a candidate still has quota left, for rpm and
\* rpd and tpm and tpd (quota.py:3-5): an ok candidate is below every limit it
\* has, the daily ones included.
OkMeansBelowEveryLimit ==
    \A c \in Candidates : QuotaOk(events, now, c) =>
        /\ c.rpm # NoLimit => RequestsUsed(events, now, c.slot, MINUTE) < c.rpm
        /\ c.rpd # NoLimit => RequestsUsed(events, now, c.slot, DAY) < c.rpd
        /\ c.tpm # NoLimit => TokensUsed(events, now, c.slot, MINUTE) < c.tpm
        /\ c.tpd # NoLimit => TokensUsed(events, now, c.slot, DAY) < c.tpd
=============================================================================
