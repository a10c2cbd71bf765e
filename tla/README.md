# free-llm-hub: a TLA+ verification project

free-llm-hub is a gateway in front of free LLM providers. A client posts an
OpenAI-style chat completion for a *logical* model (`auto`, `coding`, ...) or a
*physical* one (`llama-3.3-70b`); the hub turns the name into a ranked list of
candidates (provider, key, model), picks one that has quota left and is not in
cooldown, calls the provider, and turns to another candidate when the call fails.
Quota counters live in SQLite, or in Redis where several processes share them;
everything else lives in the memory of one asyncio process. This directory holds the
TLA+ specifications of that program, the TLC configurations that check them on small
instances, and theorems checked by TLAPS.

Line numbers below refer to files under `src/`.

## 1. The system

| Component | State | Operations | Hard behaviour |
|---|---|---|---|
| Quota tracker, `app/core/quota.py` | table `quota_events` | `record_request`, `record_tokens`, `get_usage`, `check_quota`, `compact` | windows that slide; a check that is charged much later; compaction at any moment |
| Scheduler, `app/core/scheduler.py` | `_rr_index`, `_cooldowns` | `pick`, `report_success`, `report_failure`, `get_next_available_time` | one index for all candidate lists; reports of concurrent calls in any order |
| Chat completions, `app/api/routes.py` | the locals of each running handler | `_handle_non_streaming`, `_handle_streaming` and its generator, `list_models` | interleaving at every `await`; failures half-way through a report; streams that break; retries |
| Router, `app/core/router.py` | none (reads configuration and registry) | `resolve_candidates`, `resolve_for_physical_model` | order and completeness of the list; overrides |
| Configuration and registry, `config.py`, `registry.py`, `main.py` | `_config`, `_registry` | `load_config`, `load_registry`, `get_registry` | broken or vanishing files, partial loads |
| Hot reloader, `app/core/reloader.py` | `_mtimes`, the task | `start`, `stop`, `_snapshot`, `_detect_changes`, `reload_now`, `_run_loop` | stat and read are apart; edits in between; failed loads; the watcher's own death |
| Health probe, `app/core/health.py` | `_states`, the task | `start`, `stop`, `probe_once`, `_probe_candidate`, `_record`, `_run_loop` | overlapping passes, late results, aborted passes |
| Admin API, `app/api/admin.py` | none | `/probe`, `/reload`, `/compact`, read-only views | runs beside all of the above |
| Redis tracker, `app/core/quota_redis.py` | a sorted set for each slot and event type | as the quota tracker | a check is four commands, a report two pipelines, of several processes; clocks that differ; inclusive window edges; expiry; commands sent twice |
| Command line, `app/cli.py` | none | `doctor`, `models`, `route`, `health` | looks keys, models and candidates up in its own ways, which must agree with the routing |
| Provider adapter, metrics, decision log, `scripts/` | none that is read back | – | – |

How they interact. `chat_completions` asks the router once for a list; the retry
loop calls `scheduler.pick`, which reads the cooldowns and asks the tracker for
every candidate; the handler then awaits the provider and reports to the
scheduler, which writes the cooldown and the quota rows. The reloader and
`/admin/reload` swap `_config` and `_registry` under running requests; the health
probe asks the tracker but reports to nobody except `/admin/health`. All of this
runs on one event loop: code between two `await`s is atomic with respect to other
tasks, while files and the table can be changed by others at any time.

What makes each part correct, in a sentence: the tracker's answers depend only on
the rows of the window; a free candidate is not starved, and cooldowns stay
consistent; requests overshoot a limit by a bounded amount, are charged once,
turned away only when they must be, and answered in the end; candidate lists are
the declared ranking of all eligible pairs; what the watcher has noticed is in
memory, and untouched files keep serving; health states are consistent, and
providers that come back, or go for good, are seen to; the sorted sets of Redis answer
like the table, up to the skew of the clocks, and processes share a limit through them;
what an operator is shown is what is served.

## 2. Modules

```
 QuotaTracker ──► Scheduler ──► RoundRobin
      │               └───────► Gateway ──implements──► RequestLife
      ├──► HealthProbe
      └──► RedisTracker

 Router ──► CommandLine           Reloader
```

Arrows are `EXTENDS`; `MC*` modules hold the values of the constants; `*Proofs`
modules hold the theorems. The operators named `Mut_...` are deliberate faults
("the counter not reset by a success"): no specification uses them, they stand in
front of the definition they would replace and show what a property is able to
catch.

**QuotaTracker**. `events` is the table, `lastId` its AUTOINCREMENT counter, `now`
is `time.time()`. A *slot* stands for the triple provider/label/model that keys the
table. `InWindow`, `RequestsUsed`, `TokensUsed` are `get_usage`; `QuotaOk` is
`check_quota(...).ok`, with the choice of *one* limit and *one* window that the
code makes (quota.py:144-151); `ResetsIn` is `resets_in_seconds`.
`RecordRequest`, `RecordTokens` and `Compact` are the statements that write.
Negative token counts are not enumerated: `record_tokens` ignores them.

**Scheduler**. State and operations of `scheduler.py` without callers.
`Picks(cands, cds, evs, i)` says that `pick` returns position `i`; `AdvanceIndex`
is the index it leaves; `RecordFailure` is the escalating backoff; `UsageRows` are
the one or two rows `report_success` inserts. Operations take the cooldowns and
rows they read as arguments because a handler reports and picks again in one step.
A missing cooldown entry reads like a fresh one and is modelled as one.

**RoundRobin**. Callers pick, hold a candidate and report, in any order. History
variable `skipped[L][i]`: how many picks from list `L` in a row passed over `L[i]`
although it was free.

**Gateway**. The request handlers on top of the shared scheduler and table. One
action runs a handler from one `await` to the next with every call in between:
`Arrive` (routing, first pick), `CallSucceeds`, `OpenStream`, `CallFails`,
`RecordFails` (an insert raises inside `report_success` and the `except` branch
takes it for a provider failure), `Chunk`, `StreamEnds`, `StreamBreaks`; beside
them `Reload`, `AdminCompact`, `GatewayTick`, `Crash`. `Attempt` is what follows
inside the retry loop: the next call, giving up with 429, or an exception in `pick`
(routes.py:77, outside the `try`), which is a 500. `reply` is the answer the last
step sent, and to a request for which model; `tokens` is the generator's `total_tokens`, of which only growing values
are enumerated.

**RequestLife**. The abstract promise to a request: the list it was accepted with,
a bounded number of calls, never the slot that has just failed it, and an end.
`Gateway` implements it under the mapping `LifeOf`.

**Reloader**. Files on disk, the versions in memory, and the hub's synchronous code
system call by system call (`run`), so that editors interleave with every `stat` and
`read`. A file's content is its mtime and whether it loads (`good`), parses to
nothing (`void`) or raises (`broken`). `Raise` says where each exception leads:
a request fails, `reload_now` goes on with the registry, the loop survives, the
first snapshot kills the task, the boot fails. After the boot the watcher may be
`"off"` (`FREELLM_DISABLE_RELOADER`), and `init_tracker` may raise (`Finish`);
`Shutdown` stops it at the end of the lifespan. `baseline` and `missed` are history
variables.

**HealthProbe**. Passes of the loop and of `/admin/probe`, each a coroutine that
gives up the loop only while a provider answers. `Walk` goes from one ping to the
next, `WalkRaises` is a tracker that raises, or an empty registry that is loaded anew and
raises (health.py:64), `PingReturns` applies a result that
reflects the provider at some time since the ping was sent. `MaxFails` saturates
the counter above the last threshold. `looping` says whether the lifespan has started
the loop; `Stop` cancels it, in a ping or between passes. `HealthExit` is the exit code
of `freellm health`.

**RedisTracker**. `zsets` are the sorted sets, `expireAt` the times at which their keys
expire, `offset` how far the clock of each host is ahead of the server's (`now`); `req`
holds what the code of each request has in hand. The client blocks, so that a check or
a report keeps its process waiting (`Responsive`), but every round trip is a step:
`StartCheck` and `Query` are the two `get_usage` with their four queries, each pair on
one reading of the clock; `Recorded` is a pipeline, which is one transaction: ZADD, the
pruning of what is older than a day, EXPIRE (`Put`). A reading of the clock belongs to
the step before the command that uses it. `Resend` is a pipeline whose answer is lost
and which the client library sends again, `CommandRaises` a command that raises whether
the server has run it or not; `CrashProcess` and `AdjustClock` happen at any time.
`events` is the table that a single SQLite tracker on the server's clock would hold, the
yardstick of the properties; `steady` and `writer` are history variables.

**Router**. Pure functions of `cfg` and `registry`: `ResolveCandidates`,
`ResolvePhysical`, `GetCandidates`, and `PhysicalModels` of `list_models`. The loops of
the code are `Kept`, a list comprehension with a condition, and `FlattenSeq`, nested
loops that append; a stable sort is the concatenation of the entries of each rank
(`ByPreference`). `Key`, `Policy` and `Entry` are the fields of the pydantic models
that routing reads. Both loops are recursive *functions*, which can be proved about.

**CommandLine**. On top of Router: `Tested` is the candidate that `doctor` tests a key
with, `DoctorExit` its exit code, `ModelsListed` is what `models` lists, `QuotaRows` is
what `/admin/quota` asks `check_quota` for. `route` prints `ResolveCandidates` of Router.

## 3. Runs

Every run names its bounds in its cfg. Deadlock checking is off where the bounds
(clock, rows, edits) or the end of the process end behaviours; the router never stops and is checked
with it.

| Run | Module | Checks | Shows |
|---|---|---|---|
| `quota` | MCQuotaTracker | `QuotaTypeOK`, `ResetsInIsWorstCase`, `CompactionInvisible`, `OnlyInsertsExhaust` | quota is lost only through inserted rows; compaction changes no answer; the reset hint is right for the candidates whose limits are over one window, among candidates with limits of every shape |
| `quota_daily` | MCQuotaTracker | `OkMeansBelowEveryLimit` | **violated**: with rpm *and* rpd the daily limit is not looked at |
| `rr_one` | MCRoundRobin | `RRTypeOK`, `BoundedBypass`, `BypassInv` | with one list of three, a free candidate is passed over at most twice in a row |
| `rr_two` | MCRoundRobin | `BoundedBypass` | **violated**: two lists share one index and starve a candidate |
| `gateway` | MCGateway | `GatewayTypeOK`, `OvershootBound`, `CooldownSound`, `CoolingDrains`, `CallChargedOnce`, `NoFalseExhaustion` | the safety of the handlers with streams, reloads, compaction, tracker failures and crashes |
| `gateway_life` | MCGateway | `EveryRequestAnswered`, `ImplementsLife` | every request is answered; the handlers implement `RequestLife`, fairness included |
| `gateway_retry_after` | MCGateway | `RetryAfterIsReset` | **violated**: the announced time is the end of *any* cooldown |
| `reload` | Reloader | `ReloadTypeOK`, `NoticedMeansLoaded`, `UntouchedStays`, `EditsArrive` | noticed versions are loaded although stat, read and failures interleave; the last edits arrive, whatever broken versions came before |
| `reload_boot` | Reloader | `HotReloadable` | **violated**: an edit between boot and first snapshot is never loaded |
| `health` | MCHealthProbe | `HealthTypeOK`, `StatusSound`, `KeyRecovers`, `OutageShows` | counter and status agree; a provider that is back becomes, and stays, healthy; one that is gone becomes, and stays, down |
| `router` | MCRouter | `RouterTypeOK`, `RankedAndComplete`, `OverridesApply`, `ListedIffServed`, `DoctorFindsBadKeys`, `ShownIsServed` | lists are the declared ranking; overrides (0 included) apply to logical models; listing, `doctor`, `models`, `/admin/quota` and routing agree |
| `redis` | MCRedisTracker | `RedisTypeOK`, `AgreesUpToSkew`, `RowsExpire`, `SharedLimit` | answers agree with the table up to the skew; no member outlives two days and the slack; processes share a limit |

Bounds and why they are enough.

* Time: MINUTE, DAY and `MaxTime` are a few ticks. Rows leave the minute's window
  within the bound in every run with rows, and the day's window in `quota`, where
  compaction also removes rows (`MaxAge` 5 of 6 ticks).
* Rows: `MaxRows` stops inserts of the quota run, and *arrivals* in `Gateway`:
  running requests always finish, so that their reports exceed the bound a little
  and no action is cut off half-way.
* Two requests are what an interleaving of check and charge needs; two slots and
  `MAX_RETRIES` 2 give a retry on another slot and a last attempt (the code has 3).
  Slot `s1` has a request limit, `s2` a token limit. Requests ask for `auto` or for
  the model of the first key; a configuration has both keys, or has lost the first: then
  one model is routed to nothing (503) beside one that has a candidate. Requests are symmetric (`RequestSymmetry`) in the run
  without liveness.
* `rr_one`: three candidates, for which passing over twice is the longest allowed.
* `reload`: two edits of three files, two of them registry files: the interplay of
  two files, or of a broken version and a good one, needs two. (The theorems of
  ReloaderProofs have no bound.)
* `health`: two keys, the loop and one admin pass, two disturbances (provider flips,
  reloads, tracker errors), the counter saturating at 4 with the threshold at 3.
* `redis`: two processes with a request each, clocks a tick apart and one adjustment,
  commands that take up to a tick, no grace: a day of four ticks within eight lets rows
  leave the window and keys expire, and lets a write renew a key that still has members
  from the time before, which is what `RowsExpire` is about. The one slot has a request and a token limit over
  the day, the window that pruning and expiry bear on. Processes are symmetric.
* `router`: 455 configurations times 7 registries, all of them initial states. Among
  them are two providers with a model of one name whose keys have different labels, and
  keys of one label whose providers share no model, the two cases that the premise
  `Unambiguous` of `DoctorFindsBadKeys` lets in; and a policy with a physical model's name.

Fairness. `FairGatewaySpec`: every provider call returns or fails (litellm's
timeout) and every stream ends or breaks; nothing obliges a client to send, a call
to succeed, time to pass or anybody to reload. `FairReloadSpec`: synchronous code
runs on; a due timer and a new task get their turn – strong fairness, because a
busy event loop may run requests in between, but serves ready callbacks in order.
`FairHealthSpec`: while the loop is on, its interval ends, and every ping returns.
`RedisTracker` claims no liveness: a command that never returns blocks its process.

## 4. What is proved

The proofs hold for all values of the constants that satisfy the named assumptions:
`QuotaAssumption` (DAY longer than MINUTE, nothing younger than DAY compacted),
`SchedulerAssumption` (a non-empty, escalating list of positive backoffs),
`RoundRobinAssumption`, `GatewayAssumption`, `HealthAssumption`, `ReloaderAssumption`
(the configuration is no registry file), `RedisAssumption` (finitely many processes and
requests), `RouterAssumption` (configurations and registries are what the pydantic models
accept: lists of keys and entries, each with the fields that routing reads). Limits are
natural numbers or none where counts are compared with them; the schema would accept a
negative one, under which a candidate never has quota.

* `QuotaTypeCorrect`, `CompactionIsInvisible` (QuotaProofs). Compaction keeps every
  row of every window because `DAY <= MaxAge`, and a step that changes neither clock
  nor counter is compaction or a stutter.
* `QuotaLostByInserts`, `ResetHintSuffices` (QuotaProofs). Both compare two tables at two
  times: fewer rows in the window mean no larger count (`FewerRowsOk`), for the sum
  of token amounts as well (`SumMonotone`). The sum is the recursive function of
  `MapThenSumSet`, which takes the elements of a set in an order of its own choice;
  `SumExists` to `SumUnique` show that it is a sum all the same, by induction
  (`NatSetInduction`: a set of numbers that has 0 and every successor has
  all of them). For the hint, `TableInv` is needed: without rows of the future, a window
  is empty after its length (`WindowEmpties`), and 0 is below every limit that is not 0.
* `RRTypeCorrect`, `IndexComesNearer`, `OneListIsFair` (RoundRobinProofs). For a single list of any
  length, `BoundedBypass`. It is not inductive; the strengthening is `BypassInv` (`IndexComesNearer`):
  the passes so far plus the distance that the index still has to walk stay below
  the length of the list. Lemma `PassingComesNearer` shows that a pick that passes
  over a free position brings the index nearer, `DistanceRound` what happens when
  the index turns round.
* `GatewayTypeCorrect`, `CooldownsAreSound` (GatewayProofs). Types are inductive;
  `AttemptEffect` says once what the retry loop can do, and each action cites it.
  `CooldownSound` rests on `FailureSound` (a failure leaves a consistent entry
  whatever was there) and `SoundLater` (time does not harm it).
* `OvershootIsBounded`, `CallsAreChargedOnce`, `CoolingSlotsDrain` (GatewayProofs).
  The argument counts the *load* of a slot: the request rows of a window plus the
  calls under way. `LoadStep` shows for every action that the load grows only by a
  call the step starts, on a candidate that `pick` has just found available, and then
  by one; ending a call trades it for at most one row (`ChargingStep`), all else
  leaves it or lowers it (`QuietStep`). When a call starts, the rows alone are below
  the limit and the other calls are fewer than the handlers, hence the bound. The
  counts are meaningful because the table stays finite (`TableIsFinite`). That a
  started call's slot is not cooling holds for the failure just reported too,
  because `pick` runs after the report in the same step (`StartStep`).
* `ExhaustionIsReal`, `RequestsLive` (GatewayProofs). The first: a 429 comes out of the
  retry loop only (`RefusalEffect`), which has walked the list of that very request: what
  its model is routed to if it has just arrived. The second is the safety part of the refinement:
  every step of the gateway is a step of `RequestLife` or a stutter. Its
  invariant `LifeInv` says that a handler's list is one that was routed and its
  callee is on it; that the retry goes to *another* slot holds since the reported
  failure makes the old one cool (`AttemptLives`, with `SchedulerAssumption`: every
  backoff is positive).
* `HealthTypeCorrect`, `StatusIsSound` (HealthProofs). The invariant carries the
  soundness of all states through `Walk`, which passes over any number of keys in one
  step (`PassedOverSound`, `GoEffect`), and through a late result (`ResultSound`).
* `ReloadTypeCorrect`, `UntouchedKeepsServing`, `NoticedIsLoaded` (ReloaderProofs).
  `Stages` says how far boot and watcher have come, from whose code runs. `UntouchedInv`
  adds, for the middle of a load, that an untouched file is among the entries collected
  or still to be read. `NoticedInv` does so for the files whose version the watcher
  knows (`Quiet`), except while the poll still owes them a load; an edit makes its file
  unquiet until the next poll (`QuietAfterTouch`).
* `RedisTypeCorrect`, `SortedSetsAgree`, `SortedSetsExpire`, `LimitIsShared`
  (RedisProofs). `MirrorInv` ties sorted sets and table together: every member has a row
  near it, up to the writer's clock; every row younger than a day less the skew has a
  member and a key that outlives it; ids name rows. The first two theorems about answers
  follow (`ExecutesMirrored`, `QuietMirrored`). For the limit, the load of a slot counts
  the recorded rows, the calls under way and the checks that have *hope*: those that
  have passed the query which decides on the request limit, or still find fewer rows
  than the limit. What a check will find never becomes less (`EarlyGrows`), so that hope
  is gained only by reading the clock; a check that does so while the rows are below the
  limit adds itself to at most as many as the processes serve (`FreshHope`), and
  recording trades a call for a row (`RecordingLoad`). `DecidingQuery`, a pigeonhole
  argument, shows that a check that passes the deciding query had hope.

* `ServingLosesByInserts`, `ServingCompactionUnseen`, `ServingResetHint` (GatewayProofs).
  The promises of the tracker, proved above of a table that is used by itself, hold of the
  table *under the handlers*: `TableStep` shows that every step of the gateway either
  inserts rows of the present or is a quiet step of the table (time, compaction, a
  stutter), so that the lemmas of QuotaProofs on quiet steps apply; reloads, crashes and
  failed inserts are among those steps.
* `RoutesAreTyped`, `ListsAreRanked`, `OverridesDoApply`, `ListedAreServed`,
  `ShownAreServed`, `DoctorIsRight` (RouterProofs). Configuration and registry only ever
  take values of the constants (`RouterInv`); the work is what the loops compute.
  `Lists(s, g, S, R)` says that the sequence `s` has the `g[x]` for the `x` in `S`, in an
  order that respects `R`; `ListsKept`, `ListsConcat` and `ListsFlatten` show by induction
  how comprehensions and nested loops preserve it. Hence a logical name's candidates list
  the eligible pairs of an entry and a key, by rank, entry and key (`ListsByPreference`,
  `ListsLogical`), a physical name's those of its model (`ListsPhysical`). In an
  asymmetric order every element has exactly one place, the number of its
  predecessors plus one (`ListsByPlace`), which is `RankedAndComplete`: nothing is lost,
  doubled or out of order. The others need only the range of the lists (`LogicalRange`,
  `PhysicalRange`, `RowsAre`, `TestedIs`): `ShownAreServed` compares each candidate with the
  row of its pair, whether it was made with the override or without.

SchedulerProofs holds the lemmas on the scheduler's operators.

Only model-checked: liveness (`EveryRequestAnswered`, `EditsArrive`, `KeyRecovers`,
`OutageShows`) and the fairness part of `ImplementsLife`, since fairness and ENABLED are
out of the prover's reach. Every invariant and every action property of a passing run is
a theorem. The four properties that are **violated** have no proof, of course.

## 5. Where code and documents disagree

With a run that shows it: the four runs marked **violated** above; the findings in
`PROJECT.json` quote the sentence and the line.

Observed while modelling, without a run of its own:

* `resets_in_seconds` is a minute for a candidate with `rpd` and `tpm`, even if the
  daily requests are used up (quota.py:153, "worst case" in line 154), hence the
  premise `SingleWindow` of `ResetsInIsWorstCase`.
* The 429 has no Retry-After when all candidates are out of quota and none cools
  down (routes.py:101), and never for streaming requests (routes.py:168), against
  TECH_DESIGN.md:182.
* A stream that breaks, or whose client leaves, records no tokens
  (routes.py:143-148), against TECH_DESIGN.md:184.
* Probes are not counted (health.py:104), against health.py:8-9 and
  TECH_DESIGN.md:122; and a health state does not influence routing, against
  TECH_DESIGN.md:105.
* Registry entries that stop validating are dropped and their models disappear
  (registry.py:62), where TECH_DESIGN.md:187 promises the last good registry.
* A request by physical name ignores the key's `override_limits` (router.py:96),
  against TECH_DESIGN.md:116; so do `/admin/quota` and the probe.
* A registry file that comes and goes between two polls makes a load fail that no
  poll repeats, or stays in memory: `missed` excludes exactly that case from
  `NoticedMeansLoaded` and `EditsArrive`.
* A failure of the first snapshot ends the watcher for good (reloader.py:79).
* `doctor` looks a key's candidate up by its label alone (cli.py:79): where two providers
  share a label and a model's name, it may test the other one's key, hence the premise
  `Unambiguous` of `DoctorFindsBadKeys`. It shows no quota, against TECH_DESIGN.md:141, and
  prints "All keys OK." for keys that are disabled or have no model.
* `route` resolves every name as a logical one, and its "Scheduler would pick: #1"
  (cli.py:203) holds of a scheduler that has just started and has quota.
* `/admin/quota` shows the registry's limits, without overrides: a slot whose key has an
  override of 0 is shown with quota and refused for logical names. `ShownIsServed` says
  that this is the only difference.
* The order of the candidates is that of the preferences alone (`RankedAndComplete`); the
  soft scoring by quota left and latency of TECH_DESIGN.md:97-102 is not in the code.
* Health states of keys that leave the configuration stay (health.py:51), and with them
  a failing exit code of `freellm health`; with `--json` the code is always 0.
* `SharedLimit` is about processes whose clocks agree. With other clocks more calls can
  get through: rows of a fast clock come into a slow one's view only later.

## 6. Plan

Done in the first stage: the core (QuotaTracker, Scheduler, RoundRobin, Gateway,
RequestLife), then Reloader, HealthProbe and Router. In the second: RedisTracker and
CommandLine, start and stop of watcher and probe, and the proofs about Reloader,
RedisTracker and the rotation.

In the third: the proofs about the tracker's sums and windows, alone and under the
handlers, and about the router's lists.

What could follow:

1. *Scheduler over RedisTracker*: the handlers of `Gateway` with the round trips of the
   Redis tracker inside `pick`; and the theorems about its table, `TableStep` above all.
2. *Liveness, by its safety part*: invariants that say where a request, an edit or a probe
   can wait, so that only fairness is left to TLC.

## 7. Not modelled, and why

* `providers/litellm_provider.py` is a pass-through; the models use its outcomes.
  The rate-limit headers it parses reach `override_from_headers`, which does
  nothing (quota.py:164-178).
* Metrics, decision log and dashboard are output that nothing reads back; metrics do
  not count streaming requests. The validation script is a schema check run by CI.
* `policy.max_latency_ms` is never read; latencies and error texts of the health
  states are shown only. The layout of what the commands print is left out, and so is the
  exit of `doctor` when litellm, a hard dependency, is missing (cli.py:65-67).
* Time steps only forward, mtimes of different edits differ, and SQLite statements
  and Redis transactions are atomic: facts about the platform that the models assume.
  The clock of a Redis server is never adjusted; those of the hosts are, by at most
  `Skew`. A member of a tokens set parses, as every writer formats it alike.
