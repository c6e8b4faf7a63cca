# SentinelBrief: TLA+ specification

SentinelBrief turns honeypot sessions into triaged alerts. A shipper on the honeypot host follows
Cowrie's log and posts each closed session to an HTTP API; the API stores it as an alert and
queues a triage job; workers run an LLM pipeline over the alert and store a verdict; a web page
follows the verdicts live. This directory holds TLA+ models of that program, TLC runs over small
instances, and TLAPS proofs. Paths below are relative to the repository root.

## 1. Inventory

| Part | State | Operations | Talks to |
|---|---|---|---|
| Alert store (`core/services/alerts.py`, `worker/store.py`) | rows `alerts` (status, unique fingerprint), `verdicts`; row locks | `insert_alert`, `get_alert_for_update`, `persist_verdict`, `set_alert_status`, `flip_alert_to_pending` | API, workers |
| Triage queue (`core/queue.py`, ARQ) | per job id: queue entry and score, payload, in-progress lease, retry counter, kept result | `enqueue_triage`; ARQ's pick, finish, retry, abort | API, workers |
| Worker (`worker/jobs.py`, `retry.py`, `main.py`) | job slots | `triage_alert_job`, `decide_retry`, `mark_alert_failed`; stop, crash | store, queue, LLM |
| Attempt and pipeline (`worker/triage.py`, `routing.py`, `budget.py`) | one open transaction, token totals, daily counter | `triage_attempt`, `TriagePipeline.run` | store, LLM, tools |
| Live publish (`worker/publish.py`) | none | `publish_verdict_created` | Redis pub/sub |
| Ingest route (`api/routes/alerts.py`) | none | `ingest_alert` | store, queue |
| Retriage route (`api/routes/admin.py`) | daily counter in Redis | `retriage_alert` | store, queue |
| Shipper (`honeypot/shipper`) | open sessions in memory; tail position, spool and dead letters on disk | `run_once`: tail, assemble, spool, commit, drain; stop; restart | Cowrie's log, ingest route |
| Live stream (`api/routes/stream.py`) | permits, subscriptions | `stream_alerts`, `verdict_event_stream` | pub/sub, browser |
| Read routes, cache (`api/routes/alerts_read.py`, `core/cache.py`) | cached pages | list, detail, stats | store, browser |
| Browser (`web/src`) | connection mode, settle timer, shown rows | `useAlertStream` | stream, read routes |
| Rate limit (`api/deps.py`) | window counters | `rate_limit` | Redis |
| Tools (`worker/tools`) | reputation quota and cache, recorded fixtures | registry `execute`, lookups, record, replay | external services |
| Evaluation run (`evals/run.py`, `scoring.py`, `judge.py`, `gate.py`, `publish.py`, `record.py`) | permits, case results; fixtures, result files, published lines, baseline | `_run_all`, `run_golden`, `score`, `evaluate_gate`, `record` | pipeline, tools |
| Golden set (`evals/sample.py`, `label_tool.py`, `ai_label.py`, `golden`) | candidate file, golden file | `sample`, `label`, `label_candidates`, `load_golden` | store, pipeline |

What is hard here: the queue redelivers, the row lock is the only thing between two runs of one
alert; every handler is cut in two by a commit; ARQ counts tries by its own rules; the terminal
write is a separate transaction; results of old runs linger under a fixed job id; the log is
rotated and the shipper killed at any point; a page read before a commit is cached after it; an
event is lost while a browser connects; evaluations, record runs and labellers share files without
locks and are killed in the middle of them. `PROJECT.json` lists these hazards at their lines.

What makes each part correct:

* store, queue, workers: one verdict per pending cycle, one run at a time, nothing queued before
  it is durable, acknowledged alerts stay covered by a job, every alert is decided;
* shipper: what the committed offset has passed is on disk or delivered; a session that was
  assembled is never lost but by the documented backstops;
* pipeline: a bounded number of paid calls, totals that account for each, budget checked first;
* stream: permits are given back; cache and browser: the list catches up with the last event;
* evaluation: what is paid for is on disk first, strict replay scores no transient or missing
  evidence unless a record run has the file open, the
  numbers agree with the confusion matrix, exit 0 means what it says, synthetic data is not published;
* golden set: samples have their size and shares, the file loads, labels stand.

## 2. Modules

| Module | Models | Uses |
|---|---|---|
| `AlertLifecycle` | what an alert row promises: absent, pending, then decided by one verdict or one failure; only a retriage makes it pending again | |
| `TriageConstants` | the parameters and their assumptions | |
| `AlertStore` | the two tables and the row lock | `TriageConstants` |
| `ArqQueue` | the job of each alert in Redis | `TriageConstants` |
| `TriageWorker` | job slots running `triage_alert_job` | `AlertStore`, `ArqQueue` |
| `ApiRoutes` | ingest and retriage requests | `AlertStore`, `ArqQueue` |
| `TriageSystem` | the composition, time, fairness, the properties | `TriageWorker`, `ApiRoutes`, `AlertLifecycle` |
| `MCTriageSystem` | instances for TLC | `TriageSystem` |
| `TriageSystemProofs`, `CoverageProofs` | theorems | `TriageSystem` |
| `Custody` | what the spool promises: what it holds stays held until it is settled | |
| `ShipperConstants` | the shipper's parameters and their assumptions | |
| `CowrieLog` | Cowrie (external): sessions, the log and its rotated generations | `ShipperConstants` |
| `LogTailer` | `tail.py`: open file, batch, pending and saved position | `CowrieLog` |
| `SessionAssembler` | `assemble.py`: the open sessions in memory | `ShipperConstants` |
| `Spool` | `spool.py`: files in order, size backstop, dead letters | `ShipperConstants` |
| `Shipper` | `main.py`, `post.py`: the loop, stops, kills, fairness, the properties; TLC runs it directly | `LogTailer`, `SessionAssembler`, `Spool`, `Custody` |
| `ShipperProofs`, `TailProofs` | theorems | `Shipper` |
| `TokenBudget` | `core/budget.py`, `worker/budget.py`: the daily counter; the pipeline's parameters | |
| `TriageRun` | `triage.py`, `routing.py`: pipeline runs and the properties; TLC runs it directly | `TokenBudget` |
| `TriageRunProofs` | theorems | `TriageRun` |
| `LiveConstants` | the read side's parameters and their assumptions | |
| `TtlCache` | `core/cache.py`: `InMemoryTTLCache` | `LiveConstants` |
| `ReadRoutes` | the list route over the cache, and commits | `TtlCache` |
| `EventStream` | `stream.py`: gate, generator, subscription, teardown; publishing | `LiveConstants` |
| `Dashboard` | `useAlertStream`, the composition, fairness, the properties; TLC runs it directly | `ReadRoutes`, `EventStream` |
| `DashboardProofs` | theorems | `Dashboard` |
| `EvalConstants` | the evaluation's parameters and their assumptions | |
| `ToolFixtures` | fixtures on disk, `evals.record`, replay | `EvalConstants` |
| `EvalScoring` | `scoring.py`, `gate.py` as operators | `EvalConstants` |
| `EvalRun` | `evals.run`, and the properties | `ToolFixtures`, `EvalScoring` |
| `MCEvalRun` | command lines for TLC | `EvalRun` |
| `EvalRunProofs` | theorems | `EvalRun` |
| `GoldenConstants` | the golden set's parameters and their assumptions | |
| `Sampling` | `evals.sample` and the candidate file | `GoldenConstants` |
| `Labelling` | `label_tool label`, `ai_label`, the golden file | `GoldenConstants` |
| `GoldenSet` | the composition | `Sampling`, `Labelling` |
| `MCGoldenSet` | an instance for TLC | `GoldenSet` |
| `GoldenSetProofs` | theorems | `GoldenSet` |

### How the triage model corresponds to the code

* An alert is a model value: its fingerprint is its identity, its content is never looked at.
  `status`, `verdicts`, `cycles` (how often the row became pending) and `rowLock` are the row.
* One ARQ job per alert, because `triage_job_id` is a function of the alert id. `queue`, `jobKey`,
  `lease`, `tries`, `resultKey` are ARQ's sorted-set entry, payload key, in-progress key, retry
  key and result key. `EnqueueTriage` does nothing while the payload or a result exists.
* A job slot (`wpc`) is one coroutine of a worker process. `AttemptBegins` is the lock and the
  status check, `Persist` is verdict, status and commit in one transaction, and `Publish`,
  `Finish`, `Requeue`, `MarkFailed`, `MarkRaises` are the steps after it. The LLM pipeline is the
  interval between `AttemptBegins` and its outcome.
* A request is split at its commit. `IngestCommit` covers creation and re-post; `IngestEnqueue`
  ends in a 202 that the client may or may not see; `IngestUnavailable` is the 503.
* `Faults` turns environment behaviour on: `crash` (processes are killed or stopped), `budget`
  (the daily budget is used up), `db` (statements of a job fail), `lapse` (a lease ends under a
  running job), `expire` (a payload's time to live ends).

### How the shipper model corresponds to the code

* A log is a sequence of lines, and a line is a session with what it does to it (`connect`, `command`,
  `closed`) or `junk`, which stands for a line that does not parse or is over-long. A position counts
  lines, the code's counts bytes; both move only over whole lines. The tailer's read-ahead buffer is
  no variable: what is behind the position has been returned.
* Opening the path and reading its inode are two steps (`OpenPath`, `SeekSaved`), so that a rotation
  may fall between them. `DrainRotated` finishes the old generation before the new file is opened.
* A payload is known by its session. `outbox` holds the payloads that `feed` or `flush` returned and
  `put` has not written yet. Eviction and the write are separate points for a kill. `assembled` and
  `evicted` record which sessions ever reached the spool and which the backstop dropped.
* `Posts` covers every answer: 200 or 202, a final refusal, and a retryable answer or none, after
  which the route may or may not have stored the session. The unlink is a step of its own.
* `Dies` forgets all memory; the saved position, the spool and the dead letters stay. `Kill` is the
  death of the process only: nothing is fsynced (`spool.py:59-61`, `tail.py:291-292`), so a power loss
  may also take what was written, and is not modelled. `BreaksOff` is the exit of `--once` and
  `max_iterations` (`main.py:296-299`), which comes before the look at the stop event and skips the
  flush of open sessions; `Stops` and `Exits` are the requested stop.
* `Faults`: `stop` (SIGTERM at any point), `once` (any iteration may be the last one of `--once` or
  `max_iterations`), `truncate` (the log is cut to nothing under the tailer),
  `race` (a rotation between open and stat), `straddle` (rotations and restarts in any order). Without
  `straddle` the process is stopped or killed only when the rotated generations are behind the saved
  position, and Cowrie rotates only the file that the tailer holds. Kills are bounded by `MaxKills`.

### How the pipeline model corresponds to the code

* `TriageRun` opens up the interval that `TriageWorker` leaves between `AttemptBegins` and its
  outcome: several runs of `TriagePipeline.run`, in any worker process, share one daily counter.
* Every LLM call is three steps: `ChecksBudget`, the call with its answer (`Call`), and the record of
  its tokens (`StartsTools`, `Decides`, `Escalates`, `RecordFails`). Other runs and a midnight may
  fall between them. A rejected answer goes from the call to the retry without a record, as in the
  code. Redis is taken to be configured: without it there is no counter to speak of.
* The conversation keeps the author of each message, and for a tool turn the number of calls. The
  retry of a rejected answer works on a copy, so `Rejected` leaves `messages` alone.
* `MaxIter = 0` is the pipeline without a tool registry; `Routing` says that a strong model is set.
  A confidence is in per cent. `calls`, `billed`, `rejects` and `spent` (the tokens billed to all
  runs since midnight) are history: nothing reads them but the properties.
* `Faults`: `read` and `write` (Redis fails when the counter is read or added to; a failed write may
  or may not have counted), `cancel` (the attempt's time limit or a shutdown, at any await).

### How the read-side model corresponds to the code

* A verdict is a number, in the order of commits; a page is the last verdict it was computed from.
  `db` is what is committed, `page[k]` and `left[k]` a cache entry and its remaining life. A request
  is `Asks` (a hit is answered at once), `ReadsPage` and `StoresPage`: commits, other requests and
  time fall between the read and the store. Visitors ask for any key and fill the cache.
* `Slow` bounds the time from a page's read to its store. The code leaves it one second (16 s settle
  delay, 15 s TTL); `SettleAssumption` states what is needed, `Ttl + Slow <= Settle`.
* `active` is `StreamGate`'s count. A connection goes through admitted, subscribed and closed;
  `zombies` are generators whose client is gone and which have not noticed, `teardowns` are shielded
  closings behind a cancelled request. `inbox` is what pub/sub has for a subscriber, `unsent` what
  was committed and not published.
* A tab is `status` (connecting, open, polling, rejected, closed), a wanted refresh and the settle
  timer. `Hears` is the event handler: a refresh now and one when the timer fires.
* Taken as given, outside the repository: Starlette starts a response's generator and runs it to its
  `finally` (so a permit acquired by the route has an owner); Next.js performs a tab's refreshes one
  after the other; the browser reconnects an `EventSource` that broke and not one that was refused.
  The poll interval is not measured, and `rate_limit` is not modelled: server-side rendering is exempt
  from it, and a refused read shows what was shown.

### How the evaluation model corresponds to the code

* A case is a number (its place in the golden file) with a labelled severity and the lookup its
  triage makes; a fixture is absent, partly written, an answer or a transient failure. `ReplayToolRecorder.execute`
  is two steps: `Consults` looks for the file and `ReadsFixture` reads it. A record run (`Records`) goes
  on meanwhile, between the two as well: it skips files that exist, writes, and unlinks a transient
  result. `touched` is history: the calls whose file it had open while the cases of a prompt ran.
* `ev` follows `_run_all`: checks (`Refusal`, in their order), then per prompt the cases under the
  semaphore, `Scores`, `WritesArtifact`, `WritesRow`, `PublishesLine`, and after the loop `Reports`,
  `WritesBaseline`, `Gates`. `begun`, `saved`, `rowed` and `lined` count prompts.
* Rates are compared as counts over the same number of cases and costs as whole numbers: the six
  decimals of the mean cost are left out. `EvalScoring` keeps what the gate and the table read.
* `EvalFaults`: `kill`, `disk` (the result file cannot be written), `database`, `drift` (the table of
  `docs/results.md` is not the expected one).

### How the golden-set model corresponds to the code

* An alert is a number with its stratum and its sensor and day, in the order the code sorts them.
  Every draw of the seeded generator is a nondeterministic choice, and the order of a candidate file
  is any order, so `--start-at` leaves out any part of it.
* `max(5, n // 8)` and `n // 4` are the constants `MinFloor`, `FloorShare` and `CapShare`; the
  instance scales `MinFloor` to 1.
* The golden file is a sequence of lines: a row with its case and provenance, or `Torn`; `ended` says
  that the last one has its newline. Rows are written one by one (`Labels`, `AiWrites`), and a kill may
  fall before a row, inside it, or before its newline (`CutsLine`). `shared` and `cut` are history.
* The sampler and the labellers are not at work at the same time (`OneAtATime`, a bound).

## 3. Runs

| Run | Instance | Checks |
|---|---|---|
| `triage_clean` | 2 alerts, 2 slots, 2 tries, no faults | `PendingIsCovered`, `EventuallyDecided` |
| `triage_crash` | 1 alert, 2 slots, crash, budget, expiry, one retriage | `LifecycleSpec`, `QueueDrains` |
| `triage_overlap` | 1 alert, 2 slots, 2 posts, 2 retriages, every fault | `TypeOK`, `OneVerdictPerCycle`, `AttemptOwnsRow`, `QueuedIsDurable`, `AnnouncedOnce` |
| `shipper_spool` | 2 sessions, 2 files, stops, `--once`, 1 kill, spool of 1 | `TypeOK`, `OffsetBehindSpool`, `CustodySpec` |
| `shipper_rotation` | 1 session with an extra line, 3 files, stops, `--once`, 1 kill, batches of 1 line | `StopKeepsSessions`, `SessionIsShipped` |
| `pipeline` | 2 runs, budget 3, calls of 1 token, 2 tool turns of up to 2 tools, both tiers, 1 midnight, failing records, cancellation | `TypeOK`, `CallBound`, `TotalsAccount`, `RetriedIsReported`, `EvidenceOnly`, `OvershootBounded` |
| `live` | 1 tab, 1 visitor, 2 keys, cache of 1 entry, TTL 1, settle 2, 1 permit, 1 verdict; Redis, network and database fail | `TypeOK`, `PermitsAccount`, `SettledIsShown`, `CacheBounded`, `Fresh`, `PermitsReturn` |
| `evaluation` | 2 cases, 1 fixture, 5 command lines, a record run, every fault | `TypeOK`, `StrictEvidence`, `RecordedIsReplayable`, `Throttled`, `SpendIsOnDisk`, `SyntheticUnpublished`, `MetricsAgree`, `GreenIsGood`, `RunEnds` |
| `golden` | 5 alerts, 2 categories, 2 groups, sizes 1, 3 and 4, 2 labellers, 2 rows, kills | `TypeOK`, `SampleIsFair`, `GoldenLoads`, `LabelsStand` |

Bounds: two slots are enough for every overlap of two runs, two tries give a first and a last one,
two alerts compete for slots, two cycles allow one retriage. `MaxCycles` bounds retriages; nothing
else is capped artificially. Only the safety runs `triage_overlap` and `golden` use symmetry.

In the shipper, two sessions interleave their lines, compete for the spool and can evict one another;
three files give a generation that is rotated twice; a batch of one line cuts every session over
several commits; one kill reaches every point of the loop. Stops, exits of `--once` and restarts are not bounded.

In the pipeline, two runs are enough to pass the check together; two tools make a result that is not
the last one; severities 4 and 5 lie on both sides of the escalation threshold; a cap of two has a turn
that is not the last. A budget of three and one token a call make the bounds of `OvershootBounded`
tight: TLC refutes either of them lowered by one. The proofs cover every budget, size of a call and
cap. Runs end, so `pipeline` does not check for deadlock.

On the read side one verdict and one tab are enough for a stale page: a visitor reads before the
commit and stores after it. The cache has fewer entries than there are keys, so it evicts; the gate has
one permit, so a second connection of the tab meets the first one's zombie. `Settle = Ttl + Slow` is
the tightest setting the assumption allows. Tabs open and close without bound.

In the evaluation, two cases with one permit wait for one another; labels 4 and 3 with answers 4 and 3
give hits, misses and critical cases; the five command lines are two prompts gated and published, a
baseline recorded over another, a synthetic golden set with a second prompt that does not exist, the
same published, and `--from-artifact`.

In the golden set, size 1 cuts the floors of two categories, size 3 fills from two groups after one
category was excluded, and size 4 takes the injection share; two labellers overlap; two rows suffice
for a case that is there twice and for a row glued to one without its newline.

Three runs expect a violation. Each shows a sequence of steps the code takes against a statement of
the repository; `PROJECT.json` quotes the statements.

| Run | What happens |
|---|---|
| `retriage_enqueues` | a retriage within an hour of the last run answers 202 and queues nothing, the alert is pending with no job |
| `budget_deferral` | a budget deferral on the last try leaves a job that ARQ refuses after midnight |
| `rotation_straddles` | the log is rotated while the shipper is down, or stopped with unread lines of a rotated file: the next start opens the new file and the rest of the old one is never read |

Other places where the code and its documents differ, seen in the models and not given a run:

* a worker lost on the last try: the re-run past the cap is refused inside ARQ and the alert is never
  decided, where `worker/retry.py:66` counts it among the tries that mark an alert failed
  (`TriageSystem` with `Faults = {"crash"}`: `DropJob` on a pending alert);
* a verdict is committed, the worker dies before the job finishes, the re-run's lock query fails on the
  last try and the terminal write, which does not look at the status, turns `triaged` into `failed`
  (`Faults = {"crash", "db"}` violates `LifecycleSpec`); `worker/triage.py:507` says a re-run "must wait
  for the truth";
* an answer that does not validate is billed and added to the run's totals, never to the daily
  counter (`worker/triage.py:403`, `:426`), where `PRD.md:189` says the budget counts every call. What is
  counted overshoots the budget by less than one call for each run, what is billed by less than three:
  `OvershootBounded` states both;
* `--once` and `max_iterations` leave the shipper's loop before the flush of open sessions: with their
  lines behind the committed position they are lost without a kill, where `main.py:220` calls these exits
  a clean stop (`StopKeepsSessions` names the exception; with `Faults = {"stop", "once"}` and without the
  exception TLC violates it). The service runs without `--once`;
* the failure table of `evals/run.py` puts configuration errors before any case runs: an unknown second
  `--prompt` and a drifted results table are found after cases were paid for. `--publish` appends its
  line even if the run then exits 1 for missing fixtures, and `--write-baseline --force-baseline`
  replaces the baseline even if `--gate` then fails;
* `judge_case` says a failed attempt's spend is never dropped: of two rejected replies the second's cost
  is kept, of a transport failure on the retry neither;
* a record run killed between the write of a transient result and its unlink leaves the file, which
  later record runs skip and strict replay refuses;
* a strict case that finds a fixture and reads it while a record run is writing it, or after it was
  unlinked, is given `fixture_unreadable` (`worker/tools/recorder.py:210-213`) and scored on that, as is
  one that meets a file a killed record run left half written. Only a file that is absent when looked
  for, or holds a transient result, raises `FixtureMissingError`.

In the instance of `rotation_straddles`, `Faults = {"truncate"}` (the log is truncated in place and
what is written below the old position is never read) and `Faults = {"race"}` (the log is rotated
between open and stat, the old handle gets the new inode) violate `ClosedIsShipped` as well.

Fairness (`FairSpec`), used by the liveness runs:

* a started job's next step happens (weak): the attempt is under `wait_for`, every socket has a
  timeout;
* a due job is picked (strong, since slots are busy in between): ARQ reads due jobs in score order;
* leases, results, backoffs end and days pass (weak);
* the client posts a session until it sees a 2xx, and an enqueue tried again and again succeeds
  some time (strong): this is the shipper's spool and Redis coming back. Nothing is assumed of the
  administrator, of crashes or of payload expiry.

In the shipper (`Shipper!FairSpec`):

* the process takes its next step and systemd restarts it (weak);
* Cowrie creates its log file (weak), but no session is made to close;
* a payload posted again and again is answered some time, with acceptance or a final refusal (strong);
* a session without new lines is idle for `idle_flush_s` some time (strong, per session).

On the read side (`Dashboard!Fairness`, all weak): timers fire and events are handled, requests are
answered, a published event is sent, the server notices a client that is gone and closes its
subscription, time passes. Nobody has to open or close a tab, and nothing has to fail or succeed that
can fail. In the evaluation (`EvalRun!FairSpec`) the process takes its next step: calls of the model are
answered or time out. The golden-set processes wait for people; nothing is assumed of them.

## 4. Proofs

`TriageSystemProofs` proves, for all constants that satisfy the assumptions of `TriageConstants`,
`TypeCorrect`, `AtMostOneVerdict`, `ExclusiveAttempt` and `DurableBeforeQueued`. The argument is one
inductive invariant, `IndInv`: `OneVerdictPerCycle` is not inductive alone, because `Persist` adds a
verdict and only `AttemptOwnsRow` says that the row is still pending then; that in turn needs the
types and that queued alerts exist. `AnnouncedAtMostOnce` counts: what was announced of an alert and the
slots that stand between their commit and their publish are together at most its verdicts, so a slot
that dies there loses an announcement and never repeats one. Counting slots is what
`WorkersAssumption` (there are finitely many) is for. `ImplementsLifecycle` shows that every step maps to a step of
`AlertLifecycle` or a stutter, assuming no lapsed lease and no failing statement of a job
(otherwise the late failure of section 3 is a counterexample); it needs `RunInv`: one slot per job, and a slot
about to write `failed` has a pending row. `CoverageProofs` proves `PendingIsCovered` without
crashes, deferrals, expiry and retriage from `CoverInv`: a kept result means decided, a payload
exists exactly for queued jobs, a free job has tries left, an acknowledged alert has a row.

`ShipperProofs` proves `ShipperTypeCorrect` and `ImplementsCustody`: every step of the shipper, kills
included, is a step of `Custody` or a stutter. Its invariant is the types and `AnsweredHead`: when
the process is about to unlink a payload, that payload is the oldest one and was accepted. The
refinement needs it because the answer and the unlink are two steps with a kill possible between.

`TailProofs` proves `OffsetSafe` and `StopSafe` for any number of sessions, lines, generations of the log,
kills and stops, any batch and any spool size, under `Calm`: the log is not truncated, not rotated between
the open and the stat, and no restart meets a generation that was not read to its end. The hypothesis
cannot be weaker: TLC finds both properties violated with any one of the three faults. The
invariant has two halves. `TailInv` is about positions: the batch in hand is exactly the stretch of the log
between the saved position and the pending one, the open file is the newest generation or the one before
it, and every other generation is behind the position that the next commit leaves. `SessionInv` is about
sessions: what the position has passed, and what was fed of the batch, is open with all its lines, on its
way to the spool, or spooled, or was orphaned by a kill. `commit_offset` then moves the position over lines
whose sessions are already accounted for. `KeptInv` and `LossInv` say when a session is orphaned: only
after a kill, or where `--once` may end the process; a requested stop orphans none.

`TriageRunProofs` proves `RunTypeCorrect`, `CallsAreBounded`, `OutcomeAccounts`, `RetriesAreReported`
and `OvershootIsBounded` (the last while the counter can be read) for any number of runs, any cap and
every other fault. The invariant adds to the
types, for each run: `Position` (the calls made are bounded by the turns, tiers and retries passed so
far, since a bound on the sum alone says nothing of what may still come), `Ledger` (totals and bill
differ by the answer in hand), `Reported` (rejections so far show in the flag or in the retry under
way); and for all together `Headroom`: the counter plus one call for each run that has passed its
check and has not recorded stays below the budget and one call for each run. That bounds what is
counted. For what is billed there is `SpendInv`: the tokens spent, with those that calls under way may still
be billed, are at most the tokens counted and what the runs owe beyond them (`Owes`: a run's uncounted calls
and the one in hand, three at most, since `FewRejections` allows two rejections and the run ends with the
third); and they stay below the budget and that room for every run. A sum over the runs is
the size of a set of pairs (`Pile`), so that a step of one run changes it by that run's share. `CallsSeeEvidence` adds
`Evidence`: the conversation lacks the results of the tools this turn has still to execute and no others,
so that between two turns every tool call is answered, however many tools there are.

`DashboardProofs` proves `DashboardTypes`, `SettledSafe`, `PermitsSafe` and `CacheSafe` for any number of
tabs, visitors, keys and verdicts. `SettledIsShown` follows from `HeardIsTracked`: a page older than what
a tab heard is cached, or about to be stored, only while the tab's settle timer is set and fires after
the page has expired; this is where `Ttl + Slow <= Settle` is used. The permits are counted: each step
adds a holder with a permit, moves one, or takes one away.

`EvalRunProofs` proves `EvalTypes`, `ThrottledSafe`, `StrictSafe`, `RecordedSafe`, `SpendSafe`,
`SyntheticSafe`, `MetricsSafe` and the action property `GreenSafe` for every golden set, command line and
concurrency, from `EvalInv`. Its parts: a half-written or unchecked fixture is the one call the record run
is at (`RecInv`); evidence is held only while a case is triaged, and a file that a case has found and not
yet read is there, or was open in a record run while the cases ran (`Held`); a run that was let begin with
`--publish` or `--write-baseline` is over a v2 set (`Honest`); no prompt is begun beyond those asked for,
there is one row for every result file and one more between `score` and the write (`Asked`, `RowsInv`); a
run past its reports has no missing fixture and some success, and has not exited yet (`Passed`); a score is
of a call that was paid for, and the judge is called only for a case with a verdict (`Paid`). Strict
evidence needs that the record run never touches a file that holds an answer, and none that it did not
create itself.

`MetricsAgree` needs what sums over arbitrary finite sets come to. The library's induction rules cannot be
used (they take an operator), so the lemmas `SumsUpUnique`, `SumsUpExists`, `SumNat`, `SumBounds` and
`CountedByKey` argue from a minimal counterexample: of the subsets of a finite set for which a claim fails
one has no smaller one (`MinimalSubset`, from well-founded strict inclusion), and taking one member from
it gives a contradiction. `CountedByKey` is the heart of it: counts by a key add up to the cases whose key
is counted, which gives the rows, the columns, the diagonal and the critical corner of the matrix.
The percentile is treated by ranks: ordered by cost and place, the number of cases up to a case is an
injection into `1..n`, hence onto it, so the case at the nearest rank exists (`PercentileFits`).

`GoldenSetProofs` proves `GoldenTypes`, `GoldenLoadsSafe`, `LabelsStandSafe` and `SampleFair` for every set of
alerts, any shares, labellers and rows. `GoldenLoads` rests on `Unseen`: a labeller that is alone has before it
only cases the file does not have, and writes only after a whole line. `LabelsStand` needs no such assumption.
`SampleIsFair` speaks of the moment the loop ends; its invariant says where each turn of it is. `RingInv`: the
ring holds the groups of the rest, each once. `BudgetInv`: never more than the size is
selected, and unless the cut reached the size every category has what was drawn for it. `RoundRobin`:
groups already visited in this round have given one more than the others, or have no more to give.

Every invariant and action property that a run checks is also a theorem. Model-checked only are the
liveness properties (`EventuallyDecided`, `QueueDrains`, `SessionIsShipped`, `Fresh`, `PermitsReturn`,
`RunEnds`), which rest on fairness, outside the prover's reach. The inductive invariants
of `AnnouncedAtMostOnce`, `OffsetSafe`, `StopSafe`, `OvershootIsBounded`, `CallsSeeEvidence`, `StrictSafe`, `SampleFair` and `MetricsSafe` were
checked with TLC on the instances of section 3 before they were proved.

## 5. Plan

What could still be added: the composition of shipper and triage service (a closed session is decided in
the end); the quota of the reputation lookup; as theorems, that a step of the shipper outside `Calm` breaks
no more than the generation it concerns, and coverage of a pending alert under crashes.

## 6. Not modelled

Request parsing, signatures and tokens (they refuse a request before any state changes), prompt and
summary text, LLM wire formats, rendering, migrations and deployment files. The lookups behind the
tools are external. Of the read side, the detail route (never cached, `alerts_read.py:170`), the stats
route (one cache entry with a TTL of its own), `RedisTTLCache` (it backs only the worker's reputation
lookups) and the rate limit; of the shipper, a power loss, which may take files that were written and not
fsynced; of the evaluation, report formatting, `rereview` and `stats` (they read
the golden file only) and a tie of two verdicts' timestamps in `_fetch_eligible`; the operators' scripts,
which call the same functions once. `PROJECT.json` gives the reason per component.
