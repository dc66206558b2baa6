# txt2sql: a TLA+ verification project

txt2sql answers questions in natural language with read-only SQL on MariaDB, and judges
itself with an evaluation suite. This directory holds TLA+ models of the parts of it where
order, failure, time or the meaning of SQL matter, the TLC configurations that check them,
and TLAPS proofs about them. Paths are relative to the repository; `pipeline.js` is
`src/pipeline.js`, `index.js` is `apps/web/src/server/index.js`, `eval.js` is
`scripts/eval.js`.

    tlc -workers 2 -config RuntimeManager.cfg RuntimeManager
    tlapm RuntimeManagerProofs.tla

`PROJECT.json` lists the components, the runs, the hazards, the theorems, for every
definition the lines of code it stands for, and for every checked property a mutated
definition (the operators commented "Faulty") with which TLC finds it violated.

## 1. Inventory

### Components

| Component | State it keeps | Operations | Hard behaviour | Correct when |
|---|---|---|---|---|
| Runtime manager (`runtime-manager.js`) | current entry, the one a refresh builds, the retired ones; per entry a load promise, `inFlight`, grace timer, `closing` | `acquire`, `release`, `refresh`, `close`, `status` | loads that fail or finish after shutdown or after they were replaced; grace timer against the last `release`; shutdown during a refresh | no pool closes under a lease, none is lost, shutdown ends all, new requests get a live runtime |
| Pool execution (`pipeline.js`: `executeReadOnlySql` and below) | one connection and one statement per call | take a connection, run, cap rows, abort, KILL, settle, give back | abort at every await; a hand-out that arrives late; a KILL racing the end of its statement; a KILL or statement that never ends | a KILL hits its own statement only, connections go back clean, no slot leaks, no rows after an abort |
| Question pipeline (`query-service.js`, with widening in `pipeline.js`) | attempt, allow-list, widened tables, last response and error, usage | one question: resolve, complete, validate, widen, execute, retry | several exits from a retry loop; partial failure with money spent; state carried from one attempt to the next | attempts and usage are exact, SQL stays in the prompt's tables, widening accumulates, an abort ends it |
| Question routes and cache (`index.js`, `result-cache.js`) | per request a lease and a signal; memoized schema inspection; cache entries and generation | ask, deep health probe, admin refresh, cache `get`/`set`/`clear` | cache state read before three awaits and used after them; a refresh in between; the client leaving at any await | no stale write in the cache, no lease leaks, a cancelled question is not an answer, every request ends |
| Server lifecycle (`lifecycle.js`, `main.js`) | listening socket, open connections, request counter, force timer | signal, drain, close, exit | a second signal; a connection that never ends; responses whose connection is gone | exit code 0 means all was answered; it exits |
| Request guards and limiter (`security.js`) | count and window per client | admit, prune | window boundaries; the map's bound | at most the limit per window, and the map stays small |
| Client stream (`query-stream.ts`, `stream-protocol.ts`, `App.tsx`) | the run in hand, its abort controller, the reducer's state | ask, stop, clear, frames, dispose | frames of a superseded question; stop against a late `done`; React's delayed renders | what is shown belongs to the question shown and says how it ended |
| Retrieval, join paths, widening (`pipeline.js`, `schema-scope.js`) | queue of a search | tables for a question, join trees, connectors | ties, unreachable tables, bounds on hops | paths are shortest, the tables of a prompt can be joined |
| SQL tokenizer, validator, guardrails (`sql-tokenizer.js`, `sql-guardrails.js`) | none | scope of a statement, meaning of its names, fan-out, metric differences | nesting, CTE windows, aliases, nullable joins | the verdict is what the server would make of the statement |
| Pricing (`pricing.js`) | none | price, cost of a call, sums | unknown prices, the provider's own charge, currencies | every charge is counted once |
| Evaluation pool (`eval/pool.js`) | started, skipped, cancelled cases, money spent; per task a deadline, a grace timer, a signal | start a task, deadline, stop, finish, abandon | a task that answers late, ignores its signal, or races deadline and stop | a late task never counts as a pass, all tasks are accounted for, the budget overshoots by cases in flight only |
| Evaluation runner and cases (`runner.js`, `evaluate.js`, `case-trace.js`, `attribution.js`, `oracle.js`, `benchmark.js`, `suite.js`, `verify.js`, `eval.js`) | golds in a shared cache, attempts, outcomes; the baseline file | select and verify the suite, run a case, judge, summarise, gate, write the baseline | a gold that breaks in mid-run; shared promises of aborted cases; the suite and the baseline changing between two runs | blame is fair, equal means equal, a gate has tested something |
| Evaluation analysis (`rescore.js`, `compact-report.js`, `holdout.js`, `report-markdown.js`, `compare.js`, `stats.js`) | reports on disk, the holdout manifest | rescore, compact, freeze, display | a rescore of a rescore; hand edits; figures that give hidden cases away | rescoring is stable, compaction loses nothing that is read, the freeze is right |
| Fixtures and databases (`fixture-seeder.js`, `setup.js`, preflight and grants in `pipeline.js`) | tables and a meta row per fixture | check, seed, check again; start the compose database; review grants | two checkouts on one server; a crash in mid-seeding; others starting and stopping machines | a usable fixture was exact; nobody else's database is touched |
| Completion clients, model configuration, master-data resolver, schema compiler, layout, insights, environment, trace | none, or one pass | transformation and I/O | little | outside these models |

### Interactions

A question comes in over SSE or JSON (`index.js`). `answerQuestion` leases a runtime from
the manager (a call with a promise; the manager counts leases), asks for the memoized
inspection of the database (a promise that requests on one runtime share), looks in the
result cache (shared map), and calls `runOptimizedQuestion`. The pipeline calls the provider
and, for accepted SQL, `executeReadOnlySql` on the runtime's mysql2 pool. One `AbortSignal`
per request, fired by the client's departure or by the deadline, is passed down through
all of them; `untilAborted` races each await against it. An admin refresh has the manager
build a new runtime, swap it in and retire the old one, and then clears the cache.
Shutdown closes the server, then the manager's runtimes. The evaluation pool calls the
same pipeline with signals of its own; its cases share the gold cache, its runs the report
files and the fixture databases.

Node runs one callback at a time. An action of these models is therefore the code between
two awaits, and the interleavings are those of the awaits. Reactions to one promise run in
the order they were registered, before the next event; where code depends on it
(`currentEntry`'s and `refresh`'s handlers on a load) they are part of the same action.

## 2. Modules

| Module | What it is |
|---|---|
| `RuntimeContract` | abstract: a runtime is opened once, leased, replaced, and ended only if nobody holds it, its grace is over or the server is closing |
| `RuntimeManager` | detailed; implements `RuntimeContract` |
| `PoolExecution` | cancellable statements over an external pool and server |
| `QuestionContract` | abstract: at most `Budget` completions, reads in scope only, one end |
| `QueryPipeline` | detailed; implements `QuestionContract` |
| `AnswerServer` | the routes, the shared inspection, the cache, the admin refresh |
| `ServerLifecycle`, `WebAdmission`, `QueryStream` | shutdown; guards and rate limiter; the client's stream, reducer and page |
| `ForeignKeys`, `JoinPathSearch`, `TableRetrieval` | paths by definition; the search, one action per table taken; retrieval, scope and widening |
| `SqlTableScope`, `SqlColumns`, `SqlFanOut`, `MetricGuard` | what the code reads off a statement, against what the server makes of it |
| `Pricing` | what calls cost |
| `DatabaseSetup` | accounts, the preflight with Docker, the review of grants |
| `EvalPool` | the task pool of evaluation runs |
| `CaseOutcomes`, `CaseRun`, `CaseSummary` | outcomes and what they add up to; one repetition of one case; the summary of its repetitions |
| `EvalGate`, `HoldoutDisplay` | runs of `npm run eval` against the baseline; what reports and console show of holdout cases |
| `SuiteCheck`, `HoldoutFreeze` | selection and verification of the suite; the holdout manifest |
| `ResultOracle`, `BipartiteMatching`, `GoldCache` | the comparison of results; its matching algorithm step by step; the shared gold rows |
| `Rescore`, `CompactReport` | rescored reports; baselines compacted and read back |
| `FixtureSeeding` | checking and seeding fixtures, several runs at once |
| `MC*` | instances for TLC |
| `*Proofs` | theorems; a proof module may hold those of several components that do not depend on each other |

**RuntimeManager.** `load`, `pool`, `inFlight`, `retired`, `timer`, `closing` are the fields
of an entry, arrays over entry ids; `current`, `refreshing`, `retiring`, `closed` are the
manager's. `Acquire` is `acquire` up to its await,
`AcquireReturns`/`AcquireFails` the code after it, `Release` `release`, `StartRefresh`
`refresh` up to its await. `LoadOk`, `RefreshOk` and `LoadFails` are the end of a load with the
handlers that `refresh` and `currentEntry` put on it (`Retire` is part of `RefreshOk`),
`GraceExpires` the timer of `retire`; `EndPool` is the call of `runtime.close()` in
`closeEntry`, `CloseSettles` its end; `Shutdown` and `ShutdownReturns` are the two halves of
`close`.

**PoolExecution.** `stage` is where a call is: `queued` for a connection, `handed` one that
it has not used, `reading`, `settling` in the background wait after an abort or overflow,
`done`. `thread` and `stmt` are the pool's and the server's view, `read` the promise of
`readRows`, `kill` the KILL QUERY. `victims` is a history variable: whose statement a KILL
meant for another call ended. Pool and server are external, modelled from how the code uses
them: idle connections in any order, new ones up to `Limit`, and a server that goes on with
a statement whose client has gone.

**QueryPipeline.** SQL is the set of tables it reads; `Retrieved` and `Linked` stand for
what retrieval picks and what widening adds (`TableRetrieval` gives them their meaning). `pc`
is the await. `calls`, `billed`, `ran` and `rejected` are history: what was really asked,
billed, run and rejected, against which the reported `attemptCount` and `llmUsage` and the
allow-list are judged.

**AnswerServer.** `began` is the cache generation read before the lease, `awaits` the
inspection a request waits for, `late` the requests that were answered while `acquire()` was
pending (their `onLate` releases the lease). An entry of `cache` has its key (schema
version) and the runtime it was computed on. `clearedFor` is history: the runtime that was
current at the last clear. `DatabaseChanges` is the administrator. Two parts are abstracted
to what is established elsewhere: the manager (a leased runtime stays usable until
released, `NoCloseUnderLease`) and the pipeline (it returns once its signal fires,
`AbortAnswers`; it may still report success). Whether an entry has reached its TTL is left
open (`SchemaReady` may hit, or drop the entry and run).

**ServerLifecycle.** A response emits 'finish' and 'close' as Node does; the counter of
`startServer` and the callback of `server.close()` are two views of it that may disagree
for a step. **WebAdmission.** Middleware in its order, then the fixed window per client with
the pruning of the map; time is a small clock. **QueryStream.** A run is named by its request
id; `dispatched` holds the actions React has not applied, and `RenderUrgent` renders what is
urgent before the transitions (`rows`, `viz`) as React may. A page has two runs at most in
the instance, each answered in one of five ways, in any pieces.

**The SQL modules** each carry a reference: `SqlTableScope` the tables that the server reads
for the statement's tree, of which the code sees only tokens; `SqlColumns` the table column
every name means, found by running the statement on rows whose values are their own names;
`SqlFanOut` whether a sum, over the rows or over one value per group (`SUM(MAX(x)) OVER ()`),
counts a parent's row twice on some small database; `MetricGuard`
whether the result tells two values of the difference apart. The code's part is translated
from the code and never looks at the reference.

**EvalPool.** A lane of `runPool` has a `phase` and a `task`; its `deadline` goes from
`ahead` through `passed` by the clock to `fired`, when the timer has run, since
`deadline.passed` reads the clock; `grace` is the timer armed by the deadline or by the stop,
whichever comes first. `TakeNext` is one round of the loop (cancel, skip or start), `Loop`
what a lane does when `onResult` has resolved. The verdict of a task, pass or not, is one
value, `kept`. `late` and `unseen` are history: the tasks still running when their deadline
passed, and the cost of tasks whose result carries none. A run without a budget is one
whose budget is never reached.

**CaseRun.** The truth the harness has to find out (what an SQL's rows are worth, which rule
of the validator it meets) is a constant of each SQL; databases and providers fail at any
step, within `MaxFaults`; `tries` are the attempts rebuilt from the trace, `checked` the memo
of re-checked rejections. **EvalGate.** `Begin`, `Select`, `LoadBaseline` (or `LoadRecording`)
and `Finish` (or `FinishRescore`) are the awaits of one run, which compares with the default
baseline, its recording or the report that the command line names; between them `EditTree` and
`RemoveFile` change the suite, the sources and the baseline. **SuiteCheck**
is one job: build the suite, run golds and controls, decide. **HoldoutFreeze.** A hash of a
value is the value; a text is its words and its white space outside and inside quotes,
which is what the fingerprints tell apart. `handEdits` are the edits of the manifest by hand
since a `--write` put it right.

**GoldCache.** A cache entry is a promise and dies with the signal of the call that started
it, while other cases' calls wait for it. **Rescore.** A day says what becomes of each SQL under
that day's validator, gold and databases; `Replay` is the loop over recorded attempts in
closed form (how far it gets, what it widens, where it stops). **CompactReport** keeps each
repetition twice, whole and compacted, and reads both. **FixtureSeeding.** Runs of several
checkouts, each with a version of its generator, share a server; statements fail, runs crash,
people edit.

## 3. What the runs show

| Run | States | Properties |
|---|---|---|
| `RuntimeManager` | 49,692 | `NoOrphanPool` (with exact lease counts, no close under a lease, shutdown reaching all); implements the contract; `ClosingEnds`: `close()` returns and a retired pool ends |
| `PoolExecution` | 27,056 | `KillHitsOwnStatement` (with clean idle connections, no leaked slot, no rows after an abort); a cancelled call gives its slot back |
| `QueryPipeline` | 541,740 | `UsageReported`; `RejectionHeals` (widening sticks, SQL in the prompt's tables); implements the contract; an abort answers |
| `AnswerServer` | 676,383 | `CacheIsFresh`: no stale write survives a refresh; `DeadlineBoundsRequest` |
| `EvalRun` | 606,642 | pool: `OvershootBounded`, `RunEnds`; one repetition: `JudgedFairly`; its sums: `SummaryIsFair`; the gate: `GateHasTested`, `BaselineIsComplete`; the reports: `HoldoutStaysHidden` |
| `Product` | 347,317 | lifecycle: `CleanExit`, `ShutdownEnds`; limiter: `LimitKept`; client: `PageIsRight`; retrieval: `PathIsShortest`, `PromptJoinable`; SQL: `ScopeIsExact`, `NamesAreTheServers`, `FanOutExact`, `DifferenceReachesResult`; database: `GrantsAreJudged`, `PreflightIsSafe`; money: `ChargesAreCounted` |
| `Evaluation` | 410,872 | oracle: `VerdictIsExact`, `MatchingExact`; gold cache: `GoldAnswered`; reports: `RescoreStable`, `BaselineReadsAsReport`; fixtures: `SeedingRepairs`; suite: `PassIsDeserved`, `SelectionIsOrderFree`; holdout: `FreezeHolds` |

`Product`, `Evaluation` and `EvalRun` hold several components that share no state: a behaviour
is one component's, chosen at its start (`part`), so a run explores the sum of the state
spaces. Each component still has its own `Spec`, about which the theorems are.

The five other runs each refute one statement of the repository (below).

### Bounds, and why they are enough

* *RuntimeManager*: 2 requests, 3 runtimes, finite grace. Three runtimes allow a refresh
  over a loading or leased runtime and then a second refresh or a retried load; two requests
  can hold two generations at once. `MaxRuntimes` only bounds `nextId`.
* *PoolExecution*: 2 calls, 1 slot, 2 server threads. With one slot the second call gets the
  first one's connection, or, once it is destroyed, a new thread: the two cases in which a
  KILL could hit the wrong statement.
* *QueryPipeline*: up to 3 attempts; a retrieved table, one whose widening brings a
  connector, the connector, one without, and a foreign table; all three schema scopes. Two
  different widenings in a row need three attempts.
* *AnswerServer*: 2 requests of any kind, 2 admin refreshes, 2 runtimes, 2 inspections, 3
  states of the database, a cache of one entry. A question may start on runtime 1, be
  overtaken by refresh and clear, and write.
* *Lifecycle*: 2 connections. *Limiter*: 2 clients, `MaxRequests` 2, `Window` 2, `MaxKeys` 1,
  4 ticks: both boundaries of a window, and a map beyond its bound. *Stream*: `MaxId` 2, at
  least one answered by a result; a second question, or a clear, over the first one's frames.
* *Retrieval*: every graph of 4 tables for the search, 6 schemas of 5 tables for prompts;
  `JoinHops` 2, `WidenHops` 1 (the code's 3, scaled).
* *SQL*: some 7,000 statements with nesting: derived tables and CTEs in CTEs, UNION,
  shadowing, USING. `SqlFanOut`: 9,604 sums, grouped by up to two columns, over 2 related tables of
  at most 2 documents and 2 lines each. `MetricGuard`:
  2,843 pairs of statement and metric, up to 4 levels, one difference per statement or UNION
  position. *Database*: 242 settings, machines with the run's or others' volume and port, one
  thing meddled with, some 1,300 grants. *Pricing*: 8 ids, 6 override lists, 13 usages.
* *EvalPool*: 2 lanes, 2 cases of 2 repetitions, budget 2 (`EvalBudget`: 3 cases, budget 1).
  *CaseRun*: 2 retries, 2 faults, two guardrail rules and the safety rule. *EvalGate*: 2 runs
  (10 gating and 5 writing option sets), 4 cases, 2 golds, 1 change, significance 3/5 (the
  code's 5/100, scaled to lists this short), 4 earlier reports. All reports of a behaviour
  have the same number of repetitions per case.
* *HoldoutDisplay*: 1 dev and 2 holdout answer cases, 1 holdout behaviour case, 1 or 2
  repetitions (pass rates in halves). *SuiteCheck*: 22,156 jobs of up to 3 datasets of 2 cases, 1 glitch; floor 1/2.
  *HoldoutFreeze*: 2 datasets, 3 cases, 2 edits; 4 edits on a smaller instance.
* *Oracle*: some 80,000 comparisons of up to 3 rows; every 3x3 graph for the matching. *Gold*:
  3 calls of 2 queries. *Rescore*: 2 attempts, 2 rescores. *Compaction*: 678 recordings on 11
  days. *Seeding*: 2 runs, 2 fixtures, 2 versions, 1 trouble.

Deadlock checking is off in each run because the models legitimately stop: requests end,
the bounds are used up, the server is down, a job is decided. That nothing waits forever is
stated as liveness instead.

### Fairness, and why the code justifies it

Only what Node guarantees is fair: callbacks of settled promises run and timers fire
(`GraceExpires`, `ShutdownReturns(TRUE)`, `Settle(r, TRUE)`, `Abort` by the deadline,
`DeadlineFires`, `Abandon`, the code between two awaits, `EndPool` among it; in
`ServerLifecycle` the force timer and the callbacks after it, with an `onClose()` that settles as
`ClosingEnds` shows; in `GoldCache` the reactions to a settled promise, and the end of a gold
query, which has a statement time limit; in `FixtureSeeding` and `BipartiteMatching` the next step of a loop that
waits for nobody). Loads, statements, KILLs, the closing of a pool (`CloseSettles`), the
provider and clients may never finish. Hence `ClosingEnds`, `CancelledSlotReturned`,
`AbortAnswers`, `DeadlineBoundsRequest`, `ShutdownEnds` and `RunEnds` rest on the time limits
in the code. Four assumptions go further: `RunEnds` needs a progress callback that settles;
`DeadlineBoundsRequest` an `acquire()` that settles in the end when its request has already
been answered (its lease is given back then), and a pipeline that returns once its signal
has fired, which is `AbortAnswers`; `SeedingRepairs` statements that end.

### Disagreements found

* `RuntimeNoGrace` refutes `LastUserClosesRetired`. `retire()` says that without a grace
  limit a retired runtime is "closed by the last release()"; a runtime replaced while
  loading whose load then fails has no `release()`, and its entry stays in `retiring` until
  shutdown. Bookkeeping only: nothing is open in it.
* `QueryFeedback` refutes `FeedbackIsCurrent`. After a failed validation or execution
  followed by a failed completion, the third prompt pairs the first attempt's SQL with the
  second's error ("The SQL above could not be generated"). It needs a retry limit of 2 or more.
* `AnswerTableChange` refutes `TableChangeBusts`. The documents say that adding or
  removing a table busts the cache; the key is built from an inspection memoized for the
  life of the runtime, so cached answers are replayed until a deep health probe, an admin
  refresh or the TTL.
* `EvalBudget` refutes `OvershootIsCasesInFlight`. The pool's header says that the
  overshoot of the budget is at most the cost of the cases in flight; that holds of the
  reported cost (`OvershootBounded`), but the results of abandoned and throwing tasks carry no
  cost, so what they spent holds nothing back.
* `HoldoutReasons` refutes `ConsoleKeepsHoldout`. The reasons printed for an exit code count
  the repetitions of every case; minus the listed dev rows they give hidden holdout
  outcomes. With `--gate` a "worse" reason shows counts only if no holdout case is paired.

Met while modelling, without a run of their own (the instances avoid them, or the property
names the exception):

* A rescore of a rescore loses `replayTruncated`; an outage or gold failure on an earlier rescore
  leaves a trace in a later one; `rescore.js:343`, the second `promptFor` of a widening, is
  not inside the `try` of the first.
* `eval.js` checks the baseline (1074) before it loads it (989); a baseline removed in between
  is the exception in `GateHasTested`. A rescore's gate counts pairs of ids that have left the suite.
* The product loop's `isInfraError` does not know `ER_CONNECTION_KILLED`, which is charged to the model.
* `composeEnvProblems` misses `DB_READONLY_USER` set with `DB_USER` unset; white-space values
  are unset for the JavaScript and set for compose's `:-`, against the comment that they agree.
* Under `--oracle-policy regression`, `verify-dataset.js:322-326` has no kill-rate gate for a dataset
  without applicable controls while `verify.js:665` fails it, although "the same gates apply".
* `MetricGuard`: `(a-b)*2 DIV 3` is accepted although DIV drops the decimals; a `*` passed on under a
  CTE's column list is rejected. `SqlColumns`: an unqualified name is only refused in mixed case.
* Holdout: `computeHoldoutEntries` takes the last dataset's definition of a repeated case, the suite
  the first; the conflict check skips white space inside quotes, which the freeze counts. A
  last history note blanked by hand cannot be repaired by `--write`.
* `mariadb-bootstrap.js`: a VARCHAR foreign key downgraded to TEXT gets a KEY without a length.
* `pricing.js`: a call answered as another model that an override prices in another currency counts
  in the budget as dollars; `mergeCosts` throws on mixed currencies inside `buildFailure`; a
  usage with a charge but no token counts is not counted (286).

## 4. What is proved

TLAPS proves the following for every value of the constants, from the `ASSUME`s of the modules
only. `PROJECT.json` lists each theorem with the property it states. The assumptions are
positive or natural bounds, finite sets where the code counts them, and the shape of inputs
(`Retrieved` and `Linked` within the schema, reports with well-formed records, days that judge
every recorded SQL, datasets that are functions from ids to cases, no counted repetition of a case
without a gold). Every proof has an inductive
invariant, shown to hold initially and to be kept by every action (one lemma per action or group of
actions, a step per conjunct), and reads the properties off it.

**RuntimeManagerProofs.** Exact lease counts and `NoOrphanPool` are not inductive. `Why` adds
on what ground an entry may be closing (shutdown, grace over, or retired and unused),
`Tracked` who will still close one that is not (the current pointer, the refresh, or the
retired set with a user and a timer), `Refreshes`, `Timed`, `Ended` and `Fresh` how the
fields of an entry go together. `RefinesContract` shows every step a step of `RuntimeContract`
or a stutter.

**PoolExecutionProofs.** `KillHitsOwnStatement` rests on ownership: who holds a connection
holds it alone (`Ownership`), the server runs on it only that call's statement (`Running`,
`Mine`), and a KILL on its way is aimed at a thread that either still belongs to its call or
will never be used again (`Killing`).

**QueryPipelineProofs.** `Counting` ties failed attempts, calls and collected usage at every
await; `Scoped` says that the allow-list is the prompt of the widened tables and that SQL
past validation lies in it. Monotonicity of widening is the lemma `PromptGrows`.
`RefinesContract` shows that the loop keeps `QuestionContract`.

**RetrievalProofs.** *The search*: for every finite schema and bound it returns the shortest join
path, the first by name of several. The queue holds paths level by level, none of
them a shortcut (`Far`: the end of a path of n tables is no nearer the goal than the distance allows), and as long as
the goal is within the bound one of them is the beginning of the first shortest path, with no
other shortest path ahead of it (`OnRoute`, `Astray`). So the head that is next to the goal is the one, and an
empty queue means that there is no path. `FirstWayIsShortest` says step by step what the definition of the shortest
path picks. *Prompts*: a prompt is what was retrieved and the own widening of every table added since, or the
whole schema (`Widened`). That this does not depend on the order of the failed attempts is `WidenInTurnIsUnion`,
and that what widening brings is joined in the prompt is `OwnWideningLinks`: foreign keys are followed both
ways (`WithinBothWays`), a linked table has a path of at most as many hops as there are tables (`LinkedHasPath`), and
the tables of a path link its ends by themselves (`PathLinks`). Both argue from a least counterexample in the list.

**AnswerServerProofs.** `CacheIsFresh` needs `Writers`: a request that may still write
(its generation is the cache's) leases a runtime no older than the last clear. This is why
reading the generation *before* `acquire()` matters. The lemmas on `Place`, `Without`,
`Touched` and `Stored` say what the cache operations keep.

**WebProofs**, shutdown: `CleanExit` is not inductive. A pool may close only once `server.close()` has called
back, and no connection is left then (`ClosedForGood`); a running response has its connection
(`Attached`); only the force timer destroys one that is busy (`ForcedOnly`). The limiter: `LimitKept` needs what the limiter *knows* of a client: an open window
counts exactly the passes since it opened, of which at most `MaxRequests` lie in the `Window` before
it; once it is over, at most `MaxRequests` lie in the last `Window`. `TwiceAtMost` then covers an
interval that straddles two windows. `MapStaysBounded` is about the pruning of the map.
The client's stream: everything is said of `Due`, the state once all renders are done, which no render
changes (`AppliedConcat`: an urgent render splits the queue, `AppliedStays`: it keeps what holds of
every reduction). A run emits frames while it is in hand, and `Due` has been told exactly those it has read
(`Told`): an error or a success as soon as the terminal frames are among them (`FramesTell`,
`RestEndsWell`), "streaming" before. So `ShownAsEnded` holds when it returns. What the fold over the queue
makes of it is shown with a least counterexample in the list (`LeastNumber`), not by induction.

**EvaluationProofs.** *Matching*: the two sides' records agree because the stack of `augment()`
calls follows an alternating path, one layer further with every call (`AlternatingPath`,
`CallsInPhase`). *Seeding*: a setup that goes on found every fixture exact at some moment. The
strengthening looks at a reader in mid-check: a fixture that was inexact the whole time has a
wrong table that is still ahead of the reader (`BadIsAhead`), so the check cannot end well.
*Freeze*: every note in the history was written for a holdout there was (`ManifestTells`), a
manifest nobody edited is right, and the last answer is true. Its core is `FreezeTells`: two
holdouts have the same fingerprints iff an evaluation reads the same from them. The attempt to
prove it found what the instance with two edits cannot reach: dropping the last note brings an
older one back, blanked by hand before; the property now counts this as a manifest edited by hand.
*Gold*: an entry of the cache is a live run for its own query, a call that runs waits for
nobody else, and a run that was cut had an aborted owner (`EntriesLive`, `AwaitsOwnQuery`,
`CutByOwner`); hence a call fails by its own signal or by a run that failed by itself, and no
call joins a run that has failed, so the loop cannot spin. *Rescore*: marks come and go, the
recorded attempts stay; what one day makes of a recording and of its rescored form is the same
since two "alike" repetitions (same attempts, equally replayable, neither cut short) rescore
the same (`RescoredAlike`). *Compact reports*: a rescore keeps every SQL and figure and decides
by the SQLs and the status alone (`ReplayedAlike`, `FinalSqlAlike`), and shortening values, leaving
out the final SQL and leaving the only call's figures to the repetition change nothing of what is read
or put back (`ShortenedKeeps`, `SharedKeeps`); so "both are repetitions that read the same and have the same
figures" is inductive (`CompactIInv`). The attempt to prove it found two overlapping cases in
`FinalSql` of the model (a repetition that is not replayed keeps its final SQL, whatever its verdicts
would be), now written in the code's order. *The suite*: every result is the one of its own case, with a
failure that is counted or with none (`SuiteIInv`); a result without a problem tells its case's controls as they are, and a failure can
only add a problem (`AnswerChecked`), so a check without one counts exactly the controls of the suite
(`GatesTold`) and a failure is never what lets it pass (`PassedDeserves`, `FailedOnlyByGlitch`). After any number of cases the
selection is a function of the *set* of cases taken (`SelectionTells`: a conflict iff two of them disagree;
else one entry for a question, in the datasets that have it, and every id names its own question);
`AddTells` is the step, a least counterexample in the list does the rest, and a set does not know an order (`OtherOrder`).
The argument uses what `loadControlsIndex` enforces: one entry for a case.

**EvalRunProofs.** *The pool*: `Liable` are the open tasks of started cases. `LiableFew` counts them: the
tasks of the lanes (an injection into the lanes) and at most `Repeat - 1` that nobody has
taken (an interval; `CaseOrder` says that two tasks of one case are less than `Repeat`
apart). `Money` says that past the budget what is spent plus what `Liable` may still cost stays
bounded. `Assigned`, `Untaken` and `Pending` say where a task without a record is, which gives
`Accounted` at the end.
*The gate*: reports have one record per id; a run's selection is distinct
cases within its filter and, if it may write the default baseline, the whole of a suite the
tree has had; what it compares with is a baseline held since it began, on a rescore the
filtered part of one, or the report that the command line names. Half of the suite's answer cases were compared, by injections on case
ids. *A repetition*: every check and execution is true of its SQL or something broke, only the
last attempt can be open, the status tells what happened, and a status that blames the
product means that nothing struck. *Its summary*: exactly one outcome leads, because the order of
precedence breaks every tie (`OneLeads`); a permutation of the repetitions moves no count
(`CountMoved`), hence neither the majority nor the leader nor the bucket (`OrderIsIrrelevant`), and a case
is the model's fault only if strictly more of its leading repetitions are (`BucketIsFair`).
*The holdout*: `HoldoutIsKept` is about pairs of runs that agree on the dev results and on what may be
shown of the holdout (`LookAlike`). Most figures are computed from the visible cases, which are the
same (`SameListed`). The rest needs an argument: the headline's accuracy over *every* case is the sum of the two
rows by split, because no case without a gold is counted (`StrictIsTheRows`); the pairs of an older recording are shown only
if none can be a holdout case (`NoneHidden`); and equal tallies of paired outcomes give equal counts, by a
bijection between the pairs (`EqualTallies`), so the `--holdout-summary` line does not tell which cases
they are.

### What is only model-checked, and why

* The liveness properties (`ClosingEnds`, `CancelledSlotReturned`, `AbortAnswers`,
  `DeadlineBoundsRequest`, `RunEnds`, `ShutdownEnds`, and the liveness halves of `MatchingExact`,
  `SeedingRepairs` and `GoldAnswered`): TLAPS does not treat fairness and ENABLED here. The
  safety halves are theorems.
* That Hopcroft-Karp finds a perfect matching whenever there is one: an induction over paths
  and phases.
* `ScopeIsExact`, `NamesAreTheServers`, `FanOutExact`, `DifferenceReachesResult`: statements are
  trees, and code and reference are recursive over them (RECURSIVE operators, which also cost
  tlapm its SMT backend). Likewise `VerdictIsExact` and `ChargesAreCounted`, whose operators are
  folds over lists or choose among assignments: what they compute for every input needs
  induction over data.
* `GrantsAreJudged` and `PreflightIsSafe` range over the finitely many classes of settings and
  grants that the instance lists.

## 5. What is not modelled

* SSE framing, JSON shapes, the static client of the web server; `/api/insights`; the health poll.
* Lexing, most of the token policy, recursive CTEs, second and later UNION branches' column
  names, RIGHT and NATURAL joins and window functions (but for the sum of one value per group in
  `SqlFanOut`, with columns of joined relations as keys) in the SQL modules; guardrails on
  master-data ids; how a question's signals (an ORDER BY, a filter) are read from SQL
  (`benchmark.js`), disallowed columns, the semantic plan.
* In `MetricGuard` the walk's limits (8 levels, 256 references) and bit operators; ROUND keeps
  decimals when it keeps at least one place.
* `executeReadOnlySql` on a single connection (scripts and evaluation, not the server), and
  the `SET STATEMENT` text that bounds time on the server side.
* In `AnswerServer`, the parts of a cache key other than the schema version, disabled
  caching, and time. A KILL the client saw fail is taken not to be executed later, and thread
  ids not to be reused.
* In the evaluation: response contract v1, the 'unsafe' verdict, legacy reports, filters and
  row-count pins of the suite check, what fixture generators put into a row, intervals and
  significance beyond their thresholds, wording and layout of reports, dataset builders.
  `compactReport` takes any report; `eval.js` only writes it for a live strict run. After a
  crash between commit and meta write a fixture counts as current, so its meta row stays.
* In `HoldoutDisplay`, for recordings without stored pairs, whether figures appear tells whether a
  holdout case may be paired; the budget row's whole-run spend and the number of skipped holdout
  cases are shown on purpose. Both are exceptions of the property.
* In `Pricing` rounding to 12 decimals, the model's label and negative token counts.
* Completion clients, model configuration, master-data resolver, schema compiler, layout and
  insights, environment and trace, `mariadb-bootstrap.js`.

## 6. Plan

Done: the server (`RuntimeManager`, `PoolExecution`, `QueryPipeline`, `AnswerServer`,
`ServerLifecycle`, `WebAdmission`, `QueryStream`), retrieval and the SQL checks, pricing and the
way to a database, and the evaluation from suite to report; proofs as above.

Next: `AnswerServer` over
`RuntimeContract` instead of its informal abstraction.
