# Anspectra: a TLA+ model of the collection core

Anspectra measures how AI assistants answer a brand's questions. A *series* is
planned as *collection runs*; a run asks every prompt of a prompt set on every
selected provider, through a real browser that belongs to a long-lived collector
process. Each (run, provider, prompt) has one row in `sample_checkpoints`, the
record of what became of it. The program is a web application, a collector, and
PostgreSQL, Redis (BullMQ queues, keys, a stop channel) and ClickHouse between
them. The modules here model the part of it that must not lose, repeat or forget
work: the life of a collection run, from its plan to the analysed answer, and
the browsers, logins and machines it is carried out with.

## 1. The system

| part | source | state | operations |
|---|---|---|---|
| run lifecycle | `packages/services/src/geo/runs.ts`, `runRecovery.ts`, `runState.ts`, `collectorRestart.ts`, `finalizationScope.ts` | `collection_runs` (status, updated_at, counters), `sample_checkpoints`, `sample_attempts`, `collection_series` | start, dispatch of due runs, attempt and sample writes, finalization, restart, retry, stale-run recovery |
| queue and cancellation | `packages/services/src/agent/jobs.ts`, `queue.ts` | one BullMQ queue per provider, cancel key, stop channel | enqueue under a job id, cancel |
| job handler | `apps/agent/src/worker/jobHandler.ts`, `jobResume.ts`, `worker.ts`, `index.ts` | maps of active stops and shutdowns, locals of one handler | resume, register, prompt, stop, shutdown, finalize; timers; exit |
| execution gates | `apps/agent/src/worker/concurrency.ts`, `executionGate.ts` | a counter and a list of waiters | acquire, release, start-up jitter |
| prompt runner | `apps/agent/src/core/prompt-runner`, `lib/browser/proxy/runner.ts` | position, attempt, "submitted" flag, accumulated results | submit, recover a submitted answer, fresh conversation, browser retry cycle |
| outbox and analysis lane | `worker/sampleOutbox.ts`, `sampleCheckpoint.ts`, `analysis.ts` | files of the outbox, pending analyses per run | store or spool, replay, coalesced analysis, recovery |
| detection plan and dispatch | `geo/runs.ts`, `detectionRunPlan.ts` | `scheduled_at` of the batches, completed samples of the day | plan the batches, postpone, claim |
| finalization across providers | `geo/runs.ts`, `runCounters.ts` | status and counters of runs and series | settle a run, refresh a series |
| recurring detections | `geo/detectionSchedules.ts` | `next_run_at`, `enabled` per prompt set | save, pause, delete, dispatch |
| provider sessions | `lib/browser/providerSessionManager.ts`, `taskPageRegistry.ts`, `core/createAgent.ts` | one session per provider, leases, task pages, idle timers | acquire, claim a page, release, invalidate, close |
| browser runtime | `scripts/lib/runtime.mjs` | runtime directory, manifest, lock directory | inspect, lock, rebuild, check |
| provider login | `packages/services/src/agent/auth.ts`, `apps/agent/src/auth/cli.ts` | saved session, status, profile and its metadata | start a sign-in, save, seed, capture, reset |
| answer on a page | `lib/input/response/*`, `executePrompt.ts` | locals of the polling loop | poll, extract, validate |
| remote collectors | `geo/collectors.ts`, `remote/collectorClient.ts`, the runner route | collector of a run, checkpoints, the client's task | claim, report, upload, complete |
| progress record | `agent/progress.ts` | one Redis JSON value per run | seed, per-provider update |
| content, reports, prompt library, page input, web UI | the rest | | text, CRUD, rendering |

How they interact. A web request creates a run with its checkpoints in one
transaction, then inserts one job per provider into BullMQ, then marks the run.
The collector's worker takes a job (one per provider at a time), waits for its
execution gate, reads the checkpoints, registers its stop callbacks, reads the
cancel key and hands the prompts to the prompt runner, which calls back for every
attempt and every sample. When it is over the handler finalizes the provider.
Cancel and retry requests come from the web process at any moment; a timer
dispatches due runs every minute and another looks for stale runs every five; the
collector is stopped, crashes and is started again. A job works through the
provider's one persistent browser, which is started from the managed runtime on the
profile that the last sign-in left; sign-in, set-up and collector commands are
processes that share nothing but files. A run with a remote collector has none of
this: a client on another machine polls for it and uploads over HTTP.

What is hard here, and what a unit test hardly reaches:

- every one of these is a sequence of statements with awaits between them, and
  all of them write the same rows, mostly by id and without a condition;
- BullMQ returns a job whose process died; the payload it returns is old;
- enqueueing is a no-op while a job of the same id exists in *any* state, and
  failed jobs are kept;
- a stop request may meet a job that waits, starts, runs or is over, and Redis
  publishes to whoever listens at that moment;
- an abort leaves a callback behind between its read and its write;
- an operation that exceeds its time limit is abandoned, not stopped: it goes on
  beside the one that replaced it;
- batches are planned by one clock, postponed by another and counted by the day;
- everything must settle although anything may vanish.

`PROJECT.json` lists these as hazards, at their lines.

## 2. What makes each part correct

- run lifecycle: an accepted answer is kept and its prompt not asked again; no
  open sample is stranded; every sample settles; the run row ends up agreeing
  with the checkpoints.
- plan and dispatch: every prompt once a round, no provider above its daily limit,
  no two batches of a series at once, every batch in the end.
- recurring detections: an occurrence starts one run, as configured, unless a write
  that lands after its hour puts it back.
- cancellation: a job that goes on prompting after a cancel request will still
  hear of it.
- gates: no lost wake-up, progress of every waiter, slots in the order of arrival.
- prompt runner: a confirmed submission is not sent again blindly; bounded
  attempts; every prompt accounted for. What is taken for an answer is all of it,
  in all cases but one.
- outbox and analysis: a completed sample's answer is somewhere it can be found;
  it gets a row and a final analysis status; what is called analysed was.
- sessions: one browser on a profile, one user of it, each page its task's, and
  jobs that end whatever hangs.
- runtime: commands work on it one at a time and who was told that it is ready finds
  it whole, while no command at work loses its lock. login: a collector's browser has
  the login that was saved.
- remote collectors: an upload that was acknowledged stays, but for a retry and a
  late claim or report; a claimed sample is settled.

## 3. Modules

| module | models | status |
|---|---|---|
| `ConcurrencyGate`, `SlotPool` | `createConcurrencyGate` and the jitter before it; the pool of slots given out in order that a gate promises to be, which it implements (`ImplementsPool`) | complete |
| `ProviderRun` | the life of one provider's part of a run | complete for one provider |
| `CollectionSeries` | a series: several batches and providers, dispatcher, finalizations side by side | complete but for cancelled series |
| `RunPlan` | the batches of a detection and the days they are due | complete |
| `DetectionSchedule` | a recurring detection under its user and overlapping passes | complete |
| `RemoteCollector` | a run carried out on another machine | tasks; not pairing and heartbeat |
| `PromptRunner` | the prompts of one job: retry policy, prompt loop, browser launches | complete but for dead branches |
| `AnswerWait` | reading one answer off a page, and the checks it must pass | complete |
| `SampleOutbox` | a run's answers: ClickHouse, outbox files, checkpoint columns, analysis lane | complete for one run |
| `ProviderSession` | the persistent browser of a provider and the attempts that use it | headless sessions |
| `RuntimeInstall` | the managed browser runtime under several commands | complete |
| `ProviderLogin` | a saved login between web process, sign-in and collector | complete |
| `..._proofs` | TLAPS proofs: one module each for `ConcurrencyGate`, `ProviderRun`, `PromptRunner`, `SampleOutbox`, `CollectionSeries`, and one for each of the three below | section 5 |
| `MCProviderRun`, `MCRemoteCollector` | symmetry and samples for TLC | |
| `MCAgent`, `MCControlPlane`, `MCBrowser` | several components in one run | below |

The three modules `MCAgent` (gate, runner, answer), `MCControlPlane` (remote
collector, schedule, plan) and `MCBrowser` (session, runtime, login) put components
next to each other that share no modelled state. A variable `part` picks the one
that moves in a behaviour, the others stay in an initial state, and so the run
checks the sum of their state spaces, not the product. Their fairness is that of the
component that moves.

How components that do share state are related: `ProviderRun` takes the outcomes
of attempts as open, which `PromptRunner` decides; `PromptRunner` takes the outcome
of a read as open, which `AnswerWait` decides; `SampleOutbox` has the columns of a
checkpoint that `ProviderRun` leaves out; `CollectionSeries` takes a job to be
something that closes its sample, is lost, or is found by recovery, which
`ProviderRun` shows.

### ConcurrencyGate

`activeCount` and `waiters` are the closure's variables; `state[t]` says where the
caller is: before `acquire`, in the list, between the release that handed it a
slot and its own microtask (`granted`), or in the body. `Delay` is the jitter of
`runWithProviderExecutionGate`, which reorders arrivals but not the list. For
`SlotPool`, in which a slot passes to the client that has queued for longest, the
tasks granted or running are the clients inside and `waiters` is the queue itself.

### ProviderRun

| variable | code |
|---|---|
| `ckpt`, `runStatus`, `runAge` | `sample_checkpoints.status`, `collection_runs.status`, and the age of `updated_at` as recovery distinguishes it: fresh, stale (20 min), expired (24 h) |
| `jobState`, `jobPrompts`, `stalls` | the provider queue: state, payload and stalled count per job id; id 0 is `run__provider`, the others are the suffixed ids of retries and restarts |
| `cancelKey`, `stopMsg` | the Redis key, and a published message not yet handled |
| `agent`, `h`, `cb` | the collector process, the locals and position of the running handler, and the database callback of the runner (plus one left behind by an abort) |
| `startPc`, `dispPc`, `recon`, `cancelReq`, `retryReq` | positions and locals of `startGeoCollectionRun`, `dispatchScheduledGeoRuns`, `reconcileStaleGeoCollectionRuns`, `cancelProviderRun`, `retryGeoSamples` |

A step is the code between two awaits that touches shared state: one statement,
one transaction, one Redis or queue command. Reads that decide a later write are
steps of their own (`SweepRead`/`SweepWrite`, `AttemptRead`/`AttemptWrite`,
`ReconcileSelect`/`Read`/`Look`/`Requeue`), so that the value can be stale.
An attempt's outcome, the number of attempts (up to `MaxStarts` per job) and the
order in which prompts are taken or taken again are left open, which covers the
retry policy and the browser retry cycle for the questions asked here. Jobs that
wait may be taken in any order.

Assumptions about time. `GrowStale` lets a row go stale only while no request or
callback is under way: each of their statements and each attempt is bounded by
timeouts far below 20 minutes. A row expires only while the collector is down.
Unless `PassOvertaken`, a recovery pass, a handful of statements, is not
overtaken by the end of a job, by an answer of a job that started after the
pass looked at the queue, nor by a retry's look at the samples.

Two things are asked only of a provider that nobody cancels. A stop abandons a
callback between its read and its write; when it writes at last, it may reopen a
sample of a run that is closed (`NotStranded`, `EverySampleSettles` and
`RunStatusConverges` fail then), and after a retry it may do so to a completed one,
so that `ProviderRun_resume` has no cancel request. `MaxEvent` bounds troubles and
requests together, whatever they are.

### PromptRunner

| variable | code |
|---|---|
| `launch`, `list` | attempt of `runRetryCycle`, and `nextPayload.prompts` |
| `at` | the prompt `runPrompts` is at; `Skip` passes over those not in `list` |
| `try` | locals of `executePromptWithRetry`: `attempt`, `maxAttempts`, `recoverSubmitted`, `freshConversationRetryUsed` |
| `pc`, `err` | position, and the class of the error being handled |
| `done`, `left`, `stop` | `completedByPromptId`, a store awaited by an abandoned executor, the abort signal |
| `alive`, `chat` | the browser, and the prompts sent in the conversation its page shows |
| `sent`, `owed`, `recorded`, `challenged` | what happened, for the properties |

A step is one operation on the page (each has a time limit of its own) or one
decision of the policy. Errors are told apart as far as `classifyError`,
`describePromptFailure` and the policy tell them apart. An unconfirmed submission
may have gone out. Dead code is left out: `shouldUseProxyInMode` is constantly
false, and nothing calls `preserveForHuman`, so no page is resumed after a
challenge. All four collection providers have `startFreshConversation`, and their
jobs carry pacing delays. `Launch` assumes that a store which an execution
time-out left behind is over when the next browser is launched: a pause of
seconds and the closing of a browser lie between.

### SampleOutbox

| variable | code |
|---|---|
| `ckpt` | `sample_checkpoints`: `status` (as far as it matters: open or completed), `analysis_status`, `analytics_sample_id`, and which of the captured answers the other columns describe |
| `rows`, `analysed` | `analytics.prompt_responses` in order of insertion (an id is a position), and the ids with a completed row in `sample_analysis_v2` |
| `outbox` | the `.json` files of the outbox directory |
| `asked`, `capture` | answers captured per sample; position and locals of `onSampleComplete` |
| `replay` | position, list of files, current file and row id of `replayPromptSampleOutbox` |
| `lane` | the run's entry in `analysisQueues` with the locals of `runAnalysisInBackground` |
| `retry` | the id `retryGeoAnalysis` found failed, before its update |

A step is the code between two awaits. Callbacks of different samples, the replay,
the analysis and a retry request interleave freely; the samples are thought of as
samples of different providers, whose jobs run side by side. An answer may be
captured for an open sample, and again after a callback that threw. A file is one
answer (the name ends in a random id, so the order of a replay is arbitrary). A
store that throws may or may not have inserted its row; a checkpoint write that
throws may have been committed. What `completeGeoAnalysis` writes was decided
before the first of its updates, so `lane.todo` holds verdicts, and a verdict may
reach a checkpoint that names another row by then. `Crash` takes callbacks,
replay and lane; files, rows and checkpoints stay.

`ReplayOvertakes` says whether a replay may begin after an outbox file was written
and before the checkpoint write that follows it, two statements of one callback,
while the timer fires once a minute. If it does, the replay's row id is
overwritten with null, the file is gone, and the sample is never analysed: TLC
finds `UnnamedIsFiled` and `EverySampleAnalysed` violated with the constant TRUE.
They are checked with FALSE, and `UnnamedIsFiled` is proved for it; `AnswersKept`
and `AnalysedIsAnalysed` are proved for both values.

The module does not close or reset checkpoints: a late write after a reset is the
business of `ProviderRun`. The retry request names one sample, as the UI sends it.

### CollectionSeries

| variable | code |
|---|---|
| `status`, `at`, `order` | `collection_runs`: status, `scheduled_at` less the time that has passed (in quarters of a day), and the runs in its order |
| `ckpt`, `job` | the sample of a run and provider, and its job |
| `verdict`, `seen` | what a provider's finalization has computed of its run and of the series, and is about to write |
| `series` | `collection_series`: status, completed samples |
| `starter`, `pass`, `retry` | positions of `startGeoCollectionRun`, of the dispatcher's pass and of a retry request |
| `today`, `quarter` | completed samples since midnight, and the time of day |
| `refused`, `retried`, `lost`, `retries` | runs called failed for want of a job, runs retried, and the bounds' counters |

A batch has one sample for each provider. The dispatcher looks at one due run after
the other, first at its siblings, then at the day's count, and postpones by six
hours, postpones by a day, or claims; finding out and doing are two steps.
Finalizations of several providers read and write the run and series rows in steps
of their own. Time passes in quarters: an answer takes minutes, and a request or a
pass is over within its quarter. A recovery pass over one run is one step, its races
being in `ProviderRun`.

### RunPlan

`request` is what the user asks for and what the database says: prompts, rounds,
the samples each provider has completed today, the time of day, the run plan
(cadence, weekday, time) or the sampling depth. `batches` are the rows inserted,
`round` and `roundStart` the loop of `startGeoCollectionRun`. Time is in quarters of
a day; days are of equal length and begin at one moment for everyone: the change of
the clocks and a plan in another time zone than the server's are left out. A round
is one step, as all is one transaction. The "reliable" depth repeats a round after
six hours and leaves the limit to the dispatcher, which `CollectionSeries` checks
(`Spacing` 1).

### DetectionSchedule

`schedule` is the row; `pass[w]` a timer's pass between reading the due rows,
claiming one by a conditional update, and starting its run; `edit[e]` a request to
save, pause or resume between computing what it writes, the next occurrence
included, and writing it; `claims` the history the properties speak of. Nothing holds
the clock back: `ScheduleTick` may come between any two statements of a request or a
pass. A write that enables the row with an occurrence already due is called
*belated* (`Belated`), and the history records at each claim whether one came since
the claim before it, or since the pass read the row. A pass that stops after its
claim loses the occurrence, as in the code.

### RemoteCollector

| variable | code |
|---|---|
| `ckpt`, `named`, `rows`, `run` | status and row id of the checkpoints, rows in ClickHouse, status of the run |
| `undone` | history: completed samples that a claim or an attempt's report wrote over after the client had given it up |
| `call`, `late` | the request the client waits for, with the position and locals of its handler, and the handlers of requests it gave up on |
| `client`, `task`, `todo`, `done`, `cur`, `launch` | the polling loop, the claimed samples, those the launch still has to ask, `completedByPromptId`, the prompt in hand, the browser launch |
| `retry`, `again`, `freed` | a retry request, what it ever retried, and the dispatcher between its read and its update |

A handler is a sequence of statements with other handlers between them. A request
that is given up may not have arrived, may be served late, or may have been served;
the client goes on as its code does (relaunch, completion as an error). A
crash takes the client only.

### AnswerWait

`answerPage` is the provider's page: how much of the answer it shows, for how long
it has been silent, whether a "generating" indicator is stuck, whether it is an
overview, the size of the text, and which texts are *wanting*: those on which
`getIncompleteResponseReason` turns the answer away because it is a lone heading, or
because some, but fewer sections than the prompt asks for have begun
(responseCompleteness.ts:48-75). Any set of texts may be wanting, since a text
without a section passes, and so does one whose last section has begun and is not
finished. `answerWait` is the loop with its locals (`lastText`, `stableFor`,
`slow`...), then the extraction with its retries and the validation. The page may grow
between the three reads of a poll, after the loop, and between extraction retries.
What it may not do is said in `MustGrow`: a page with more to come is not silent for
longer than the loop waits, save for the announcement of a search (which `AnswerWait`
lets stand for any time) and texts that are wanting.

### ProviderSession

| variable | code |
|---|---|
| `sessions`, `browser` | the manager's map entry, and the process of each session ever launched |
| `lease`, `active`, `pages` | `leaseCount`, `activeTaskId`, the `TaskPageRegistry` |
| `timers`, `handle` | idle timers armed, and whether `idleTimer` refers to one |
| `launching`, `pc`, `owner`, `sess` | `launches`, and for each attempt its position, task and session |
| `cur`, `job`, `task`, `tries` | the runner's loop |

Attempts whose set-up timed out stay in the model and go on: they may wait for a
launch, win the lease, and hand their agent to a runner that is gone (`orphan`).
Nothing calls `holdForHuman`, so no visible window appears.

### RuntimeInstall

`runtime` is what the directory holds, `lock` the lock directory with its maker and
age, `command` each process: inspect, take the lock or wait, look again, clear, build,
fetch, write the manifest, release, check. Looking at the age of a lock and removing
it are two steps, and every step of a rebuild may fail. Nothing bounds a rebuild
(runtime.mjs:318-334 has no time limit), so the lock of a command at work grows
older like any other, and a waiter may remove it. The history `robbed` records when
that happens to a command at work: because it was *slow*, or because the lock had
been made *anew* between another's look at its age and the removal.

### ProviderLogin

`files` are the saved session, the status with the sign-in's process id, and the
profile directory with the metadata that names the session it was seeded with;
`launcher`, `signIn`, `browserJob` and `reset` are the four programs at their file
operations. A login is the number of the sign-in it stems from. A write of a file
is one step; between two of them anybody may read, be killed or reset. With
`Overlaps` FALSE no profile is judged or wiped while a sign-in has its window on it.

## 4. Runs

Every run is one `.cfg`; the constants named are bounds, each in a guard.

| run | instance | shows |
|---|---|---|
| `ProviderRun_resume` | 2 prompts, 2 attempts a job, 1 stall, any two of a crash, shutdown, retry, failing call, failing insertion | `TypeOK`, `CompletedStays`, `CompletedNotAsked` |
| `ProviderRun_settle` | 1 prompt, any two of a crash, shutdown, cancel, retry; fair | `NotStranded`, `CancelNotLost`, `EverySampleSettles`, `RunStatusConverges` |
| `CollectionSeries` | 2 providers, 2 batches, 6 hours apart, a limit of 1, started in the last quarter of a day, 1 lost job, failing insertion or retry; fair | `TypeOK`, `OneBatchAtATime`, `WithinDailyLimit`, `EveryBatchEnds`, no deadlock |
| `MCControlPlane` | remote: 2 prompts, 1 request of any kind given up, 1 retry, fair; schedule: 2 passes, 1 request at a time, 2 saves, periods 2 and 3 in 5 hours; plan: up to 5 prompts, 3 rounds, 2 providers, a limit of 2, daily and weekly | `ControlTypeOK`, `UploadedKept`, `RemoteSamplesSettle`, `StartedOnceUnlessBelated`, `PlanIsSound` |
| `MCAgent` | gate: 4 callers, 2 slots; runner: 3 prompts, every error, 1 failing store; answer: 2 parts, every kind of page; fair | `AgentTypeOK`, `NoLostWakeup`, `WaiterRuns`, `ImplementsPool`; `FreshBaseline`, `SendsBounded`, `Accounted`, `CompletedNotAskedAgain`, `RereadBeforeResend`, `MovingRunnerEnds`; `WholeUnlessResumed` |
| `SampleOutbox` | 2 samples, 2 failing calls, 1 event; fair | `TypeOK`, `AnswersKept`, `UnnamedIsFiled`, `AnalysedIsAnalysed`, `CopiesBounded`, `EverySampleAnalysed` |
| `MCBrowser` | session: 2 tasks, 2 jobs of 2 attempts, 1 failing page, fair; runtime: 3 commands, 1 kill, a lock that is stale after 1 unit of time; login: 2 sign-ins, 1 kill, 1 reset | `BrowserTypeOK`, `SingleBrowser`, `LeaseExact`, `PageIsMine`, `JobEnds`; `EnsuredIsReady`; `LaunchedAsSaved` |
| `ProviderRun_failedjob` | 1 prompt, 1 failing call; fair | violation of `EverySampleSettles` |
| `PromptRunner_sources` | 1 prompt, an error the policy does not recognise | violation of `NoBlindResend` |
| `SampleOutbox_stale` | 2 samples, 1 failing call, 2 events | violation of `CompletedSampleSurvives` |
| `ProviderSession_idle` | 2 jobs of 2 attempts | violation of `IdleSparesLease` |
| `RemoteCollector_lost` | 2 providers, 1 crash; fair | violation of `EverySampleSettles` |

Runs that have CHECK_DEADLOCK FALSE are of systems that come to rest: a settled run,
a finished job, a bound that is used up. `CollectionSeries` never rests, since time
goes on.

Why the bounds are enough. Two prompts (or samples) let one be affected by what
happens to another, which is all the code's statements can do; `MaxStalled` is 5 in
the code and 1 here, which reaches both branches of the check. Two troubles make
trouble meet the recovery from trouble. Three prompts in the runner put one before
and one after the prompt a failure concerns, and its launches (2) and attempts (2,
and one more) are the code's own constants. Two batches with a limit of one meet in
every way a dispatcher can find a sibling or a full day, and a start in the last
quarter puts midnight between them. Five prompts with a limit of two fill first
chunks of one and two, a last chunk of one, and three days. Two attempts a job and
two jobs let an abandoned attempt overlap one of its own and one of another job. The
waiting times of `AnswerWait` are in the order of the code's, one apart. Three commands
make a lock be waited for, left behind, taken over, and removed again by the third that
saw the first one's age; a lock that is stale after one unit of time is one that any
command may outlast. One request given up in `RemoteCollector`, whichever it is, meets
the rest of its task, the next launch and the retry; two passes and a request between
its computation and its write meet in every order, over two occurrences of each period.

In `SampleOutbox` an *event* is a crash, an analysis retry or a further answer to a
sample (`MaxEvent` together), and `MaxFault` bounds failing calls. Two faults make
an answer go to the outbox and its replay, analysis or checkpoint write fail too. The
stale answer needs one fault and two events: filed, crash, asked again.

### Fairness

- `ProviderRun`: requests that were begun proceed, timers fire while the collector
  is up, the worker polls, attempts end because each has a timeout, a stopped
  collector is started again (`local-daemon.mjs` and the container restart policy),
  and time passes. Crashes, shutdowns, requests and faults are never due.
- `CollectionSeries`: the starter, the dispatcher, jobs and a begun retry go on, time
  passes, and recovery looks at a run that keeps being stale. Recovery is
  strongly fair, since a run may look alive for the length of a job again and again;
  the pass itself comes every five minutes.
- `PromptRunner` and the gate: weak fairness of the runner as a whole, every operation
  it awaits having a time limit; of the gate's resolved promises and of the bodies
  that end.
- `SampleOutbox`: weak fairness of the collector (callbacks, replay, analysis and
  their timers) and of a retry request that was begun. Its own steps cannot go
  round for ever: each takes a callback, a file or a pass further.
- `ProviderSession`: the two time limits (set-up and execution), the closing of pages
  and browsers, and the runner's loop. Nothing obliges a launch, a page or an
  abandoned attempt to come to an end: `JobEnds` holds without it.
- `RemoteCollector`: the server serves what it has begun, late requests too, the
  client polls, attempts end, a begun retry goes on. No request is obliged to
  fail, no user to retry. `RemoteSamplesSettle` is about the behaviours in which
  nothing but uploads is given up on (`OnlyUploadsLost`): a claim that is lost or late
  leaves its samples `running`, which `RemoteCollector_lost` shows for the crash.
- Schedules, plans, runtime, login and the answer need none: their properties are
  invariants.

### Disagreements the runs show

- `ProviderRun_failedjob`: a failed BullMQ job is kept under the base id
  (queue.ts:8), enqueueing is then a silent no-op (jobs.ts:65), and the run goes
  round between `running`, stale and `queued` for ever (README.md:172).
- `PromptRunner_sources`: only extraction errors and one time-out are taken for
  failures after a submission (retryPolicy.ts:170). When the source extraction
  times out or the answer is found invalid, the confirmed prompt is submitted
  again without a re-read (README.md:108).
- `SampleOutbox_stale`: the replay completes a checkpoint with the answer of its
  file whatever the row says by then (sampleOutbox.ts:122). An answer filed before a
  crash replaces the one its prompt was given when it was asked again
  (README.md:111).
- `ProviderSession_idle`: an idle timer closes the session without a look at its
  lease, and a timer can be armed while another task holds the session: `release`
  arms it after awaiting the pages (providerSessionManager.ts:551) (README.md:106).
- `RemoteCollector_lost`: a collector that dies after its claim leaves samples
  `running` that no claim, recovery pass or retry reads (collectors.ts:156,
  README.md:185).

Others are behind a constant or were met without a run of their own: with
`PassOvertaken` TRUE `CompletedStays` is violated, as recovery resets checkpoints by
the ids it read earlier (runs.ts:673), and a retry by those it found closed
(runs.ts:2145); with `ReplayOvertakes` TRUE `UnnamedIsFiled` and
`EverySampleAnalysed` are (jobHandler.ts:410); with `Overlaps` TRUE
`LaunchedAsSaved` is (auth.ts:822). A crash while a fresh conversation is opened is
passed over like any failure there (prompt-runner/index.ts:172), so that at the last
prompt no second launch follows, although runner.test.ts:54 asks for one after a
crash. README.md:109 says that a challenge makes a run wait for a human, while
jobHandler.ts:509 records it as a failure and only the runner API ever sets
`waiting_human`.

## 5. Proofs

Every invariant and every action property that a passing run checks is also a
theorem, for all values of the constants that the theorem's hypotheses leave. None of
the properties is inductive as it stands; what each invariant adds is said below,
and what the hypotheses of a theorem keep out.

### `ConcurrencyGate_proofs`

For any finite set of callers and any positive limit. `GateInv` says that the list
holds the parked callers once each, that the counter equals the number of slot
holders, and that a non-empty list means a full gate. It implies `LimitRespected`
(`GateLimit`) and `NoLostWakeup`; `NoOvertaking` follows from it. `GateImplementsPool`
is the refinement of `SlotPool` (`ImplementsPool`), the order of the queue included:
with the slot holders for the clients inside and the list for the queue each step of
the gate is a step of the pool or a stutter, because a newcomer cannot find a free
slot while somebody waits, and the list is served from its head.

### `ProviderRun_proofs`

For any set of prompts. `TypeCorrect` (`TypeOK`) has one lemma for the handlers of
each component; what a step leaves alone keeps its part by `Same`. The others build
on each other:

- `CancelReaches` (`CancelNotLost`), from `CancelInv`: the job of a running handler is
  active in the queue, so a cancel request that looks at its state sees it run and
  publishes; nothing runs in a collector that is down, so the crash that loses a
  message also ends the job it was meant for; a request past its look-up has found a
  job.
- `NotAskedAgain` (`CompletedNotAsked`), `MaxCancel = 0`, from `AskInv`: what a handler
  has still to do, and what its sweep is about to close, is not completed; the live
  callback is about a prompt still to be done; a callback left behind belongs to a
  collector that shuts down and to a sample that was not completed. Without the
  hypothesis a stopped job's callback may accept an answer while the next job is at
  the same prompt.
- `StaysCompleted` (`CompletedStays`), `MaxCancel = 0`, from `AskInv`, with any number of
  failing calls: two steps of the program can ever take a completed sample back, and
  they are named. A `StaleReset` is the write of a recovery pass (runs.ts:673, 709) or of a
  retry (runs.ts:2145), by the ids of an earlier read (614, 2112), that meets an answer
  which came in between. Both do happen: TLC finds the first with `PassOvertaken` TRUE,
  and without it with one prompt, one shutdown and three failing calls, where both
  reports of an attempt fail on a stale row, the write of the restart fails as well,
  and recovery resets the sample that the interrupted job's last callback has just
  completed. A lemma, `FewFaultsNoReset`, says when neither happens, `~PassOvertaken`
  and `MaxFault <= 2`, from `KeepInv`: what a recovery pass or a retry is about to reset
  is not completed, or a job holds the run that makes the pass turn away, which needs
  the age of the run row (`RowKnown`).
- `NoneStranded` (`NotStranded`), with any number of cancel requests, shutdowns and
  retries, `NoFaults`, from `StrandInv`: whoever is about to close the run
  (a handler with its verdict, a recovery pass past each of its reads) leaves open
  only samples that a job carries or a retry will enqueue, and
  the jobs of a crashed collector come back. The property looks only at behaviours in
  which nothing was cancelled so far, and so does the invariant. `NoFaults` asks for
  no failing call and no more crashes than BullMQ forgives, which is what the run
  `ProviderRun_settle` has. Each part is needed: a retry that breaks off after it
  reopened its samples leaves them open in a closed run, so does an insertion that
  fails and has the run marked failed, and a job that has stalled too often fails
  for good.

### `PromptRunner_proofs`

For any number of prompts, any sets of errors and any number of failing stores: the
types and every safety property of the runner in `MCAgent`. The invariant has a
part for each, and each part is proved from `TypeInv` and itself with one case per
action. `TryInv` (for `TypeOK`): a re-read is the second attempt, a fresh
conversation the third and last. `ChatInv` (`FreshBaseline`): the page shows at most
the prompt being tried, and exactly that one wherever an answer is or will be read;
this is where errors before and after a submission must be told apart. `SendsInv`
(`SendsBounded`): submissions counted against attempts. `AccountInv` (`Accounted`): the
passed prompts are accounted for. `DoneInv` (`CompletedNotAskedAgain`): what is
completed lies behind the position, and no store is left to a later launch, which
is the assumption of `Launch`. `OwedInv` (`RereadBeforeResend`): an answer that is
owed will be re-read or the attempt is the last.

### `SampleOutbox_proofs`

For any samples, any numbers of failures and events. `TypeCorrect` (`TypeOK`) has a
lemma for each named part.

- `NoAnswerLost` (`AnswersKept`) from `KeptInv`: what a callback or a replay is about to
  write to a checkpoint is backed, by a row with that answer or, without a row, by a
  file or a row; rows only grow, and files go only after their answer was stored.
- `AnalysedTruthfully` (`AnalysedIsAnalysed`) from `AnalysedInv`: a positive verdict
  still to be written belongs to a sample with an analysed answer.
- `UnnamedFiled` (`UnnamedIsFiled`) from `FiledInv`, `~ReplayOvertakes`: the file of an
  answer whose checkpoint write is still to come is in no replay's list, and the file
  about to be removed is not the one a completed sample waits for. That needs answers
  to be told apart by age (`AnswersOld`): a file is never of an answer yet to be
  captured.
- `StoredOnce` (`CopiesBounded`) from `CopyInv`: an answer that may be stored once more,
  from its file or by the file its callback is about to write, has no more rows than
  failures and crashes so far; one that its callback is about to store has none. An
  answer on its way to the store or to a file is in no file yet (`NotYetFiled`), and
  while a replay has a file in hand that it has stored, the failure or crash that
  makes it store the file again is counted. `StoredCopies` is the lemma on counting:
  one row more for the answer stored, none for any other.

### `CollectionSeries_proofs`

For any number of batches and providers, any spacing and any limit, from `SeriesInv`:
`SeriesTypeCorrect` (`TypeOK`), `OneBatch` (`OneBatchAtATime`) and `DailyLimitKept`
(`WithinDailyLimit`). A run is *cleared* when it was started or the pass has decided to
start it. Runs before a cleared one have no open samples (`ClearedInOrder`), and what
the cleared runs may still complete today is within the limit (`WithinPlan`). What
makes that inductive is knowledge about stale reads: the due list has each run once
and only its head may have been started (`PassKnown`), and while the request and a
pass may both start the first batch nothing else has happened (`BeginsFirst`). The
lemmas on `Moved` say what re-sorting one run does to the order of the others.

### `ControlPlane_proofs`

- `StartedOnce` (`StartedOnceUnlessBelated`), for any number of dispatchers and requests, from
  `ScheduleInv`: unless a belated write came since, claims lie before the next occurrence
  of the row (`ClaimsPast`), and a row a pass has read and may still claim was not saved
  since (`ReadInForce`); a row id is never used again (`IdsInUse`).
- `StoredBeforeCompleted`, for any losses, late requests, crashes and retries, from
  `StoredInv`, which has a shape for every handler: a remote checkpoint is completed
  only with a row of its sample. It is stated for the proof alone.
- `UploadsStay` (`UploadedKept`), for any losses, late requests, crashes and retries, from
  `KeptInv`: no samples of a claimed provider are queued but by a retry, so no later
  claim that is in time takes them, and a late completion closes only what was not
  uploaded or was taken back before. A claim or an attempt's report that the client
  has given up on does write over a completed checkpoint (collectors.ts:156,
  runs.ts:378); the theorem says that this and a retry are all that can.
- `PlanSound` (`PlanIsSound`), for any limit and any number of prompts, rounds and samples
  of the day, from `PlanInv`: the batches of a round follow one another and hold every
  prompt (`PiecesApart`, `EveryPrompt`), and the next round starts on a later day than
  all that is planned (`StartsLater`).
- `ControlTypeCorrect` (`ControlTypeOK`) puts the types together, with
  `ScheduleTypeCorrect`, `RemoteTypeCorrect` and `PlanTypeCorrect`.

### `Browser_proofs`

- `OneBrowser`, `LeaseIsExact`, `PagesAreMine` (`SingleBrowser`, `LeaseExact`,
  `PageIsMine`), for any number of jobs and attempts, from `SessionInv`: the map, the
  launch in flight and the open browsers agree (`MapExact`); an open browser has one
  user at most, which its count and its task say (`Leased`); an unused one has a timer
  or somebody about to arm it (`Unleased`); its pages are of its task (`Paged`).
- `EnsuredReady` (`EnsuredIsReady`), for any number of commands and kills and rebuilds of
  any length, from `RuntimeInv`: until a command at work is robbed of its lock, the one
  that works has made the lock that stands (`LockHeld`), who rebuilds found no whole
  runtime and who is done found one (`Whole`). After that two commands may rebuild
  side by side (runtime.mjs:724), and the property claims nothing.
- `PairRobsTheSlow`, for two commands: the only one that can be robbed is one that
  outlasts the ten minutes. A command makes the lock once (`MadeOnce`), so the lock that
  one of two found stale is the other's only one; the removal of a lock that was
  made anew since then takes a third command.
- `LaunchesAsSaved` (`LaunchedAsSaved`), `~Overlaps`, from `LoginInv`: who is on the
  profile and which login it then holds (`ProfileOwned`), a marked profile holds that
  login or a later one (`Marked`), and one that was taken as it is holds what it was
  judged by unless everything was reset meanwhile (`Judged`).
- `BrowserTypeCorrect` (`BrowserTypeOK`), with `LoginTypeCorrect`.

### `Agent_proofs`

`AnswersWhole` (`WholeUnlessResumed`), for any length of the answer, any limits and any
set of wanting texts, from `AnswerInv`: what the loop believes of a page is in the
page's past (`Seen`), its count of quiet polls is no longer than the page has been quiet
(`Synced`, `Silent`), and a page that grew between two reads of one poll had not been
quiet for long enough (`Overtaken`). So the loop ends on the whole answer or on a text
that the check of completeness would turn away (`Extracted`). In the second case the
page may go on before the extraction reads it again, and the text read then may
pass the check: this is the one exception the property names, and TLC finds it.
`AgentTypeCorrect` (`AgentTypeOK`) adds the invariants of the gate and the runner.

### What the proofs changed

An attempt at `UploadsStay` failed because the model was wrong: in `RemoteCollector` a
request that was lost could be given up once more, and a late handler could go
on after it was over (`GiveUp`, `Outlives`). The proof about `CollectionSeries` made its
pass read what the dispatcher reads, the ten earliest due runs by their times
(`DueInOrder`, runs.ts:1255). Invariants were first checked with TLC on the instances
of the runs.

### Only model-checked

Everything under fairness: `WaiterRuns`, `EverySampleSettles`, `RunStatusConverges`,
`MovingRunnerEnds`, `EverySampleAnalysed`, `EveryBatchEnds`, `RemoteSamplesSettle`,
`JobEnds`. Liveness and ENABLED are out of the prover's reach. The gate's refinement is
proved for safety; `SlotPool` is stated without fairness.

## 6. Plan

What is left for proofs: to let `NoneStranded` have failing calls that no retry and no
insertion is among. Then the relations
between modules: that the runner's outcomes in `ProviderRun` are those of
`PromptRunner`, and that a job of `CollectionSeries` closes its sample as one of
`ProviderRun` does.

## 7. Not modelled

- Typing and submitting a prompt, switching a provider's mode, extracting sources,
  starting Camoufox: judgements about pages, where the selectors decide. A
  submission that is not confirmed may have gone out; that it goes out later than
  its time limit (executePrompt.ts:157) is left out, and so is that a reset between
  attempts may drop a mode that is still reported (providerModes.ts:911).
- Human challenges and visible windows: nothing under src/ produces the one but the
  runner API, nothing calls `holdForHuman` or `preserveForHuman`.
- Retest experiments (runs.ts): only publisher.ts creates them, and it has no caller
  in apps/. content.ts and most of promptLibrary.ts have none either.
- The progress record: each update is one Lua script, and nothing decides by it.
- Series that are paused or cancelled as a whole; pairing, heartbeat and commands of
  remote collectors; counters of single states.
- `scripts/migrate-anspectra-runtime.mjs`, run once by hand: stopped between creating
  its backup volume and filling it, it takes the empty backup for a made one when it
  is started again.
- Workspaces, members and accounts: CRUD apart from the life of a run. One race of
  theirs is on the list of hazards: two owners who remove each other at once
  (members.ts:63).
- LLM calls and schema repair, text generation, reports and rendering: pure I/O or
  pure text.
- In `ProviderRun`, the expiry of Redis keys (a day), the redelivery of database errors
  inside one transaction, and more than one callback left behind at a time; in
  `PromptRunner`, of an executor that an execution timeout leaves running, all but the
  store it awaits.
