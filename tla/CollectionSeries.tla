-------------------------- MODULE CollectionSeries --------------------------
(***************************************************************************)
(* The series of a detection (runs.ts in packages/services/src/geo): its   *)
(* batches, which the dispatcher of the worker starts one by one when they *)
(* are due and the daily limit of the providers allows it, and the run and *)
(* series rows that the jobs of several providers settle side by side.     *)
(*                                                                         *)
(* Time is counted in quarters of a day: `at` is the distance of a batch's *)
(* scheduledAt from now, negative when it is overdue.  A batch is one      *)
(* sample for each provider.  What a job does until its sample is closed   *)
(* is ProviderRun's matter; here it closes the sample and settles the run. *)
(* Recovery passes are one step: ProviderRun has their races.              *)
(***************************************************************************)
EXTENDS Integers, FiniteSets, SequencesExt

CONSTANTS Provider,      \* the providers of the series
          Batches,       \* number of batches: rounds and their chunks
          Spacing,       \* quarters between batches: 4, or 1 for "reliable"
          DailyLimit,    \* DAILY_PROVIDER_SAMPLE_LIMIT, in batches
          MaxOverdue,    \* bound: quarters a due batch waits for a pass
          StartQuarter,  \* the quarter of the day in which the series is started
          MaxTrouble     \* bound: jobs lost or not enqueued, and retries by the user

ASSUME SeriesAssumption ==
  /\ Provider # {} /\ IsFiniteSet(Provider)
  /\ Batches \in Nat \ {0} /\ Spacing \in Nat \ {0} /\ DailyLimit \in Nat \ {0}
  /\ StartQuarter \in 0 .. 3 /\ MaxOverdue \in Nat /\ MaxTrouble \in Nat

Run == 1 .. Batches
Day == 4                  \* quarters

VARIABLES
  status,    \* collection_runs.status
  at,        \* collection_runs.scheduled_at - now, in quarters
  order,     \* the runs by scheduled_at
  ckpt,      \* sample_checkpoints.status, by run and provider
  job,       \* the queued or running job of a run and provider
  verdict,   \* the run status a provider's finalization has computed
  seen,      \* the series row it has computed
  series,    \* collection_series: status and completed_samples
  starter,   \* how far startGeoCollectionRun is
  pass,      \* the dispatcher's pass: due runs, step, decision
  today,     \* completed samples of a provider since midnight
  quarter,   \* of the day
  refused,   \* runs that were called failed as no job could be inserted
  lost, retries,
  retry,     \* the user's request: step and run
  retried    \* runs ever retried

rowVars == <<status, at, order, ckpt, series>>
jobVars == <<job, verdict, seen, lost>>
passVars == <<starter, pass, refused>>
userVars == <<retries, retry, retried>>
timeVars == <<today, quarter>>
vars == <<rowVars, jobVars, passVars, userVars, timeVars>>

Terminal == {"completed", "partial", "failed"}
ClosedCkpt == {"completed", "failed"}
NoRow == [status |-> "none", completed |-> 0]
Idle == [due |-> <<>>, step |-> "idle", plan |-> "none"]

Init ==
  /\ status = [r \in Run |-> "queued"]
  /\ at = [r \in Run |-> (r - 1) * Spacing]
  /\ order = [i \in Run |-> i]
  /\ ckpt = [r \in Run |-> [p \in Provider |-> "queued"]]
  /\ job = [r \in Run |-> [p \in Provider |-> "none"]]
  /\ series = [status |-> "queued", completed |-> 0]
  /\ verdict = [p \in Provider |-> "none"]
  /\ seen = [p \in Provider |-> NoRow]
  /\ starter = "created"
  /\ pass = Idle /\ refused = {}
  /\ today = [p \in Provider |-> 0]
  /\ quarter = StartQuarter
  /\ lost = 0 /\ retries = 0 /\ retry = [step |-> "none", run |-> 0] /\ retried = {}

-----------------------------------------------------------------------------
(* The rows.                                                               *)

\* finalizeGeoProviderRun and recovery: the status of a run.
RunVerdict(ck) ==
  IF \E p \in Provider : ck[p] \notin ClosedCkpt THEN "running"
  ELSE IF \A p \in Provider : ck[p] = "completed" THEN "completed"
  ELSE IF \E p \in Provider : ck[p] = "completed" THEN "partial" ELSE "failed"

\* refreshCollectionSeries: the row derived from the runs and checkpoints.
SeriesOf(st, ck) ==
  LET done == {x \in Run \X Provider : ck[x[1]][x[2]] = "completed"}
      closed == {x \in Run \X Provider : ck[x[1]][x[2]] \in ClosedCkpt}
  IN [status |->
        IF closed = Run \X Provider
        THEN IF done = closed THEN "completed"
             ELSE IF done # {} THEN "partial" ELSE "failed"
        ELSE IF \E r \in Run : st[r] \in {"running", "waiting_runner"}
        THEN "running"
        ELSE IF \E r \in Run : st[r] = "queued" THEN "scheduled" ELSE "queued",
      completed |-> Cardinality(done)]

-----------------------------------------------------------------------------
(* startGeoCollectionRun, after the transaction that creates the rows.     *)

Waiting(r) == [p \in Provider |->
                 IF job[r][p] = "none" THEN "waiting" ELSE job[r][p]]

\* enqueueProviderJobs: a job that exists is left alone; some insertions fail.
Enqueue(r, failing) ==
  /\ failing = {} \/ lost + retries < MaxTrouble
  /\ \A p \in failing : job[r][p] = "none"
  /\ lost' = IF failing = {} THEN lost ELSE lost + 1
  /\ job' = [job EXCEPT ![r] = [p \in Provider |->
               IF p \in failing THEN job[r][p] ELSE Waiting(r)[p]]]
  /\ refused' = IF failing = Provider THEN refused \cup {r} ELSE refused
  /\ UNCHANGED <<verdict, seen>>

StartEnqueue ==
  /\ starter = "created"
  /\ \E failing \in SUBSET Provider :
       /\ Enqueue(1, failing)
       /\ starter' = IF failing = Provider THEN "failed" ELSE "enqueued"
  /\ UNCHANGED <<rowVars, pass, userVars, timeVars>>

StartMark ==
  /\ starter \in {"enqueued", "failed"}
  /\ status' = [status EXCEPT ![1] = IF starter = "failed" THEN "failed" ELSE "running"]
  /\ series' = [series EXCEPT !.status = IF starter = "failed" THEN "scheduled"
                                         ELSE "running"]
  /\ starter' = "over"
  /\ UNCHANGED <<at, order, ckpt, jobVars, pass, refused, userVars, timeVars>>

-----------------------------------------------------------------------------
(* dispatchScheduledGeoRuns: a pass over the runs that were due when it    *)
(* began.  Each is checked, then postponed or claimed and enqueued.        *)

Due == {r \in Run : status[r] = "queued" /\ at[r] <= 0}

\* The position of a run among the others, at times that are never equal.
Rank(r) == CHOOSE i \in Run : order[i] = r

\* scheduledAt is set to a time t quarters from now, somewhere in that quarter.
Reschedule(r, t) ==
  /\ at' = [at EXCEPT ![r] = t]
  /\ \E i \in Run :
       LET others == RemoveAt(order, Rank(r))
           moved == InsertAt(others, i, r) IN
       /\ \A j \in 1 .. Batches - 1 : at'[moved[j]] <= at'[moved[j + 1]]
       /\ t = 0 => \A j \in Run : j > i => at[moved[j]] > 0
       /\ order' = moved

\* The due runs by their times, ten at most.
DueInOrder ==
  LET n == Min({10, Cardinality(Due)}) IN
  {list \in [1 .. n -> Due] :
     /\ \A i, j \in 1 .. n : i < j => Rank(list[i]) < Rank(list[j])
     /\ \A r \in Due : Rank(r) < Rank(list[n]) => r \in Range(list)}

PassRead ==
  /\ pass.step = "idle" /\ Due # {}
  /\ \E list \in DueInOrder : pass' = [due |-> list, step |-> "check", plan |-> "none"]
  /\ UNCHANGED <<rowVars, starter, refused, jobVars, userVars, timeVars>>

\* A variant that lets a run go when the batches before it have been started.
BlockedByQueued(r) == \E s \in Run \ {r} : Rank(s) < Rank(r) /\ status[s] = "queued"

Blocked(r) == \E s \in Run \ {r} : Rank(s) < Rank(r) /\ status[s] \notin Terminal

\* A variant that counts what is there and not what the batch adds.
LimitExceeded == \E p \in Provider : today[p] > DailyLimit

LimitReached == \E p \in Provider : today[p] + 1 > DailyLimit

PassCheck ==
  /\ pass.step = "check"
  /\ LET r == Head(pass.due) IN
     pass' = [pass EXCEPT !.step = "act",
                !.plan = IF Blocked(r) THEN "later"
                         ELSE IF LimitReached THEN "tomorrow" ELSE "claim"]
  /\ UNCHANGED <<rowVars, starter, refused, jobVars, userVars, timeVars>>

\* The pass goes on with the next due run.
NextDue == IF Len(pass.due) = 1 THEN Idle
           ELSE [due |-> Tail(pass.due), step |-> "check", plan |-> "none"]

Postpone ==
  /\ pass.step = "act" /\ pass.plan \in {"later", "tomorrow"}
  /\ Reschedule(Head(pass.due), IF pass.plan = "later" THEN 1 ELSE Day)
  /\ pass' = NextDue
  /\ UNCHANGED <<status, ckpt, series, starter, refused, jobVars, userVars, timeVars>>

Claim ==
  /\ pass.step = "act" /\ pass.plan = "claim"
  /\ LET r == Head(pass.due) IN
     IF status[r] = "queued"
     THEN /\ status' = [status EXCEPT ![r] = "waiting_runner"]
          /\ pass' = [pass EXCEPT !.step = "enqueue"]
     ELSE pass' = NextDue /\ UNCHANGED status
  /\ UNCHANGED <<at, order, ckpt, series, starter, refused, jobVars, userVars, timeVars>>

DispatchEnqueue ==
  /\ pass.step = "enqueue"
  /\ \E failing \in SUBSET Provider :
       /\ Enqueue(Head(pass.due), failing)
       /\ pass' = [pass EXCEPT !.step = IF failing = Provider THEN "failed" ELSE "mark"]
  /\ UNCHANGED <<rowVars, starter, userVars, timeVars>>

DispatchMark ==
  /\ pass.step \in {"mark", "failed"}
  /\ LET st == [status EXCEPT ![Head(pass.due)] =
                  IF pass.step = "mark" THEN "running" ELSE "failed"] IN
     status' = st /\ series' = SeriesOf(st, ckpt)
  /\ pass' = NextDue
  /\ UNCHANGED <<at, order, ckpt, starter, refused, jobVars, userVars, timeVars>>

Dispatch == PassRead \/ PassCheck \/ Postpone \/ Claim \/ DispatchEnqueue \/ DispatchMark

-----------------------------------------------------------------------------
(* The jobs: one at a time for each provider, providers side by side.      *)

Active == {"active", "stored", "tallied", "settled"}
SetJob(r, p, state) == job' = [job EXCEPT ![r][p] = state]

\* A variant of a worker that takes a job whatever else it runs.
PickAny(r, p) ==
  /\ job[r][p] = "waiting"
  /\ SetJob(r, p, IF ckpt[r][p] \in ClosedCkpt THEN "stored" ELSE "active")
  /\ UNCHANGED <<rowVars, verdict, seen, lost, passVars, userVars, timeVars>>

Pick(r, p) ==
  /\ job[r][p] = "waiting"
  /\ \A s \in Run : job[s][p] \notin Active
  /\ SetJob(r, p, IF ckpt[r][p] \in ClosedCkpt THEN "stored" ELSE "active")
  /\ UNCHANGED <<rowVars, verdict, seen, lost, passVars, userVars, timeVars>>

\* A run that the request or pass which enqueues it has yet to leave behind.
Fresh(r) == \/ r = 1 /\ starter # "over"
            \/ \E i \in DOMAIN pass.due : pass.due[i] = r

\* The answer is persisted, or the sample fails.  An answer takes minutes, so
\* that none comes before the run's request is over; a failure may be at once.
Close(r, p) ==
  /\ job[r][p] = "active"
  /\ SetJob(r, p, "stored")
  /\ \/ /\ ~Fresh(r)
        /\ ckpt' = [ckpt EXCEPT ![r][p] = "completed"]
        /\ today' = [today EXCEPT ![p] = @ + 1]
     \/ ckpt' = [ckpt EXCEPT ![r][p] = "failed"] /\ UNCHANGED today
  /\ UNCHANGED <<status, at, order, series, verdict, seen, lost, passVars, userVars, quarter>>

\* finalizeGeoProviderRun: the verdict is read in one statement and written in
\* another, and so is the series row; the other providers' jobs go on meanwhile.
Tally(r, p) ==
  /\ job[r][p] = "stored"
  /\ SetJob(r, p, "tallied")
  /\ verdict' = [verdict EXCEPT ![p] = RunVerdict(ckpt[r])]
  /\ UNCHANGED <<rowVars, seen, lost, passVars, userVars, timeVars>>

\* The reads of refreshCollectionSeries follow at once: later ones would only
\* make the row fresher.
Settle(r, p) ==
  /\ job[r][p] = "tallied"
  /\ status' = [status EXCEPT ![r] = verdict[p]]
  /\ verdict' = [verdict EXCEPT ![p] = "none"]
  /\ seen' = [seen EXCEPT ![p] = SeriesOf(status', ckpt)]
  /\ SetJob(r, p, "settled")
  /\ UNCHANGED <<at, order, ckpt, series, lost, passVars, userVars, timeVars>>

SeriesWrite(r, p) ==
  /\ job[r][p] = "settled"
  /\ SetJob(r, p, "none")
  /\ series' = seen[p]
  /\ seen' = [seen EXCEPT ![p] = NoRow]
  /\ UNCHANGED <<status, at, order, ckpt, verdict, lost, passVars, userVars, timeVars>>

JobStep(r, p) ==
  \/ Pick(r, p) \/ Close(r, p) \/ Tally(r, p) \/ Settle(r, p) \/ SeriesWrite(r, p)

\* The job is gone, with a process or with Redis; its sample stays open.
Vanish(r, p) ==
  /\ job[r][p] \in {"waiting", "active"} /\ lost + retries < MaxTrouble
  /\ lost' = lost + 1
  /\ SetJob(r, p, "none")
  /\ UNCHANGED <<rowVars, verdict, seen, passVars, userVars, timeVars>>

-----------------------------------------------------------------------------
(* reconcileStaleGeoCollectionRuns.  A run is stale when nothing has been  *)
(* written to it for a while: no job of it lives and no request is at it.  *)

Quiet(r) ==
  /\ \A p \in Provider : job[r][p] = "none"
  /\ ~Fresh(r)
  /\ retry.step = "reopened" => retry.run # r

\* A variant that leaves a run alone whose samples are all closed.
ReconcileOpenOnly(r) ==
  /\ \E p \in Provider : ckpt[r][p] \notin ClosedCkpt
  /\ status[r] \in {"running", "waiting_runner"} /\ Quiet(r)
  /\ ckpt' = [ckpt EXCEPT ![r] = [p \in Provider |->
                 IF ckpt[r][p] \notin ClosedCkpt THEN "failed" ELSE ckpt[r][p]]]
  /\ status' = [status EXCEPT ![r] = RunVerdict(ckpt'[r])]
  /\ series' = SeriesOf(status', ckpt')
  /\ UNCHANGED <<at, order, jobVars, passVars, userVars, timeVars>>

\* Runs whose samples are all closed are sealed, the others queued again at
\* once or, after a day, expired.
Reconcile(r) ==
  /\ status[r] \in {"running", "waiting_runner"} /\ Quiet(r)
  /\ LET open == {p \in Provider : ckpt[r][p] \notin ClosedCkpt}
         requeued == [p \in Provider |-> IF p \in open THEN "queued" ELSE ckpt[r][p]]
         expired == [p \in Provider |-> IF p \in open THEN "failed" ELSE ckpt[r][p]]
     IN \/ /\ open = {}
           /\ status' = [status EXCEPT ![r] = RunVerdict(ckpt[r])]
           /\ UNCHANGED <<at, order, ckpt>>
        \/ /\ open # {}
           /\ ckpt' = [ckpt EXCEPT ![r] = requeued]
           /\ status' = [status EXCEPT ![r] = "queued"]
           /\ Reschedule(r, 0)
        \/ /\ open # {}
           /\ ckpt' = [ckpt EXCEPT ![r] = expired]
           /\ status' = [status EXCEPT ![r] = RunVerdict(expired)]
           /\ UNCHANGED <<at, order>>
  /\ series' = SeriesOf(status', ckpt')
  /\ UNCHANGED <<jobVars, passVars, userVars, timeVars>>

-----------------------------------------------------------------------------
(* retryGeoSamples: the failed samples of a run, a job for each provider.  *)
(* The user is taken to wait for the end of the run's jobs and requests.   *)

FailedOf(r) == {p \in Provider : ckpt[r][p] = "failed"}

RetryReopen ==
  /\ retry.step = "none" /\ lost + retries < MaxTrouble
  /\ \E r \in Run :
       /\ FailedOf(r) # {} /\ ~Fresh(r) /\ \A p \in Provider : job[r][p] = "none"
       /\ retry' = [step |-> "reopened", run |-> r]
       /\ retried' = retried \cup {r}
       /\ ckpt' = [ckpt EXCEPT ![r] = [p \in Provider |->
                      IF p \in FailedOf(r) THEN "queued" ELSE ckpt[r][p]]]
  /\ retries' = retries + 1
  /\ UNCHANGED <<status, at, order, series, jobVars, passVars, timeVars>>

RetryEnqueue ==
  /\ retry.step = "reopened"
  /\ LET r == retry.run IN
     /\ job' = [job EXCEPT ![r] = [p \in Provider |->
                  IF ckpt[r][p] = "queued" THEN Waiting(r)[p] ELSE job[r][p]]]
     /\ status' = [status EXCEPT ![r] = "running"]
     /\ series' = SeriesOf(status', ckpt)
  /\ retry' = [step |-> "none", run |-> 0]
  /\ UNCHANGED <<at, order, ckpt, verdict, seen, lost, passVars, retries, retried, timeVars>>

Retry == RetryReopen \/ RetryEnqueue

-----------------------------------------------------------------------------
(* Time.  A due run waits for a pass no longer than MaxOverdue; the age of *)
(* the others does not matter beyond that.  A request, a pass or a         *)
(* finalization is over within the quarter in which it began; a job may    *)
(* run on over midnight.                                                   *)

Later(t) == IF t > -MaxOverdue THEN t - 1 ELSE t

Tick ==
  /\ starter = "over" /\ retry.step = "none" /\ pass.step = "idle"
  /\ \A r \in Run : \A p \in Provider :
       job[r][p] \in {"none", "waiting", "active"}
  /\ \A r \in Run : status[r] = "queued" => at[r] > -MaxOverdue
  /\ at' = [r \in Run |-> Later(at[r])]
  /\ quarter' = (quarter + 1) % Day
  /\ today' = IF quarter' = 0 THEN [p \in Provider |-> 0] ELSE today
  /\ UNCHANGED <<status, order, ckpt, series, jobVars, passVars, userVars>>

Next ==
  \/ StartEnqueue \/ StartMark
  \/ Dispatch
  \/ \E r \in Run : \E p \in Provider : JobStep(r, p) \/ Vanish(r, p)
  \/ \E r \in Run : Reconcile(r)
  \/ Retry
  \/ Tick

Spec == Init /\ [][Next]_vars

\* The start request and a retry go on, the worker's timers dispatch and
\* recover, jobs run, and time passes.
FairSpec ==
  /\ Spec
  /\ WF_vars(StartEnqueue \/ StartMark) /\ WF_vars(Dispatch) /\ WF_vars(RetryEnqueue)
  /\ \A p \in Provider : WF_vars(\E r \in Run : JobStep(r, p))
  /\ SF_vars(\E r \in Run : Reconcile(r))
  /\ WF_vars(Tick)

-----------------------------------------------------------------------------
SeriesStatus == {"queued", "scheduled", "running"} \cup Terminal

\* The types; a provider's jobs run one at a time, and the pass has a run in
\* hand unless it is idle.
TypeOK ==
  /\ status \in [Run -> {"queued", "waiting_runner", "running"} \cup Terminal]
  /\ at \in [Run -> Int]
  /\ order \in [Run -> Run] /\ \A i \in 1 .. Batches - 1 : at[order[i]] <= at[order[i + 1]]
  /\ ckpt \in [Run -> [Provider -> {"queued"} \cup ClosedCkpt]]
  /\ job \in [Run -> [Provider -> {"none", "waiting"} \cup Active]]
  /\ \A p \in Provider : \A r, s \in Run :
       job[r][p] \in Active /\ job[s][p] \in Active => r = s
  /\ verdict \in [Provider -> {"none", "running"} \cup Terminal]
  /\ {series} \cup ({seen[p] : p \in Provider} \ {NoRow})
       \subseteq [status : SeriesStatus, completed : 0 .. Batches * Cardinality(Provider)]
  /\ starter \in {"created", "enqueued", "failed", "over"}
  /\ pass.step \in {"idle", "check", "act", "enqueue", "mark", "failed"}
  /\ pass.step = "idle" <=> pass.due = <<>>
  /\ \A i \in DOMAIN pass.due : pass.due[i] \in Run
  /\ pass.plan \in {"none", "later", "tomorrow", "claim"}
  /\ today \in [Provider -> Nat] /\ quarter \in 0 .. Day - 1
  /\ refused \subseteq Run /\ lost + retries \in 0 .. MaxTrouble
  /\ retry.step \in {"none", "reopened"} /\ retried \subseteq Run

Collecting(r) == \E p \in Provider :
  job[r][p] \in {"waiting", "active"} /\ ckpt[r][p] = "queued"

\* Batches of a series do not overlap, postponements, lost jobs and restarts
\* notwithstanding: two runs never collect at once, unless one of them was
\* reopened by a retry or called failed when Redis refused its jobs
\* (runs.ts:1280-1296).
OneBatchAtATime ==
  \A r, s \in Run \ (retried \cup refused) :
    Collecting(r) /\ Collecting(s) => r = s

\* No provider completes more than the daily limit between two midnights,
\* beyond what the user retries and the runs called failed whose jobs another
\* request inserted (runs.ts:1298-1318).
WithinDailyLimit ==
  \A p \in Provider : today[p] <= DailyLimit + retries + Cardinality(refused)

\* Every batch comes to an end: a postponed one gets its turn, and a run row
\* that overlapping finalizations left "running" does not block the later ones.
EveryBatchEnds ==
  \A r \in Run : []<>(status[r] \in Terminal)

=============================================================================
