----------------------------- MODULE ProviderRun -----------------------------
(***************************************************************************)
(* One collection run of one provider, from its creation to its last       *)
(* settled sample: the sample checkpoints and the run row in PostgreSQL,   *)
(* the provider's BullMQ queue, the cancel key and the stop channel in     *)
(* Redis, the collector process that takes jobs from the queue, and the    *)
(* callers that start, cancel, retry and recover the run.                  *)
(*                                                                         *)
(*   packages/services/src/geo/runs.ts     checkpoints and run row         *)
(*   packages/services/src/agent/jobs.ts   queue, cancel key, stop channel *)
(*   apps/agent/src/worker/jobHandler.ts   the job handler                 *)
(*   apps/agent/src/worker.ts, index.ts    worker options, timers, exit    *)
(*                                                                         *)
(* A step is the code between two awaits that touches shared state: one    *)
(* database statement or transaction, or one Redis or queue command.       *)
(* Everything that waits (the handler, the callbacks of the prompt         *)
(* runner, the timers, the web requests) has a program counter, and all of *)
(* them interleave.                                                        *)
(*                                                                         *)
(* Left to other modules: the series row, the counters and the other       *)
(* providers of a run; where a sample's answer is stored; why an attempt   *)
(* fails and how often the runner retries it (here: any outcome, at most   *)
(* MaxStarts attempts a job); the progress record shown to the user.       *)
(***************************************************************************)
EXTENDS Naturals, FiniteSets

CONSTANTS Prompt,       \* the prompts of the run
          NoPrompt,     \* no prompt
          MaxStalled,   \* maxStalledCount of the worker
          MaxStarts,    \* attempts the runner makes in one job
          MaxCrash,     \* process crashes explored
          MaxShutdown,  \* orderly shutdowns explored
          MaxCancel,    \* cancel requests explored
          MaxRetry,     \* retry requests explored
          MaxFault,     \* failing database or Redis calls explored
          MaxQueueFault,\* failing insertions by start, dispatch, restart
          MaxEvent,     \* and all of these together
          PassOvertaken \* jobs may overtake a recovery pass or a retry's look

ASSUME RunAssumption ==
  /\ IsFiniteSet(Prompt) /\ Prompt # {} /\ NoPrompt \notin Prompt
  /\ MaxStalled \in Nat /\ MaxStarts \in Nat
  /\ MaxCrash \in Nat /\ MaxShutdown \in Nat /\ MaxCancel \in Nat
  /\ MaxRetry \in Nat /\ MaxFault \in Nat /\ MaxQueueFault \in Nat
  /\ MaxEvent \in Nat
  /\ PassOvertaken \in BOOLEAN

VARIABLES
  ckpt,        \* sample_checkpoints.status, per prompt
  runStatus,   \* collection_runs.status
  runAge,      \* how long ago collection_runs.updated_at was set
  jobState,    \* the provider queue: the state of each job id
  jobPrompts,  \* the prompts in each job's payload
  stalls,      \* how often each job was found stalled
  cancelKey,   \* the Redis cancel key is set
  stopMsg,     \* a stop message is on its way to the collector
  agent,       \* the collector process
  h,           \* the job handler that is running
  cb,          \* the runner's database callback, and one left behind by an abort
  startPc,     \* startGeoCollectionRun, after its transaction
  dispPc,      \* dispatchScheduledGeoRuns
  recon,       \* reconcileStaleGeoCollectionRuns
  cancelReq,   \* cancelProviderRun
  retryReq,    \* retryGeoSamples
  spent        \* what is used up of each bound

dbVars    == <<ckpt, runStatus, runAge>>
queueVars == <<jobState, jobPrompts, stalls>>
redisVars == <<cancelKey, stopMsg>>
webVars   == <<startPc, cancelReq, retryReq>>
timerVars == <<dispPc, recon>>
vars == <<dbVars, queueVars, redisVars, agent, h, cb, webVars, timerVars, spent>>

-----------------------------------------------------------------------------
Open   == {"queued", "running", "retrying"}
Closed == {"failed", "not_attempted", "cancelled"}
CkptStatus == Open \cup Closed \cup {"completed"}

RunStatus ==
  {"queued", "waiting_runner", "running", "partial", "completed", "failed"}

Base  == 0                                  \* job id run__provider
JobId == Base .. (MaxShutdown + MaxRetry)   \* and the suffixed ids
Live  == {"waiting", "active"}

HandlerPc ==
  {"idle", "resume", "register", "checkKey", "prompt", "blame", "sweepRead",
   "sweepWrite", "tally", "settle", "requeue", "reenqueue", "ack"}

IdleHandler ==
  [pc |-> "idle", job |-> Base, todo |-> {}, persisted |-> 0,
   step |-> "free", active |-> NoPrompt, abort |-> "no", fin |-> "failed",
   sweep |-> {}, verdict |-> "running", starts |-> 0]

NoCallback == [step |-> "none", p |-> NoPrompt, ev |-> "running"]

NoRecon == [pc |-> "idle", open |-> {}, verdict |-> "running", age |-> "stale"]

OpenPrompts(c) == {p \in Prompt : c[p] \in Open}

\* The status finalizeGeoProviderRun derives from the checkpoints it read.
RunVerdict(c) ==
  IF OpenPrompts(c) # {} THEN "running"
  ELSE IF \A p \in Prompt : c[p] = "completed" THEN "completed"
  ELSE IF \E p \in Prompt : c[p] = "completed" THEN "partial"
  ELSE "failed"

\* Timing.  A recovery pass is a few statements long: unless PassOvertaken, no
\* job ends within one, and no job that starts once the pass has looked at the
\* queue has an answer before the pass is over.  Nor is a sample completed
\* between the look of a retry request at it and the write that reopens it.
JobMayEnd == recon.pc = "idle" \/ PassOvertaken
AnswerMayCome == recon.pc \notin {"requeue", "expire", "seal"} \/ PassOvertaken
AnswerMayLand(p) ==
  retryReq.pc # "reopen" \/ p \notin retryReq.set \/ PassOvertaken

SetStatus(S, status) == [p \in Prompt |-> IF p \in S THEN status ELSE ckpt[p]]

Init ==
  /\ ckpt = [p \in Prompt |-> "queued"]
  /\ runStatus = "queued"
  /\ runAge = "fresh"
  /\ jobState = [j \in JobId |-> "none"]
  /\ jobPrompts = [j \in JobId |-> {}]
  /\ stalls = [j \in JobId |-> 0]
  /\ cancelKey = FALSE
  /\ stopMsg = FALSE
  /\ agent = "up"
  /\ h = IdleHandler
  /\ cb = [live |-> NoCallback, zombie |-> NoCallback]
  /\ startPc = "enqueue"
  /\ dispPc = "idle"
  /\ recon = NoRecon
  /\ cancelReq = [pc |-> "idle", seen |-> FALSE]
  /\ retryReq = [pc |-> "idle", set |-> {}]
  /\ spent = [crash |-> 0, shutdown |-> 0, cancel |-> 0, retry |-> 0,
              fault |-> 0, queueFault |-> 0, suffix |-> 0]

-----------------------------------------------------------------------------
(* The queue.  enqueueProviderJob returns without adding anything when a   *)
(* job of that id exists in any state, and so does BullMQ's own add, which *)
(* makes the look-up and the insertion one step.  Finished jobs are        *)
(* removed, failed ones are kept (queue.ts).                               *)

Enqueue(j, prompts) ==
  IF jobState[j] = "none"
  THEN /\ jobState' = [jobState EXCEPT ![j] = "waiting"]
       /\ jobPrompts' = [jobPrompts EXCEPT ![j] = prompts]
       /\ stalls' = [stalls EXCEPT ![j] = 0]
  ELSE UNCHANGED queueVars

NextSuffix == spent.suffix + 1

Events ==
  spent.crash + spent.shutdown + spent.cancel + spent.retry + spent.fault
    + spent.queueFault

Use(bound) ==
  /\ Events < MaxEvent \/ bound = "suffix"
  /\ spent' = [spent EXCEPT ![bound] = @ + 1]

-----------------------------------------------------------------------------
(* startGeoCollectionRun, once its transaction has created the run and its *)
(* checkpoints, and dispatchScheduledGeoRuns, every minute for due runs.   *)

StartEnqueue ==
  /\ startPc = "enqueue"
  /\ Enqueue(Base, Prompt)
  /\ startPc' = "mark"
  /\ UNCHANGED <<dbVars, redisVars, agent, h, cb, cancelReq, retryReq,
                 timerVars, spent>>

\* The insertion fails for the run's only provider: the run is "failed".
StartEnqueueFails ==
  /\ startPc = "enqueue"
  /\ spent.queueFault < MaxQueueFault
  /\ Use("queueFault")
  /\ startPc' = "markFailed"
  /\ UNCHANGED <<dbVars, queueVars, redisVars, agent, h, cb, cancelReq, retryReq,
                 timerVars>>

StartMark ==
  /\ startPc \in {"mark", "markFailed"}
  /\ runStatus' = IF startPc = "mark" THEN "running" ELSE "failed"
  /\ runAge' = "fresh"
  /\ startPc' = "done"
  /\ UNCHANGED <<ckpt, queueVars, redisVars, agent, h, cb, cancelReq, retryReq,
                 timerVars, spent>>

\* The conditional update that claims the run.
DispatchClaim ==
  /\ agent # "down"
  /\ dispPc = "idle"
  /\ runStatus = "queued"
  /\ runStatus' = "waiting_runner"
  /\ runAge' = "fresh"
  /\ dispPc' = "enqueue"
  /\ UNCHANGED <<ckpt, queueVars, redisVars, agent, h, cb, webVars, recon, spent>>

DispatchEnqueue ==
  /\ dispPc = "enqueue"
  /\ Enqueue(Base, Prompt)
  /\ dispPc' = "mark"
  /\ UNCHANGED <<dbVars, redisVars, agent, h, cb, webVars, recon, spent>>

DispatchEnqueueFails ==
  /\ dispPc = "enqueue"
  /\ spent.queueFault < MaxQueueFault
  /\ Use("queueFault")
  /\ dispPc' = "markFailed"
  /\ UNCHANGED <<dbVars, queueVars, redisVars, agent, h, cb, webVars, recon>>

DispatchMark ==
  /\ dispPc \in {"mark", "markFailed"}
  /\ runStatus' = IF dispPc = "mark" THEN "running" ELSE "failed"
  /\ runAge' = "fresh"
  /\ dispPc' = "idle"
  /\ UNCHANGED <<ckpt, queueVars, redisVars, agent, h, cb, webVars, recon, spent>>

-----------------------------------------------------------------------------
(* The worker takes jobs one at a time; a job whose worker died is found   *)
(* stalled and returned to the queue, MaxStalled times at most.            *)

Pick(j) ==
  /\ agent = "up"
  /\ h.pc = "idle"
  /\ jobState[j] = "waiting"
  /\ jobState' = [jobState EXCEPT ![j] = "active"]
  /\ h' = [IdleHandler EXCEPT !.pc = "resume", !.job = j]
  /\ UNCHANGED <<dbVars, jobPrompts, stalls, redisVars, agent, cb, webVars,
                 timerVars, spent>>

Stalled(j) ==
  /\ agent # "down"
  /\ jobState[j] = "active"
  /\ h.pc = "idle" \/ h.job # j
  /\ stalls' = [stalls EXCEPT ![j] = @ + 1]
  /\ jobState' = [jobState EXCEPT ![j] =
                    IF stalls[j] < MaxStalled THEN "waiting" ELSE "failed"]
  /\ UNCHANGED <<dbVars, jobPrompts, redisVars, agent, h, cb, webVars,
                 timerVars, spent>>

-----------------------------------------------------------------------------
(* The handler, up to the first prompt.                                    *)

\* Mutant of Resume: the payload is run as it is.
ResumeUnfiltered ==
  /\ h.pc = "resume"
  /\ h' = [h EXCEPT !.todo = jobPrompts[h.job], !.pc = "register"]
  /\ UNCHANGED <<dbVars, queueVars, redisVars, agent, cb, webVars, timerVars, spent>>

\* Behind the execution gate: getGeoProviderCheckpointState and
\* resolveProviderJobResume.
Resume ==
  /\ h.pc = "resume"
  /\ LET runnable == jobPrompts[h.job] \cap OpenPrompts(ckpt)
         done == Cardinality({p \in Prompt : ckpt[p] = "completed"})
     IN h' = [h EXCEPT !.todo = runnable,
                       !.persisted = done,
                       !.pc = IF runnable = {} THEN "tally" ELSE "register",
                       !.fin = IF runnable = {} THEN "completed" ELSE @]
  /\ UNCHANGED <<dbVars, queueVars, redisVars, agent, cb, webVars, timerVars, spent>>

\* No session, or the provider is disabled: every owned prompt is closed.
Unavailable ==
  /\ h.pc = "register"
  /\ h' = [h EXCEPT !.pc = "sweepRead", !.fin = "failed"]
  /\ UNCHANGED <<dbVars, queueVars, redisVars, agent, cb, webVars, timerVars, spent>>

\* The stop and shutdown callbacks are registered before the cancel key is
\* read, so that a cancel request meets one or the other.
Register ==
  /\ h.pc = "register"
  /\ h' = [h EXCEPT !.pc = "checkKey"]
  /\ UNCHANGED <<dbVars, queueVars, redisVars, agent, cb, webVars, timerVars, spent>>

CheckKey ==
  /\ h.pc = "checkKey"
  /\ h' = IF ~cancelKey THEN [h EXCEPT !.pc = "prompt"]
          ELSE IF h.abort = "shutdown" THEN [h EXCEPT !.pc = "requeue"]
          ELSE [h EXCEPT !.pc = "sweepRead", !.fin = "cancelled"]
  /\ UNCHANGED <<dbVars, queueVars, redisVars, agent, cb, webVars, timerVars, spent>>

-----------------------------------------------------------------------------
(* The prompt runner inside agentHandler: it begins an attempt, the        *)
(* attempt fails or is answered, and each of these reports through a       *)
(* callback that reads and then writes the checkpoint.  In which order it  *)
(* takes the prompts and when it takes one again is left open: a failure   *)
(* may be retried at once, after the other prompts, or not at all.         *)

Prompting == h.pc = "prompt" /\ h.abort = "no" /\ cb.live = NoCallback

Report(p, status) ==
  cb' = [cb EXCEPT !.live = [step |-> "read", p |-> p, ev |-> status]]

\* onPromptProgress and the "started" report.
BeginAttempt(p) ==
  /\ Prompting
  /\ h.step = "free"
  /\ h.starts < MaxStarts
  /\ p \in h.todo
  /\ h' = [h EXCEPT !.active = p, !.step = "asked", !.starts = @ + 1]
  /\ Report(p, "running")
  /\ UNCHANGED <<dbVars, queueVars, redisVars, agent, webVars, timerVars, spent>>

\* The "failed" report, also of a conversation that cannot be opened.
FailAttempt(retryable) ==
  /\ Prompting
  /\ h.step = "asked"
  /\ h' = [h EXCEPT !.step = "free"]
  /\ Report(h.active, IF retryable THEN "retrying" ELSE "failed")
  /\ UNCHANGED <<dbVars, queueVars, redisVars, agent, webVars, timerVars, spent>>

\* The "completed" report, which leaves the checkpoint running ...
AnswerAttempt ==
  /\ Prompting
  /\ h.step = "asked"
  /\ h' = [h EXCEPT !.step = "answered"]
  /\ Report(h.active, "running")
  /\ UNCHANGED <<dbVars, queueVars, redisVars, agent, webVars, timerVars, spent>>

\* ... and onSampleComplete.  Neither starts once the job is aborted.
SampleComplete ==
  /\ Prompting
  /\ AnswerMayCome
  /\ h.step = "answered"
  /\ h' = [h EXCEPT !.step = "free"]
  /\ cb' = [cb EXCEPT !.live = [step |-> "isolate", p |-> h.active, ev |-> "completed"]]
  /\ UNCHANGED <<dbVars, queueVars, redisVars, agent, webVars, timerVars, spent>>

\* The runner returns or throws; an error names the active prompt.
EndPrompts(thrown) ==
  /\ Prompting
  /\ LET all == h.persisted >= Cardinality(Prompt)
     IN h' = [h EXCEPT
                !.fin = IF all THEN "completed" ELSE "failed",
                !.active = IF thrown THEN @ ELSE NoPrompt,
                !.pc = IF all THEN "tally" ELSE "blame"]
  /\ UNCHANGED <<dbVars, queueVars, redisVars, agent, cb, webVars, timerVars, spent>>

\* The abort wins the race in runSingleAttempt: the handler goes on at once,
\* and a callback that is between its read and its write is left behind.
\* (Bound: one such callback at a time.)
SeeAbort ==
  /\ h.pc = "prompt"
  /\ h.abort # "no"
  /\ cb.zombie = NoCallback
  /\ cb' = [live |-> NoCallback, zombie |-> cb.live]
  /\ h' = IF h.abort = "shutdown"
          THEN [h EXCEPT !.pc = "requeue"]
          ELSE [h EXCEPT !.pc = "blame", !.fin = "cancelled"]
  /\ UNCHANGED <<dbVars, queueVars, redisVars, agent, webVars, timerVars, spent>>

Touch(c) == ckpt' = c /\ runAge' = "fresh" /\ UNCHANGED runStatus

\* A callback that ends.  The runner counts the prompt of an answered sample
\* as done, also when the isolation check rejected it.
EndCallback(w) ==
  /\ cb' = [cb EXCEPT ![w] = NoCallback]
  /\ h' = IF w = "live" /\ cb[w].ev = "completed"
          THEN [h EXCEPT !.todo = @ \ {cb[w].p}]
          ELSE h

\* recordGeoSampleAttempt: the read, which ends it for a completed sample.
AttemptRead(w) ==
  /\ cb[w].step = "read"
  /\ IF ckpt[cb[w].p] = "completed"
     THEN EndCallback(w)
     ELSE cb' = [cb EXCEPT ![w].step = "write"] /\ UNCHANGED h
  /\ UNCHANGED <<dbVars, queueVars, redisVars, agent, webVars, timerVars, spent>>

\* ... and the update, by checkpoint id.
AttemptWrite(w) ==
  /\ cb[w].step = "write"
  /\ Touch([ckpt EXCEPT ![cb[w].p] = cb[w].ev])
  /\ EndCallback(w)
  /\ UNCHANGED <<queueVars, redisVars, agent, webVars, timerVars, spent>>

\* validateGeoConversationIsolation finds the conversation on another
\* completed sample, or does not; in the latter case the answer is stored and
\* the handler counts it.
SampleIsolation(w) ==
  /\ cb[w].step = "isolate"
  /\ \/ /\ \E q \in Prompt \ {cb[w].p} : ckpt[q] = "completed"
        /\ cb' = [cb EXCEPT ![w].step = "reject"]
        /\ UNCHANGED h
     \/ /\ cb' = [cb EXCEPT ![w].step = "persist"]
        /\ h' = IF w = "live" THEN [h EXCEPT !.persisted = @ + 1] ELSE h
  /\ UNCHANGED <<dbVars, queueVars, redisVars, agent, webVars, timerVars, spent>>

\* Mutant of SampleReject: a status the table does not know.
SampleRejectRaw(w) ==
  /\ cb[w].step = "reject"
  /\ Touch([ckpt EXCEPT ![cb[w].p] = "rejected"])
  /\ EndCallback(w)
  /\ UNCHANGED <<queueVars, redisVars, agent, webVars, timerVars, spent>>

SampleReject(w) ==
  /\ cb[w].step = "reject"
  /\ Touch([ckpt EXCEPT ![cb[w].p] = "failed"])
  /\ EndCallback(w)
  /\ UNCHANGED <<queueVars, redisVars, agent, webVars, timerVars, spent>>

\* persistGeoSampleCheckpoint, unconditional.
SamplePersist(w) ==
  /\ cb[w].step = "persist"
  /\ AnswerMayLand(cb[w].p)
  /\ Touch([ckpt EXCEPT ![cb[w].p] = "completed"])
  /\ EndCallback(w)
  /\ UNCHANGED <<queueVars, redisVars, agent, webVars, timerVars, spent>>

Callback(w) ==
  \/ AttemptRead(w) \/ AttemptWrite(w)
  \/ SampleIsolation(w) \/ SampleReject(w) \/ SamplePersist(w)

-----------------------------------------------------------------------------
(* finalizeGeoProviderRun.                                                 *)

\* The active prompt is closed if it is still open.
Blame ==
  /\ h.pc = "blame"
  /\ ckpt' = IF h.active # NoPrompt /\ ckpt[h.active] \in Open
             THEN [ckpt EXCEPT ![h.active] =
                     IF h.fin = "cancelled" THEN "cancelled" ELSE "failed"]
             ELSE ckpt
  /\ h' = [h EXCEPT !.pc = "sweepRead"]
  /\ UNCHANGED <<runStatus, runAge, queueVars, redisVars, agent, cb, webVars,
                 timerVars, spent>>

\* Mutant of SweepRead: untouched samples are not counted as open.
SweepReadStarted ==
  /\ h.pc = "sweepRead"
  /\ h' = [h EXCEPT !.pc = "sweepWrite",
                    !.sweep = {p \in jobPrompts[h.job] :
                                 ckpt[p] \in {"running", "retrying"}}]
  /\ UNCHANGED <<dbVars, queueVars, redisVars, agent, cb, webVars, timerVars, spent>>

\* The open checkpoints of the prompts this job owns ...
SweepRead ==
  /\ h.pc = "sweepRead"
  /\ h' = [h EXCEPT !.pc = "sweepWrite",
                    !.sweep = jobPrompts[h.job] \cap OpenPrompts(ckpt)]
  /\ UNCHANGED <<dbVars, queueVars, redisVars, agent, cb, webVars, timerVars, spent>>

\* ... are closed by id, whatever their status is by then.
SweepWrite ==
  /\ h.pc = "sweepWrite"
  /\ ckpt' = SetStatus(h.sweep, IF h.fin = "cancelled" THEN "cancelled"
                                ELSE "not_attempted")
  /\ h' = [h EXCEPT !.pc = "tally"]
  /\ UNCHANGED <<runStatus, runAge, queueVars, redisVars, agent, cb, webVars,
                 timerVars, spent>>

\* The last read of the checkpoints.
Tally ==
  /\ h.pc = "tally"
  /\ JobMayEnd
  /\ h' = [h EXCEPT !.pc = "settle", !.verdict = RunVerdict(ckpt)]
  /\ UNCHANGED <<dbVars, queueVars, redisVars, agent, cb, webVars, timerVars, spent>>

Settle ==
  /\ h.pc = "settle"
  /\ runStatus' = h.verdict
  /\ runAge' = "fresh"
  /\ h' = [h EXCEPT !.pc = "ack"]
  /\ UNCHANGED <<ckpt, queueVars, redisVars, agent, cb, webVars, timerVars, spent>>

\* The handler returns: the job is complete and removed from the queue.
Ack ==
  /\ h.pc = "ack"
  /\ jobState' = [jobState EXCEPT ![h.job] = "none"]
  /\ h' = IdleHandler
  /\ UNCHANGED <<dbVars, jobPrompts, stalls, redisVars, agent, cb, webVars,
                 timerVars, spent>>

\* prepareGeoProviderForCollectorRestart, one transaction.
Requeue ==
  /\ h.pc = "requeue"
  /\ ckpt' = [p \in Prompt |->
                IF ckpt[p] \in {"running", "retrying"} THEN "queued" ELSE ckpt[p]]
  /\ runStatus' = "waiting_runner"
  /\ runAge' = "fresh"
  /\ h' = [h EXCEPT !.pc = "reenqueue"]
  /\ UNCHANGED <<queueVars, redisVars, agent, cb, webVars, timerVars, spent>>

\* The replacement job, under an id of its own, for the same prompts.
Reenqueue ==
  /\ h.pc = "reenqueue"
  /\ Enqueue(NextSuffix, jobPrompts[h.job])
  /\ Use("suffix")
  /\ h' = [h EXCEPT !.pc = "ack"]
  /\ UNCHANGED <<dbVars, redisVars, agent, cb, webVars, timerVars>>

Handler ==
  \/ Resume \/ Unavailable \/ Register \/ CheckKey
  \/ \E p \in Prompt : BeginAttempt(p)
  \/ \E b \in BOOLEAN : FailAttempt(b) \/ EndPrompts(b)
  \/ AnswerAttempt \/ SampleComplete \/ SeeAbort
  \/ Blame \/ SweepRead \/ SweepWrite \/ Tally \/ Settle \/ Ack
  \/ Requeue \/ Reenqueue

-----------------------------------------------------------------------------
(* cancelProviderRun.  It looks the base job up, sets the key, removes the *)
(* job if it has not started, and publishes a stop message otherwise.      *)

CancelLookup ==
  /\ cancelReq.pc = "idle"
  /\ spent.cancel < MaxCancel
  /\ cancelReq' = [pc |-> "key", seen |-> jobState[Base] # "none"]
  /\ Use("cancel")
  /\ UNCHANGED <<dbVars, queueVars, redisVars, agent, h, cb, startPc, retryReq,
                 timerVars>>

CancelSetKey ==
  /\ cancelReq.pc = "key"
  /\ cancelKey' = TRUE
  /\ cancelReq' = [cancelReq EXCEPT !.pc = IF cancelReq.seen THEN "state"
                                           ELSE "publish"]
  /\ UNCHANGED <<dbVars, queueVars, stopMsg, agent, h, cb, startPc, retryReq,
                 timerVars, spent>>

\* Mutant of CancelGetState: a job that was found is taken for a waiting one.
CancelAnyState ==
  /\ cancelReq.pc = "state"
  /\ cancelReq' = [cancelReq EXCEPT !.pc = "remove"]
  /\ UNCHANGED <<dbVars, queueVars, redisVars, agent, h, cb, startPc, retryReq,
                 timerVars, spent>>

CancelGetState ==
  /\ cancelReq.pc = "state"
  /\ cancelReq' = [cancelReq EXCEPT !.pc = IF jobState[Base] = "waiting"
                                           THEN "remove" ELSE "publish"]
  /\ UNCHANGED <<dbVars, queueVars, redisVars, agent, h, cb, startPc, retryReq,
                 timerVars, spent>>

\* job.remove() throws when a worker holds the job by now.
CancelRemove ==
  /\ cancelReq.pc = "remove"
  /\ jobState' = [jobState EXCEPT ![Base] = IF @ = "waiting" THEN "none" ELSE @]
  /\ cancelReq' = [cancelReq EXCEPT !.pc = "idle"]
  /\ UNCHANGED <<dbVars, jobPrompts, stalls, redisVars, agent, h, cb, startPc,
                 retryReq, timerVars, spent>>

\* Redis delivers to the subscribers there are at that moment.
CancelPublish ==
  /\ cancelReq.pc = "publish"
  /\ stopMsg' = (stopMsg \/ agent # "down")
  /\ cancelReq' = [cancelReq EXCEPT !.pc = "idle"]
  /\ UNCHANGED <<dbVars, queueVars, cancelKey, agent, h, cb, startPc, retryReq,
                 timerVars, spent>>

Cancel == CancelSetKey \/ CancelGetState \/ CancelRemove \/ CancelPublish

\* stopActiveProviderRun: without a registered handler the message is lost.
DeliverStop ==
  /\ stopMsg
  /\ stopMsg' = FALSE
  /\ h' = IF h.pc \in {"checkKey", "prompt"} /\ h.abort = "no"
          THEN [h EXCEPT !.abort = "stop"] ELSE h
  /\ UNCHANGED <<dbVars, queueVars, cancelKey, agent, cb, webVars, timerVars, spent>>

-----------------------------------------------------------------------------
(* retryGeoSamples.                                                        *)

RetrySelect ==
  /\ retryReq.pc = "idle"
  /\ spent.retry < MaxRetry
  /\ \E S \in SUBSET {p \in Prompt : ckpt[p] \in Closed} :
       /\ S # {}
       /\ retryReq' = [pc |-> "reopen", set |-> S]
  /\ Use("retry")
  /\ UNCHANGED <<dbVars, queueVars, redisVars, agent, h, cb, startPc, cancelReq,
                 timerVars>>

RetryReopen ==
  /\ retryReq.pc = "reopen"
  /\ Touch(SetStatus(retryReq.set, "queued"))
  /\ retryReq' = [retryReq EXCEPT !.pc = "remove"]
  /\ UNCHANGED <<queueVars, redisVars, agent, h, cb, startPc, cancelReq,
                 timerVars, spent>>

\* A failed base job is removed ...
RetryRemove ==
  /\ retryReq.pc = "remove"
  /\ jobState' = [jobState EXCEPT ![Base] = IF @ = "failed" THEN "none" ELSE @]
  /\ retryReq' = [retryReq EXCEPT !.pc = "clear"]
  /\ UNCHANGED <<dbVars, jobPrompts, stalls, redisVars, agent, h, cb, startPc,
                 cancelReq, timerVars, spent>>

\* ... and so is the cancel key.
RetryClear ==
  /\ retryReq.pc = "clear"
  /\ cancelKey' = FALSE
  /\ retryReq' = [retryReq EXCEPT !.pc = "enqueue"]
  /\ UNCHANGED <<dbVars, queueVars, stopMsg, agent, h, cb, startPc, cancelReq,
                 timerVars, spent>>

\* Mutant of RetryEnqueue: the job takes the base id.
RetryEnqueueBase ==
  /\ retryReq.pc = "enqueue"
  /\ Enqueue(Base, retryReq.set)
  /\ Use("suffix")
  /\ retryReq' = [retryReq EXCEPT !.pc = "mark"]
  /\ UNCHANGED <<dbVars, redisVars, agent, h, cb, startPc, cancelReq, timerVars>>

RetryEnqueue ==
  /\ retryReq.pc = "enqueue"
  /\ Enqueue(NextSuffix, retryReq.set)
  /\ Use("suffix")
  /\ retryReq' = [retryReq EXCEPT !.pc = "mark"]
  /\ UNCHANGED <<dbVars, redisVars, agent, h, cb, startPc, cancelReq, timerVars>>

\* The providers that could not be enqueued are not looked at.
RetryEnqueueFails ==
  /\ retryReq.pc = "enqueue"
  /\ spent.fault < MaxFault
  /\ Use("fault")
  /\ retryReq' = [retryReq EXCEPT !.pc = "mark"]
  /\ UNCHANGED <<dbVars, queueVars, redisVars, agent, h, cb, startPc, cancelReq,
                 timerVars>>

RetryMark ==
  /\ retryReq.pc = "mark"
  /\ runStatus' = "running"
  /\ runAge' = "fresh"
  /\ retryReq' = [pc |-> "idle", set |-> {}]
  /\ UNCHANGED <<ckpt, queueVars, redisVars, agent, h, cb, startPc, cancelReq,
                 timerVars, spent>>

Retry == RetryReopen \/ RetryRemove \/ RetryClear \/ RetryEnqueue \/ RetryMark

-----------------------------------------------------------------------------
(* reconcileStaleGeoCollectionRuns, at start-up and every five minutes.    *)

\* The run is a candidate ...
ReconcileSelect ==
  /\ agent # "down"
  /\ recon.pc = "idle"
  /\ runStatus \in {"running", "waiting_runner"}
  /\ runAge # "fresh"
  /\ recon' = [NoRecon EXCEPT !.pc = "read", !.age = runAge]
  /\ UNCHANGED <<dbVars, queueVars, redisVars, agent, h, cb, webVars, dispPc, spent>>

\* Mutant of ReconcileRead: a run with nothing open needs no recovery.
ReconcileReadOpen ==
  /\ recon.pc = "read"
  /\ recon' = IF OpenPrompts(ckpt) = {} THEN NoRecon
              ELSE [recon EXCEPT !.pc = "look", !.open = OpenPrompts(ckpt)]
  /\ UNCHANGED <<dbVars, queueVars, redisVars, agent, h, cb, webVars, dispPc, spent>>

\* ... whose checkpoints are read when the pass comes to it.
ReconcileRead ==
  /\ recon.pc = "read"
  /\ recon' = IF OpenPrompts(ckpt) = {}
              THEN [recon EXCEPT !.pc = "close", !.verdict = RunVerdict(ckpt)]
              ELSE [recon EXCEPT !.pc = "look", !.open = OpenPrompts(ckpt)]
  /\ UNCHANGED <<dbVars, queueVars, redisVars, agent, h, cb, webVars, dispPc, spent>>

\* Nothing is open: only the run row was left behind.
ReconcileClose ==
  /\ recon.pc = "close"
  /\ runStatus' = recon.verdict
  /\ runAge' = "fresh"
  /\ recon' = NoRecon
  /\ UNCHANGED <<ckpt, queueVars, redisVars, agent, h, cb, webVars, dispPc, spent>>

\* hasLiveQueueJob and decideStaleRunRecovery.
ReconcileLook ==
  /\ recon.pc = "look"
  /\ IF \E j \in JobId : jobState[j] \in Live
     THEN runAge' = "fresh" /\ recon' = NoRecon
     ELSE /\ recon' = [recon EXCEPT !.pc = IF recon.age = "expired"
                                           THEN "expire" ELSE "requeue"]
          /\ UNCHANGED runAge
  /\ UNCHANGED <<ckpt, runStatus, queueVars, redisVars, agent, h, cb, webVars,
                 dispPc, spent>>

\* Mutant of ReconcileRequeue: all checkpoints of the run, not the open ones.
ReconcileRequeueAll ==
  /\ recon.pc = "requeue"
  /\ ckpt' = [p \in Prompt |-> "queued"]
  /\ runStatus' = "queued"
  /\ runAge' = "fresh"
  /\ recon' = NoRecon
  /\ UNCHANGED <<queueVars, redisVars, agent, h, cb, webVars, dispPc, spent>>

ReconcileRequeue ==
  /\ recon.pc = "requeue"
  /\ ckpt' = SetStatus(recon.open, "queued")
  /\ runStatus' = "queued"
  /\ runAge' = "fresh"
  /\ recon' = NoRecon
  /\ UNCHANGED <<queueVars, redisVars, agent, h, cb, webVars, dispPc, spent>>

ReconcileExpire ==
  /\ recon.pc = "expire"
  /\ ckpt' = SetStatus(recon.open, "failed")
  /\ recon' = [recon EXCEPT !.pc = "seal"]
  /\ UNCHANGED <<runStatus, runAge, queueVars, redisVars, agent, h, cb, webVars,
                 dispPc, spent>>

\* The second read and the run update.
ReconcileSeal ==
  /\ recon.pc = "seal"
  /\ runStatus' = IF \E p \in Prompt : ckpt[p] = "completed"
                  THEN "partial" ELSE "failed"
  /\ runAge' = "fresh"
  /\ recon' = NoRecon
  /\ UNCHANGED <<ckpt, queueVars, redisVars, agent, h, cb, webVars, dispPc, spent>>

Reconcile ==
  \/ ReconcileSelect \/ ReconcileRead \/ ReconcileClose \/ ReconcileLook
  \/ ReconcileRequeue \/ ReconcileExpire \/ ReconcileSeal

-----------------------------------------------------------------------------
(* The collector process.                                                  *)

\* Everything in memory goes: the handler, its callbacks, the timers, and a
\* stop message on its way to a closed connection.
Vanish ==
  /\ agent' = "down"
  /\ h' = IdleHandler
  /\ cb' = [live |-> NoCallback, zombie |-> NoCallback]
  /\ stopMsg' = FALSE
  /\ dispPc' = "idle"
  /\ recon' = NoRecon
  /\ UNCHANGED <<dbVars, queueVars, cancelKey, webVars>>

Crash ==
  /\ agent # "down"
  /\ spent.crash < MaxCrash
  /\ Use("crash")
  /\ Vanish

\* An orderly shutdown pauses the workers and interrupts the registered run.
Shutdown ==
  /\ agent = "up"
  /\ spent.shutdown < MaxShutdown
  /\ Use("shutdown")
  /\ agent' = "draining"
  /\ h' = IF h.pc \in {"checkKey", "prompt"}
          THEN [h EXCEPT !.abort = "shutdown"] ELSE h
  /\ UNCHANGED <<dbVars, queueVars, redisVars, cb, webVars, timerVars>>

\* worker.close() has waited for the handler; the process ends.
Exit ==
  /\ agent = "draining"
  /\ h.pc = "idle"
  /\ Vanish
  /\ UNCHANGED spent

Restart ==
  /\ agent = "down"
  /\ agent' = "up"
  /\ UNCHANGED <<dbVars, queueVars, redisVars, h, cb, webVars, timerVars, spent>>

-----------------------------------------------------------------------------
(* Failing calls.                                                          *)

\* A database or Redis error outside the handler's catch fails the BullMQ
\* job, for good: jobs have one attempt.
HandlerThrows ==
  /\ h.pc \in HandlerPc \ {"idle", "checkKey", "prompt", "reenqueue"}
  /\ JobMayEnd
  /\ spent.fault < MaxFault
  /\ Use("fault")
  /\ jobState' = [jobState EXCEPT ![h.job] = "failed"]
  /\ h' = IdleHandler
  /\ UNCHANGED <<dbVars, jobPrompts, stalls, redisVars, agent, cb, webVars, timerVars>>

\* An error before the runner starts is one of the job: it is finalized.
CheckKeyFails ==
  /\ h.pc = "checkKey"
  /\ spent.fault < MaxFault
  /\ Use("fault")
  /\ h' = [h EXCEPT !.pc = IF h.abort = "shutdown" THEN "requeue" ELSE "blame"]
  /\ UNCHANGED <<dbVars, queueVars, redisVars, agent, cb, webVars, timerVars>>

\* A callback breaks off.  The runner ignores that for a report; for a sample
\* it takes the prompt for unanswered, although it may have been counted.
CallbackFails(w) ==
  /\ cb[w] # NoCallback
  /\ spent.fault < MaxFault
  /\ Use("fault")
  /\ cb' = [cb EXCEPT ![w] = NoCallback]
  /\ UNCHANGED <<dbVars, queueVars, redisVars, agent, h, webVars, timerVars>>

\* The error of the replacement job is logged and dropped.
ReenqueueFails ==
  /\ h.pc = "reenqueue"
  /\ JobMayEnd
  /\ spent.queueFault < MaxQueueFault
  /\ Use("queueFault")
  /\ h' = [h EXCEPT !.pc = "ack"]
  /\ UNCHANGED <<dbVars, queueVars, redisVars, agent, cb, webVars, timerVars>>

\* A retry request breaks off between two of its steps.
RetryBreaksOff ==
  /\ retryReq.pc # "idle"
  /\ spent.fault < MaxFault
  /\ Use("fault")
  /\ retryReq' = [pc |-> "idle", set |-> {}]
  /\ UNCHANGED <<dbVars, queueVars, redisVars, agent, h, cb, startPc, cancelReq,
                 timerVars>>

Fault ==
  \/ StartEnqueueFails \/ DispatchEnqueueFails \/ RetryEnqueueFails
  \/ ReenqueueFails
  \/ HandlerThrows \/ CheckKeyFails \/ RetryBreaksOff
  \/ \E w \in {"live", "zombie"} : CallbackFails(w)

-----------------------------------------------------------------------------
(* Time.  A run row goes stale after 20 minutes without an update, and     *)
(* expires after 24 hours.  No sequence of database calls takes 20         *)
(* minutes, nor does an attempt, whose deadlines add up to less; a wait    *)
(* for a worker, or of a job for the execution gate before it resumes,     *)
(* may.  A collector that is up looks at stale rows every five minutes, so *)
(* that only one that is down lets a row expire.                           *)

Quiet ==
  /\ startPc = "done" /\ cancelReq.pc = "idle" /\ retryReq.pc = "idle"
  /\ dispPc = "idle" /\ recon.pc = "idle"
  /\ cb.live = NoCallback /\ cb.zombie = NoCallback
  /\ h.pc \in {"idle", "resume"}

GrowStale ==
  /\ Quiet
  /\ runAge = "fresh"
  /\ runAge' = "stale"
  /\ UNCHANGED <<ckpt, runStatus, queueVars, redisVars, agent, h, cb, webVars,
                 timerVars, spent>>

Expire ==
  /\ Quiet
  /\ agent = "down"
  /\ runAge = "stale"
  /\ runAge' = "expired"
  /\ UNCHANGED <<ckpt, runStatus, queueVars, redisVars, agent, h, cb, webVars,
                 timerVars, spent>>

-----------------------------------------------------------------------------
Start == StartEnqueue \/ StartMark
Dispatch == DispatchClaim \/ DispatchEnqueue \/ DispatchMark

Next ==
  \/ Start \/ Dispatch \/ Reconcile
  \/ \E j \in JobId : Pick(j) \/ Stalled(j)
  \/ Handler
  \/ \E w \in {"live", "zombie"} : Callback(w)
  \/ CancelLookup \/ Cancel \/ DeliverStop
  \/ RetrySelect \/ Retry
  \/ Crash \/ Shutdown \/ Exit \/ Restart
  \/ Fault
  \/ GrowStale \/ Expire

Spec == Init /\ [][Next]_vars

\* Requests that were begun go on, timers fire, the worker polls its queue,
\* attempts end (their timeouts see to that), a stopped collector is started
\* again and time passes.  Crashes, requests and faults are never due.
Fairness ==
  /\ WF_vars(Start) /\ WF_vars(Dispatch) /\ WF_vars(Reconcile)
  /\ WF_vars(\E j \in JobId : Pick(j))
  /\ WF_vars(\E j \in JobId : Stalled(j))
  /\ WF_vars(Handler)
  /\ \A w \in {"live", "zombie"} : WF_vars(Callback(w))
  /\ WF_vars(Cancel) /\ WF_vars(DeliverStop) /\ WF_vars(Retry)
  /\ WF_vars(Exit) /\ WF_vars(Restart) /\ WF_vars(GrowStale)

FairSpec == Spec /\ Fairness

-----------------------------------------------------------------------------
RowsOK ==
  /\ ckpt \in [Prompt -> CkptStatus]
  /\ runStatus \in RunStatus
  /\ runAge \in {"fresh", "stale", "expired"}

QueueOK ==
  /\ jobState \in [JobId -> {"none", "waiting", "active", "failed"}]
  /\ jobPrompts \in [JobId -> SUBSET Prompt]
  /\ stalls \in [JobId -> Nat]

RedisOK == cancelKey \in BOOLEAN /\ stopMsg \in BOOLEAN

AgentOK == agent \in {"up", "draining", "down"}

HandlerOK ==
  h \in [pc : HandlerPc, job : JobId, todo : SUBSET Prompt, persisted : Nat,
         step : {"free", "asked", "answered"}, active : Prompt \cup {NoPrompt},
         abort : {"no", "stop", "shutdown"},
         fin : {"completed", "failed", "cancelled"}, sweep : SUBSET Prompt,
         verdict : RunStatus, starts : Nat]

CallbackOK ==
  cb \in [{"live", "zombie"} ->
            [step : {"none", "read", "write", "isolate", "reject", "persist"},
             p : Prompt \cup {NoPrompt}, ev : CkptStatus]]

RequestsOK ==
  /\ startPc \in {"enqueue", "mark", "markFailed", "done"}
  /\ cancelReq \in [pc : {"idle", "key", "state", "remove", "publish"},
                    seen : BOOLEAN]
  /\ retryReq \in [pc : {"idle", "reopen", "remove", "clear", "enqueue", "mark"},
                   set : SUBSET Prompt]

TimersOK ==
  /\ dispPc \in {"idle", "enqueue", "mark", "markFailed"}
  /\ recon \in [pc : {"idle", "read", "close", "look", "requeue", "expire", "seal"},
                open : SUBSET Prompt, verdict : RunStatus,
                age : {"fresh", "stale", "expired"}]

SpentOK ==
  spent \in [{"crash", "shutdown", "cancel", "retry", "fault", "queueFault",
             "suffix"} -> Nat]

TypeOK ==
  /\ RowsOK /\ QueueOK /\ RedisOK /\ AgentOK /\ HandlerOK /\ CallbackOK
  /\ RequestsOK /\ TimersOK /\ SpentOK

\* A cancel request is never missed: while a job goes on prompting although
\* the key is set, a stop message is on its way or the request has yet to
\* publish it.  The one gap in cancelProviderRun is a retry or restart job
\* that runs while a base job is in the queue: a waiting base job is removed
\* and nothing is published.
CancelNotLost ==
  h.pc = "prompt" /\ h.abort = "no" /\ cancelKey
    => \/ stopMsg
       \/ cancelReq.pc \in {"key", "state", "publish"}
       \/ h.job # Base /\ cancelReq.seen

\* What makes it inductive.
OwnsJob == h.pc # "idle" => jobState[h.job] = "active"
NothingRunsDown == agent = "down" => h.pc = "idle"
RequestSaw == cancelReq.pc \in {"state", "remove"} => cancelReq.seen
CancelInv == CancelNotLost /\ OwnsJob /\ NothingRunsDown /\ RequestSaw

\* Unless the user has cancelled the provider, no open sample is stranded: a live
\* job carries it, a request is about to create one, or the run row is one that
\* dispatch or recovery looks at.  (After a stop, a callback left behind may
\* reopen a sample of a run that is closed.)
NotStranded ==
  spent.cancel = 0 =>
    \A p \in OpenPrompts(ckpt) :
      \/ \E j \in JobId : jobState[j] \in Live /\ p \in jobPrompts[j]
      \/ retryReq.pc # "idle"
      \/ runStatus \in {"queued", "waiting_runner", "running"}

\* A completed sample stays completed.
CompletedStays ==
  [][\A p \in Prompt : ckpt[p] = "completed" => ckpt'[p] = "completed"]_vars

\* An answer once accepted is not asked for again.
CompletedNotAsked ==
  [][\A p \in Prompt :
       cb.live.step = "none" /\ cb'.live.step = "read" /\ cb'.live.p = p
         => ckpt[p] # "completed"]_vars

\* Every sample is settled in the end, through crashes and restarts, unless the
\* user cancels.
EverySampleSettles == <>[](spent.cancel = 0 => OpenPrompts(ckpt) = {})

\* The run row ends up saying what its checkpoints say, under the same
\* condition.
RunStatusConverges ==
  <>[](spent.cancel = 0 => runStatus = RunVerdict(ckpt))
=============================================================================
