--------------------------- MODULE RemoteCollector ---------------------------
(***************************************************************************)
(* A collection run that is executed by a paired collector on another      *)
(* machine: the control plane's handlers (collectors.ts behind the runner  *)
(* route) and the collector's polling loop (remote/collectorClient.ts).    *)
(*                                                                         *)
(* The collector makes one request at a time and gives up on it after 30   *)
(* or 60 seconds; the handler may then never have started, may be over, or *)
(* may still be at work.  A handler is a sequence of database statements,  *)
(* each of them one step.  Around them act the user, who retries failed    *)
(* samples, and the dispatcher, which frees a run whose time has come.     *)
(* Runs with a collector are left out of stale-run recovery (runs.ts:597), *)
(* so nothing else looks at them.                                          *)
(*                                                                         *)
(* The retries at one prompt are PromptRunner's; here a prompt of a launch *)
(* is started once and is then answered or reported as failed.  A handler  *)
(* that fails is a request that was given up on and goes no further.       *)
(***************************************************************************)
EXTENDS Naturals, FiniteSets

CONSTANTS Sample,       \* the checkpoints of the run: <<provider, prompt>>
          LossOps,      \* operations whose request may be given up on
          MaxLoss,      \* bound: requests given up on
          MaxCrash,     \* bound: crashes of the collector
          MaxRetry      \* bound: retries by the user

ASSUME RemoteAssumption ==
  /\ Sample # {} /\ IsFiniteSet(Sample)
  /\ LossOps \subseteq {"claim", "attempt", "sample", "complete"}
  /\ MaxLoss \in Nat /\ MaxCrash \in Nat /\ MaxRetry \in Nat

VARIABLES
  ckpt,      \* sample_checkpoints.status
  named,     \* analytics_sample_id: the number of the row it names, or 0
  rows,      \* rows of answer_samples of each sample
  run,       \* collection_runs.status
  undone,    \* history: completed samples that a late claim or attempt reopened
  call,      \* the request the collector waits for, and its handler
  late,      \* handlers of requests that were given up on
  client,    \* where the collector stands
  task,      \* the samples of its task
  todo,      \* those the current launch has yet to ask
  done,      \* completedByPromptId
  cur,       \* the set that holds the sample in hand
  launch,    \* browser launches of the task
  losses, crashes,
  retry,     \* the user's request: its step and the samples it selected
  retries,
  again,     \* the samples the user has ever retried
  freed      \* the dispatcher has read the run as queued and due

serverVars == <<ckpt, named, rows, run, undone>>
clientVars == <<client, task, todo, done, cur, launch>>
wireVars == <<call, late, losses, crashes>>
userVars == <<retry, retries, again, freed>>
vars == <<serverVars, clientVars, wireVars, userVars>>

Open == {"queued", "running"}
Closed == {"failed", "not_attempted"}
CkptState == Open \cup Closed \cup {"completed"}
Terminal == {"completed", "partial", "failed"}

Of(provider) == {s \in Sample : s[1] = provider}
Providers == {s[1] : s \in Sample}

\* A request and the state of its handler; `id` tells a request from those
\* given up on before it was made.
Request(op, set, status) ==
  [op |-> op, set |-> set, status |-> status, step |-> "sent", ids |-> {},
   row |-> 0, id |-> losses + crashes]
NoCall == [op |-> "none", set |-> {}, status |-> "none", step |-> "done",
           ids |-> {}, row |-> 0, id |-> 0]
NoRetry == [step |-> "none", ids |-> {}]

Init ==
  /\ ckpt = [s \in Sample |-> "queued"]
  /\ named = [s \in Sample |-> 0]
  /\ rows = [s \in Sample |-> 0]
  /\ run \in {"queued", "waiting_runner"}
  /\ undone = {}
  /\ call = NoCall /\ late = {}
  /\ client = "idle" /\ task = {} /\ todo = {} /\ done = {} /\ cur = {}
  /\ launch = 0
  /\ losses = 0 /\ crashes = 0
  /\ retry = NoRetry /\ retries = 0 /\ again = {}
  /\ freed = FALSE

-----------------------------------------------------------------------------
(* The control plane.  A handler h, of the request in hand or a late one,  *)
(* goes on as h2.                                                          *)

Handlers == late \cup IF call.op = "none" THEN {} ELSE {call}

Proceed(h, h2) ==
  IF h = call
  THEN call' = h2 /\ UNCHANGED late
  ELSE /\ late' = (late \ {h}) \cup (IF h2.step = "done" THEN {} ELSE {h2})
       /\ UNCHANGED call

At(h, op, step) == h.op = op /\ h.step = step

\* History: what a claim or an attempt that was given up on writes over.
Reopens(h, samples) ==
  undone' = undone \cup
    IF h \in late THEN {s \in samples : ckpt[s] = "completed"} ELSE {}

\* claimCollectorTask: the queued samples of one provider of an active run.
ClaimRead(h) ==
  /\ At(h, "claim", "sent")
  /\ LET queued == {s \in Sample : ckpt[s] = "queued"} IN
     IF run \in {"queued", "waiting_runner", "running"} /\ queued # {}
     THEN \E s \in queued :
            Proceed(h, [h EXCEPT !.step = "read", !.ids = queued \cap Of(s[1])])
     ELSE Proceed(h, [h EXCEPT !.step = "done"])
  /\ UNCHANGED serverVars

\* The transaction: by id, whatever their status is by now.
ClaimWrite(h) ==
  /\ At(h, "claim", "read")
  /\ ckpt' = [s \in Sample |-> IF s \in h.ids THEN "running" ELSE ckpt[s]]
  /\ run' = "running"
  /\ Reopens(h, h.ids)
  /\ Proceed(h, [h EXCEPT !.step = "done"])
  /\ UNCHANGED <<named, rows>>

\* recordGeoSampleAttempt: an attempt at a completed sample is not accepted.
AttemptRead(h) ==
  /\ At(h, "attempt", "sent")
  /\ Proceed(h, [h EXCEPT !.step = IF \E s \in h.set : ckpt[s] = "completed"
                                   THEN "done" ELSE "read"])
  /\ UNCHANGED serverVars

AttemptWrite(h) ==
  /\ At(h, "attempt", "read")
  /\ ckpt' = [s \in Sample |-> IF s \in h.set THEN h.status ELSE ckpt[s]]
  /\ Reopens(h, h.set)
  /\ Proceed(h, [h EXCEPT !.step = "done"])
  /\ UNCHANGED <<named, rows, run>>

\* A variant that answers before the checkpoint is written.
SamplePersistUnwritten(h) ==
  /\ At(h, "sample", "stored")
  /\ Proceed(h, [h EXCEPT !.step = "done"])
  /\ UNCHANGED serverVars

\* uploadCollectorSample: first the row, then the checkpoint.
SampleStore(h) ==
  /\ At(h, "sample", "sent")
  /\ rows' = [s \in Sample |-> IF s \in h.set THEN rows[s] + 1 ELSE rows[s]]
  /\ \E s \in h.set :
       Proceed(h, [h EXCEPT !.step = "stored", !.row = rows[s] + 1])
  /\ UNCHANGED <<ckpt, named, run, undone>>

SamplePersist(h) ==
  /\ At(h, "sample", "stored")
  /\ ckpt' = [s \in Sample |-> IF s \in h.set THEN "completed" ELSE ckpt[s]]
  /\ named' = [s \in Sample |-> IF s \in h.set THEN h.row ELSE named[s]]
  /\ Proceed(h, [h EXCEPT !.step = "done"])
  /\ UNCHANGED <<rows, run, undone>>

\* A variant that closes only what was never started.
CompleteReadStarted(h) ==
  /\ At(h, "complete", "sent")
  /\ Proceed(h,
       IF h.status = "completed"
       THEN [h EXCEPT !.step = "swept"]
       ELSE [h EXCEPT !.step = "read",
                      !.ids = {s \in Sample : /\ \E t \in h.set : t[1] = s[1]
                                              /\ ckpt[s] = "queued"}])
  /\ UNCHANGED serverVars

\* completeCollectorTask: finalizeGeoProviderRun without promptIds, so that
\* every open sample of the provider is closed.
CompleteRead(h) ==
  /\ At(h, "complete", "sent")
  /\ Proceed(h,
       IF h.status = "completed"
       THEN [h EXCEPT !.step = "swept"]
       ELSE [h EXCEPT !.step = "read",
                      !.ids = {s \in Sample : /\ \E t \in h.set : t[1] = s[1]
                                              /\ ckpt[s] \in Open}])
  /\ UNCHANGED serverVars

CompleteSweep(h) ==
  /\ At(h, "complete", "read")
  /\ ckpt' = [s \in Sample |-> IF s \in h.ids THEN "not_attempted" ELSE ckpt[s]]
  /\ Proceed(h, [h EXCEPT !.step = "swept", !.ids = {}])
  /\ UNCHANGED <<named, rows, run, undone>>

Verdict ==
  LET completed == {s \in Sample : ckpt[s] = "completed"} IN
  IF \E s \in Sample : ckpt[s] \in Open THEN "running"
  ELSE IF completed = Sample THEN "completed"
  ELSE IF completed # {} THEN "partial" ELSE "failed"

CompleteTally(h) ==
  /\ At(h, "complete", "swept")
  /\ Proceed(h, [h EXCEPT !.step = "tallied", !.status = Verdict])
  /\ UNCHANGED serverVars

CompleteSettle(h) ==
  /\ At(h, "complete", "tallied")
  /\ run' = h.status
  /\ Proceed(h, [h EXCEPT !.step = "done"])
  /\ UNCHANGED <<ckpt, named, rows, undone>>

HandlerStep(h) ==
  \/ ClaimRead(h) \/ ClaimWrite(h)
  \/ AttemptRead(h) \/ AttemptWrite(h)
  \/ SampleStore(h) \/ SamplePersist(h)
  \/ CompleteRead(h) \/ CompleteSweep(h) \/ CompleteTally(h) \/ CompleteSettle(h)

Serve ==
  /\ \E h \in Handlers : HandlerStep(h)
  /\ UNCHANGED <<clientVars, userVars, losses, crashes>>

-----------------------------------------------------------------------------
(* The wire: the collector gives up on a request, or dies with it.         *)

Answered == call.step = "done"
Over == call.step \in {"done", "lost"}

\* What becomes of the handler: it is gone, or it goes on.
Outlives ==
  \/ UNCHANGED late
  \/ ~Over /\ late' = late \cup {call}

GiveUp ==
  /\ call.op \in LossOps /\ call.step # "lost" /\ losses < MaxLoss
  /\ losses' = losses + 1
  /\ Outlives
  /\ call' = [call EXCEPT !.step = "lost", !.ids = {}]
  /\ UNCHANGED <<serverVars, clientVars, userVars, crashes>>

Crash ==
  /\ client # "idle" \/ call.op # "none"
  /\ crashes < MaxCrash
  /\ crashes' = crashes + 1
  /\ Outlives
  /\ call' = NoCall
  /\ client' = "idle" /\ task' = {} /\ todo' = {} /\ done' = {} /\ cur' = {}
  /\ launch' = 0
  /\ UNCHANGED <<serverVars, userVars, losses>>

-----------------------------------------------------------------------------
(* The collector.                                                          *)

IdleTask == task' = {} /\ todo' = {} /\ done' = {} /\ cur' = {} /\ launch' = 0

Poll ==
  /\ client = "idle" /\ call.op = "none"
  /\ call' = Request("claim", {}, "none")
  /\ UNCHANGED clientVars

Claimed ==
  /\ call.op = "claim" /\ Answered /\ call.ids # {}
  /\ client' = "asking" /\ task' = call.ids /\ todo' = call.ids
  /\ done' = {} /\ cur' = {} /\ launch' = 1
  /\ call' = NoCall

NotClaimed ==
  /\ call.op = "claim" /\ Over /\ (call.step = "lost" \/ call.ids = {})
  /\ call' = NoCall
  /\ UNCHANGED clientVars

\* The attempt's report; that it fails is swallowed by the prompt runner.
StartPrompt ==
  /\ client = "asking" /\ call.op = "none"
  /\ \E s \in todo :
       /\ call' = Request("attempt", {s}, "running")
       /\ cur' = {s}
  /\ client' = "prompting"
  /\ UNCHANGED <<task, todo, done, launch>>

Answer ==
  /\ client = "prompting" /\ call.op = "attempt" /\ Over
  /\ call' = Request("sample", cur, "none")
  /\ client' = "uploading"
  /\ UNCHANGED <<task, todo, done, cur, launch>>

PromptFails ==
  /\ client = "prompting" /\ call.op = "attempt" /\ Over
  /\ call' = Request("attempt", cur, "failed")
  /\ client' = "reporting"
  /\ UNCHANGED <<task, todo, done, cur, launch>>

Reported ==
  /\ client = "reporting" /\ Over
  /\ call' = NoCall
  /\ client' = "asking" /\ todo' = todo \ cur /\ cur' = {}
  /\ UNCHANGED <<task, done, launch>>

Uploaded ==
  /\ client = "uploading" /\ Answered
  /\ call' = NoCall
  /\ client' = "asking" /\ todo' = todo \ cur /\ done' = done \cup cur /\ cur' = {}
  /\ UNCHANGED <<task, launch>>

\* The launch breaks off: the browser is gone, or an upload was given up on.
BreaksOff ==
  \/ client = "asking" /\ call.op = "none" /\ todo # {}
  \/ client = "prompting" /\ Over
  \/ client = "uploading" /\ call.step = "lost"

\* A variant that takes up the whole task again.
RelaunchAll ==
  /\ BreaksOff /\ launch = 1 /\ task # done
  /\ launch' = 2 /\ todo' = task /\ cur' = {}
  /\ client' = "asking" /\ call' = NoCall
  /\ UNCHANGED <<task, done>>

\* The second and last launch takes up whatever is not completed.
Relaunch ==
  /\ BreaksOff /\ launch = 1 /\ task # done
  /\ launch' = 2 /\ todo' = task \ done /\ cur' = {}
  /\ client' = "asking" /\ call' = NoCall
  /\ UNCHANGED <<task, done>>

TaskStatus == IF done = task THEN "completed"
              ELSE IF done # {} THEN "partial" ELSE "failed"
ErrorStatus == IF done # {} THEN "partial" ELSE "failed"

\* agentHandler returned: every prompt was gone through, the session had
\* expired, or the launches are used up and something is completed.
Finish ==
  /\ \/ client = "asking" /\ call.op = "none" /\ todo = {}
     \/ BreaksOff
  /\ call' = Request("complete", task, TaskStatus)
  /\ client' = "completing" /\ cur' = {} /\ todo' = {}
  /\ UNCHANGED <<task, done, launch>>

\* It threw: nothing is completed, or a challenge met the set-up.
Throw ==
  /\ BreaksOff
  /\ done = {} \/ (client = "asking" /\ todo = task \ done)
  /\ call' = Request("complete", task, ErrorStatus)
  /\ client' = "failing" /\ cur' = {} /\ todo' = {}
  /\ UNCHANGED <<task, done, launch>>

\* The completion that failed is sent again by the catch clause.
CompleteAgain ==
  /\ client = "completing" /\ call.step = "lost"
  /\ call' = Request("complete", task, ErrorStatus)
  /\ client' = "failing"
  /\ UNCHANGED <<task, todo, done, cur, launch>>

Completed ==
  /\ \/ client = "completing" /\ Answered
     \/ client = "failing" /\ Over
  /\ call' = NoCall
  /\ client' = "idle" /\ IdleTask

ClientStep ==
  \/ Poll \/ Claimed \/ NotClaimed
  \/ StartPrompt \/ Answer \/ PromptFails \/ Reported \/ Uploaded
  \/ Relaunch \/ Finish \/ Throw \/ CompleteAgain \/ Completed

Collect ==
  /\ ClientStep
  /\ UNCHANGED <<serverVars, userVars, late, losses, crashes>>

-----------------------------------------------------------------------------
(* The user and the dispatcher.                                            *)

\* retryGeoSamples: one group, the closed samples of a provider.
RetrySelect ==
  /\ retry.step = "none" /\ retries < MaxRetry
  /\ \E p \in Providers :
       /\ \E s \in Of(p) : ckpt[s] \in Closed
       /\ retry' = [step |-> "selected",
                    ids |-> {s \in Of(p) : ckpt[s] \in Closed}]
  /\ retries' = retries + 1 /\ again' = again \cup retry'.ids
  /\ UNCHANGED <<serverVars, freed>>

RetryReopen ==
  /\ retry.step = "selected"
  /\ ckpt' = [s \in Sample |-> IF s \in retry.ids THEN "queued" ELSE ckpt[s]]
  /\ named' = [s \in Sample |-> IF s \in retry.ids THEN 0 ELSE named[s]]
  /\ retry' = [retry EXCEPT !.step = "reopened"]
  /\ UNCHANGED <<rows, run, undone, retries, again, freed>>

RetryMark ==
  /\ retry.step = "reopened"
  /\ run' = "waiting_runner"
  /\ retry' = NoRetry
  /\ UNCHANGED <<ckpt, named, rows, undone, retries, again, freed>>

\* dispatchScheduledGeoRuns: the write has no condition on the status.
DispatchRead ==
  /\ run = "queued" /\ ~freed
  /\ freed' = TRUE
  /\ UNCHANGED <<serverVars, retry, retries, again>>

DispatchMark ==
  /\ freed
  /\ run' = "waiting_runner" /\ freed' = FALSE
  /\ UNCHANGED <<ckpt, named, rows, undone, retry, retries, again>>

Select == RetrySelect /\ UNCHANGED <<clientVars, wireVars>>

GoOn ==
  /\ RetryReopen \/ RetryMark \/ DispatchRead \/ DispatchMark
  /\ UNCHANGED <<clientVars, wireVars>>

Next == Serve \/ GiveUp \/ Crash \/ Collect \/ Select \/ GoOn

Spec == Init /\ [][Next]_vars

\* The handlers of late requests, apart from those of the polls that go on.
ServeLate == Serve /\ late' # late

\* The server goes on with what it has begun, the loop polls every five
\* seconds, and a prompt has an outcome, since every launch is bounded in
\* time.  Nothing makes the user retry, a request fail or the machine crash.
FairSpec ==
  Spec /\ WF_vars(Serve) /\ WF_vars(ServeLate) /\ WF_vars(Collect) /\ WF_vars(GoOn)

-----------------------------------------------------------------------------
HandlerType ==
  [op : {"none", "claim", "attempt", "sample", "complete"},
   set : SUBSET Sample,
   status : {"none", "running"} \cup Terminal,
   step : {"sent", "read", "stored", "swept", "tallied", "done", "lost"},
   ids : SUBSET Sample, row : Nat, id : 0 .. MaxLoss + MaxCrash]

\* The types; a sample in hand or uploaded is one of the task, and no handler
\* left behind has ended.
TypeOK ==
  /\ ckpt \in [Sample -> CkptState]
  /\ named \in [Sample -> Nat] /\ rows \in [Sample -> Nat]
  /\ run \in {"queued", "waiting_runner", "running"} \cup Terminal
  /\ call \in HandlerType
  /\ late \subseteq HandlerType /\ \A h \in late : h.step \notin {"done", "lost"}
  /\ client \in {"idle", "asking", "prompting", "uploading", "reporting",
                 "completing", "failing"}
  /\ task \subseteq Sample /\ todo \subseteq task /\ cur \subseteq todo
  /\ done \subseteq task /\ todo \cap done = {}
  /\ launch \in 0 .. 2
  /\ losses \in 0 .. MaxLoss /\ crashes \in 0 .. MaxCrash
  /\ retry \in [step : {"none", "selected", "reopened"}, ids : SUBSET Sample]
  /\ retries \in 0 .. MaxRetry
  /\ again \subseteq Sample /\ undone \subseteq Sample
  /\ freed \in BOOLEAN

\* A completed checkpoint names a row that has been inserted: the upload is
\* stored before the checkpoint says so (collectors.ts:226-239), also when a
\* second upload of the same answer is under way.
CompletedHasRow ==
  \A s \in Sample : ckpt[s] = "completed" => named[s] \in 1 .. rows[s]

\* What the collector takes for uploaded is stored and stays completed while it
\* works on the task.  Two things alone can take that back: a retry that
\* selected the sample while it was failed, and a claim or an attempt that was
\* given up on and then writes by id over what it read before
\* (collectors.ts:156, runs.ts:378).  A late upload, a late or repeated
\* completion, what is left of an earlier task and the requests that are in
\* time never do.
UploadedKept ==
  /\ CompletedHasRow
  /\ \A s \in done : ckpt[s] = "completed" \/ s \in again \cup undone

\* Every sample the user leaves alone is settled in the end, again and again.
EverySampleSettles ==
  []<>(\A s \in Sample \ again : ckpt[s] \notin Open)

\* Of the requests, only uploads are given up on.
OnlyUploadsLost == [](call.step = "lost" => call.op = "sample")

=============================================================================
