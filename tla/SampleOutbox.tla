---------------------------- MODULE SampleOutbox ----------------------------
(***************************************************************************)
(* What becomes of the answers of one collection run: from the collector,  *)
(* through ClickHouse or the outbox directory on disk, to the checkpoint   *)
(* row that names the stored answer and to its analysis.                   *)
(*                                                                         *)
(*   apps/agent/src/worker/jobHandler.ts        onSampleComplete           *)
(*   apps/agent/src/worker/sampleCheckpoint.ts  store, or write the file   *)
(*   apps/agent/src/worker/sampleOutbox.ts      the files and their replay *)
(*   apps/agent/src/worker/analysis.ts          the analysis lane          *)
(*   packages/services/src/geo/runs.ts          the checkpoint's columns   *)
(*   packages/services/src/prompt, analysis     the two ClickHouse tables  *)
(*                                                                         *)
(* A step is the code between two awaits.  The samples of a run belong to  *)
(* different providers, whose jobs run side by side in one process with    *)
(* the replay timer, the recovery timer and the run's analysis.            *)
(*                                                                         *)
(* Left to other modules: how an answer comes about, and how checkpoints   *)
(* are reset or closed (ProviderRun, PromptRunner); the gate in front of   *)
(* the analysis (ConcurrencyGate).  Left out: the derived ClickHouse       *)
(* tables, the uploads of remote collectors, and the analysis of a whole   *)
(* workspace, which does not touch checkpoints.                            *)
(***************************************************************************)
EXTENDS Naturals, Sequences, FiniteSets

CONSTANTS Sample,      \* the samples of the run
          NoSample,    \* no sample
          MaxFault,    \* failing store, file and database calls explored
          MaxEvent,    \* crashes, analysis retries asked for by the user, and
                       \* further answers to one sample, explored together
          ReplayOvertakes \* a replay may begin between an outbox write and
                          \* the checkpoint write that follows it

ASSUME OutboxAssumption ==
  /\ IsFiniteSet(Sample) /\ NoSample \notin Sample
  /\ MaxFault \in Nat /\ MaxEvent \in Nat
  /\ ReplayOvertakes \in BOOLEAN

VARIABLES
  ckpt,      \* sample_checkpoints: status, analysis, analyticsSampleId, answer
  rows,      \* analytics.prompt_responses; a row's id is its position
  analysed,  \* ids of the rows with a completed analysis
  outbox,    \* the answers in the outbox directory
  asked,     \* answers captured so far, per sample
  capture,   \* onSampleComplete, per sample
  replay,    \* replayPromptSampleOutbox
  lane,      \* the run's entry in analysisQueues
  retry,     \* the sample retryGeoAnalysis found failed
  spent      \* what is used up of each bound

store == <<rows, analysed, outbox>>
vars  == <<ckpt, store, asked, capture, replay, lane, retry, spent>>

-----------------------------------------------------------------------------
Answer   == [sample : Sample, n : Nat]   \* the n-th answer captured for a sample
NoAnswer == [sample |-> NoSample, n |-> 0]
NoRow    == 0

Idle       == [pc |-> "idle", n |-> 0, row |-> NoRow]
NoReplay   == [pc |-> "idle", files |-> {}, now |-> NoAnswer, row |-> NoRow]
NoAnalysis == [pc |-> "none", ids |-> {}, failed |-> {}, todo |-> {}]

Init ==
  /\ ckpt = [s \in Sample |-> [status |-> "open", analysis |-> "pending",
                               row |-> NoRow, answer |-> 0]]
  /\ rows = <<>>
  /\ analysed = {}
  /\ outbox = {}
  /\ asked = [s \in Sample |-> 0]
  /\ capture = [s \in Sample |-> Idle]
  /\ replay = NoReplay
  /\ lane = NoAnalysis
  /\ retry = NoSample
  /\ spent = [again |-> 0, crash |-> 0, fault |-> 0, retry |-> 0]

Fault == spent.fault < MaxFault /\ spent' = [spent EXCEPT !.fault = @ + 1]

Event(kind) ==
  /\ spent.again + spent.crash + spent.retry < MaxEvent
  /\ spent' = [spent EXCEPT ![kind] = @ + 1]

\* storePromptResponses inserts a row under a fresh id, whatever is stored.
Stored(s, k) == Append(rows, [sample |-> s, n |-> k])
FreshId == Len(rows) + 1

\* A store that throws may have inserted its row: the run, prompt and
\* checkpoint look-ups and the schema change come after the insertion.
StoreThrows(s, k) == rows' \in {rows, Stored(s, k)}

\* persistGeoSampleCheckpoint: whatever the row says now, it is completed
\* with this answer, and its analysis is to be done.
Persisted(s, k, id) ==
  [ckpt EXCEPT ![s] = [status |-> "completed", analysis |-> "pending",
                       row |-> id, answer |-> k]]

\* The counters and the series are refreshed after that update, and may fail.
PersistThrows(s, k, id) == ckpt' \in {ckpt, Persisted(s, k, id)}

\* runAnalysisInBackground: nothing, if the run's analysis is queued or runs.
Requested == IF lane.pc = "none" THEN [lane EXCEPT !.pc = "mark"] ELSE lane

Completed == {s \in Sample : ckpt[s].status = "completed"}

-----------------------------------------------------------------------------
(* onSampleComplete.  The runner asks for a sample that is open; after a   *)
(* callback that threw it asks again, since it goes by what it completed   *)
(* itself and not by the checkpoint.                                       *)

Captured(s) ==
  /\ capture[s].pc = "again" \/ (capture[s].pc = "idle" /\ ckpt[s].status = "open")
  /\ IF asked[s] = 0 THEN UNCHANGED spent ELSE Event("again")
  /\ asked' = [asked EXCEPT ![s] = @ + 1]
  /\ capture' = [capture EXCEPT ![s] =
                   [pc |-> "store", n |-> asked[s] + 1, row |-> NoRow]]
  /\ UNCHANGED <<ckpt, store, replay, lane, retry>>

StoreSample(s) ==
  /\ capture[s].pc = "store"
  /\ rows' = Stored(s, capture[s].n)
  /\ capture' = [capture EXCEPT ![s].pc = "persist", ![s].row = FreshId]
  /\ UNCHANGED <<ckpt, analysed, outbox, asked, replay, lane, retry, spent>>

\* A form of StoreFails that forgets the outbox.
StoreFailsUnfiled(s) ==
  /\ capture[s].pc = "store"
  /\ Fault
  /\ StoreThrows(s, capture[s].n)
  /\ capture' = [capture EXCEPT ![s].pc = "persist"]
  /\ UNCHANGED <<ckpt, analysed, outbox, asked, replay, lane, retry>>

\* ClickHouse fails: persistSampleCheckpoint turns to the outbox.
StoreFails(s) ==
  /\ capture[s].pc = "store"
  /\ Fault
  /\ StoreThrows(s, capture[s].n)
  /\ capture' = [capture EXCEPT ![s].pc = "file"]
  /\ UNCHANGED <<ckpt, analysed, outbox, asked, replay, lane, retry>>

\* The rename makes the file appear in one step; a leftover .tmp is not read.
WriteOutbox(s) ==
  /\ capture[s].pc = "file"
  /\ outbox' = outbox \cup {[sample |-> s, n |-> capture[s].n]}
  /\ capture' = [capture EXCEPT ![s].pc = "persist"]
  /\ UNCHANGED <<ckpt, rows, analysed, asked, replay, lane, retry, spent>>

PersistSample(s) ==
  /\ capture[s].pc = "persist"
  /\ ckpt' = Persisted(s, capture[s].n, capture[s].row)
  /\ capture' = [capture EXCEPT ![s] =
       IF capture[s].row = NoRow THEN Idle ELSE [capture[s] EXCEPT !.pc = "request"]]
  /\ UNCHANGED <<store, asked, replay, lane, retry, spent>>

\* After the sample, and once more at the end of its job.
RequestAnalysis(s) ==
  /\ capture[s].pc \in {"request", "jobEnd"}
  /\ lane' = Requested
  /\ capture' = [capture EXCEPT ![s] =
       IF capture[s].pc = "jobEnd" THEN Idle ELSE [capture[s] EXCEPT !.pc = "jobEnd"]]
  /\ UNCHANGED <<ckpt, store, asked, replay, retry, spent>>

\* The file, the checkpoint or the progress record cannot be written.
CallbackThrows(s) ==
  /\ capture[s].pc \in {"file", "persist", "request"}
  /\ Fault
  /\ IF capture[s].pc = "persist"
     THEN PersistThrows(s, capture[s].n, capture[s].row)
     ELSE UNCHANGED ckpt
  /\ capture' = [capture EXCEPT ![s] = [Idle EXCEPT !.pc = "again"]]
  /\ UNCHANGED <<store, asked, replay, lane, retry>>

-----------------------------------------------------------------------------
(* replayPromptSampleOutbox: at the start of the process and on a timer,   *)
(* one at a time.  It takes the files it listed, ordered by names that end *)
(* in a random id, and gives up at the first failure.                      *)

BetweenWrites == \E s \in Sample : capture[s].pc = "persist" /\ capture[s].row = NoRow

\* A form of ListOutbox without replayPromise.
ListOutboxAnyTime ==
  /\ outbox # {}
  /\ ReplayOvertakes \/ ~BetweenWrites
  /\ replay' = [NoReplay EXCEPT !.pc = "store", !.files = outbox]
  /\ UNCHANGED <<ckpt, store, asked, capture, lane, retry, spent>>

ListOutbox ==
  /\ replay.pc = "idle" /\ outbox # {}
  /\ ReplayOvertakes \/ ~BetweenWrites
  /\ replay' = [NoReplay EXCEPT !.pc = "store", !.files = outbox]
  /\ UNCHANGED <<ckpt, store, asked, capture, lane, retry, spent>>

ReplayStore ==
  /\ replay.pc = "store"
  /\ \E a \in replay.files :
       /\ rows' = Stored(a.sample, a.n)
       /\ replay' = [replay EXCEPT !.pc = "persist", !.now = a, !.row = FreshId]
  /\ UNCHANGED <<ckpt, analysed, outbox, asked, capture, lane, retry, spent>>

\* A form of ReplayPersist that does not hand over the id of the row.
ReplayPersistUnnamed ==
  /\ replay.pc = "persist"
  /\ ckpt' = Persisted(replay.now.sample, replay.now.n, NoRow)
  /\ replay' = [replay EXCEPT !.pc = "remove"]
  /\ UNCHANGED <<store, asked, capture, lane, retry, spent>>

ReplayPersist ==
  /\ replay.pc = "persist"
  /\ ckpt' = Persisted(replay.now.sample, replay.now.n, replay.row)
  /\ replay' = [replay EXCEPT !.pc = "remove"]
  /\ UNCHANGED <<store, asked, capture, lane, retry, spent>>

\* The request for the analysis and the removal of the file.
ReplayRemove ==
  /\ replay.pc = "remove"
  /\ lane' = Requested
  /\ outbox' = outbox \ {replay.now}
  /\ LET left == replay.files \ {replay.now}
     IN replay' = IF left = {} THEN NoReplay
                  ELSE [NoReplay EXCEPT !.pc = "store", !.files = left]
  /\ UNCHANGED <<ckpt, rows, analysed, asked, capture, retry, spent>>

ReplayFails ==
  /\ replay.pc # "idle"
  /\ Fault
  /\ IF replay.pc = "store"
     THEN \E a \in replay.files : StoreThrows(a.sample, a.n)
     ELSE UNCHANGED rows
  /\ IF replay.pc = "persist"
     THEN PersistThrows(replay.now.sample, replay.now.n, replay.row)
     ELSE UNCHANGED ckpt
  /\ lane' = IF replay.pc = "remove" THEN Requested ELSE lane
  /\ replay' = NoReplay
  /\ UNCHANGED <<analysed, outbox, asked, capture, retry>>

-----------------------------------------------------------------------------
(* runAnalysisInBackground, once the lane has let it in.                   *)

MarkRunning ==
  /\ lane.pc = "mark"
  /\ ckpt' = [s \in Sample |->
       IF s \in Completed /\ ckpt[s].analysis = "pending"
       THEN [ckpt[s] EXCEPT !.analysis = "running"] ELSE ckpt[s]]
  /\ lane' = [lane EXCEPT !.pc = "scope"]
  /\ UNCHANGED <<store, asked, capture, replay, retry, spent>>

\* A form of Scope that keeps the null ids of answers in the outbox.
ScopeWithNulls == {ckpt[s].row : s \in {t \in Completed : ckpt[t].analysis = "running"}}

\* analysePromptsForWorkspace takes the rows of the samples that are running.
Scope == {ckpt[s].row : s \in {t \in Completed : ckpt[t].analysis = "running"}} \ {NoRow}

ReadScope ==
  /\ lane.pc = "scope"
  /\ lane' = [lane EXCEPT !.pc = IF Scope = {} THEN "settle" ELSE "judge", !.ids = Scope]
  /\ UNCHANGED <<ckpt, store, asked, capture, replay, retry, spent>>

\* Each answer by itself: some may fail, the others get their analysis row.
Judge ==
  /\ lane.pc = "judge"
  /\ \E failed \in SUBSET lane.ids :
       /\ analysed' = analysed \cup (lane.ids \ failed)
       /\ lane' = [lane EXCEPT !.pc = "settle", !.failed = failed]
  /\ UNCHANGED <<ckpt, rows, outbox, asked, capture, replay, retry, spent>>

\* A form of Verdicts that does not look at what was processed.
VerdictsForAll ==
  {[sample |-> s, verdict |-> IF ckpt[s].row \in lane.failed THEN "failed" ELSE "completed"] :
     s \in Completed}

\* completeGeoAnalysis reads the completed checkpoints and decides, then
\* updates them one by one, by checkpoint id.
Verdicts ==
  {[sample |-> s, verdict |-> IF ckpt[s].row \in lane.failed THEN "failed" ELSE "completed"] :
     s \in {t \in Completed : ckpt[t].row \in lane.ids}}

FatalVerdicts == {[sample |-> s, verdict |-> "failed"] : s \in Completed}

Settling(pc, todo) ==
  IF todo = {} THEN NoAnalysis ELSE [NoAnalysis EXCEPT !.pc = pc, !.todo = todo]

Settle ==
  /\ \/ lane.pc = "settle" /\ lane' = Settling("write", Verdicts)
     \/ lane.pc = "fatal" /\ lane' = Settling("fatalWrite", FatalVerdicts)
  /\ UNCHANGED <<ckpt, store, asked, capture, replay, retry, spent>>

WriteVerdict ==
  /\ lane.pc \in {"write", "fatalWrite"}
  /\ \E v \in lane.todo :
       /\ ckpt' = [ckpt EXCEPT ![v.sample].analysis = v.verdict]
       /\ lane' = Settling(lane.pc, lane.todo \ {v})
  /\ UNCHANGED <<store, asked, capture, replay, retry, spent>>

\* An error of any of these calls is fatal for the pass: completeGeoAnalysis
\* is called with it, and its own error is swallowed.
AnalysisThrows ==
  /\ lane.pc # "none"
  /\ Fault
  /\ IF lane.pc = "judge"
     THEN \E done \in SUBSET lane.ids : analysed' = analysed \cup done
     ELSE UNCHANGED analysed
  /\ lane' = IF lane.pc \in {"fatal", "fatalWrite"}
             THEN NoAnalysis ELSE [NoAnalysis EXCEPT !.pc = "fatal"]
  /\ UNCHANGED <<ckpt, rows, outbox, asked, capture, replay, retry>>

-----------------------------------------------------------------------------
(* recoverPendingGeoAnalyses, at the start of the process and on a timer.  *)
(* The list is shorter than its limit of 100 here, and a request that      *)
(* comes late asks for a pass that finds nothing, as at the end of a job.  *)

\* A form of Recoverable that looks for pending analyses only.
RecoverablePending ==
  {s \in Completed : ckpt[s].analysis = "pending" /\ ckpt[s].row # NoRow}

Recoverable ==
  {s \in Completed : ckpt[s].analysis \in {"pending", "running"} /\ ckpt[s].row # NoRow}

Recover ==
  /\ Recoverable # {}
  /\ lane.pc = "none"
  /\ lane' = Requested
  /\ UNCHANGED <<ckpt, store, asked, capture, replay, retry, spent>>

(* retryGeoAnalysis, a request of the user for one sample: it only marks   *)
(* the sample, the recovery timer finds it.                                *)
RetryRead(s) ==
  /\ retry = NoSample
  /\ s \in Completed /\ ckpt[s].analysis = "failed" /\ ckpt[s].row # NoRow
  /\ retry' = s
  /\ Event("retry")
  /\ UNCHANGED <<ckpt, store, asked, capture, replay, lane>>

RetryWrite ==
  /\ retry # NoSample
  /\ ckpt' = [ckpt EXCEPT ![retry].analysis = "pending"]
  /\ retry' = NoSample
  /\ UNCHANGED <<store, asked, capture, replay, lane, spent>>

\* The collector dies and starts again.  Files, rows and checkpoints stay.
Crash ==
  /\ Event("crash")
  /\ capture' = [s \in Sample |-> Idle]
  /\ replay' = NoReplay
  /\ lane' = NoAnalysis
  /\ UNCHANGED <<ckpt, store, asked, retry>>

-----------------------------------------------------------------------------
Capture(s) == StoreSample(s) \/ WriteOutbox(s) \/ PersistSample(s) \/ RequestAnalysis(s)
Replay     == ListOutbox \/ ReplayStore \/ ReplayPersist \/ ReplayRemove
Analysis   == MarkRunning \/ ReadScope \/ Judge \/ Settle \/ WriteVerdict

Next ==
  \/ \E s \in Sample : Captured(s) \/ Capture(s) \/ StoreFails(s) \/ CallbackThrows(s)
  \/ Replay \/ ReplayFails
  \/ Analysis \/ AnalysisThrows
  \/ Recover
  \/ (\E s \in Sample : RetryRead(s)) \/ RetryWrite
  \/ Crash

Spec == Init /\ [][Next]_vars

\* The collector goes on as long as it has something to do, the ticks of its
\* two timers included, and so does a retry request.  Nothing obliges a
\* prompt to be asked, a call to fail, or a user to retry.
Collector == (\E s \in Sample : Capture(s)) \/ Replay \/ Analysis \/ Recover

FairSpec == Spec /\ WF_vars(Collector) /\ WF_vars(RetryWrite)

-----------------------------------------------------------------------------
CapturePc == {"idle", "again", "store", "file", "persist", "request", "jobEnd"}
LanePc    == {"none", "mark", "scope", "judge", "settle", "write", "fatal", "fatalWrite"}
Ids       == 1 .. Len(rows)
RowIds    == Ids \cup {NoRow}

CkptOK ==
  ckpt \in [Sample -> [status : {"open", "completed"},
                      analysis : {"pending", "running", "completed", "failed"},
                      row : RowIds, answer : Nat]]

StoreOK == rows \in Seq(Answer) /\ analysed \subseteq Ids /\ outbox \subseteq Answer

CaptureOK ==
  /\ asked \in [Sample -> Nat]
  /\ capture \in [Sample -> [pc : CapturePc, n : Nat, row : RowIds]]

ReplayOK ==
  replay \in [pc : {"idle", "store", "persist", "remove"}, files : SUBSET Answer,
             now : Answer \cup {NoAnswer}, row : RowIds]

LaneOK ==
  lane \in [pc : LanePc, ids : SUBSET Ids, failed : SUBSET Ids,
           todo : SUBSET [sample : Sample, verdict : {"completed", "failed"}]]

BoundsOK ==
  /\ retry \in Sample \cup {NoSample}
  /\ spent \in [again : Nat, crash : Nat, fault : Nat, retry : Nat]

\* The type of every variable: what names a row (a checkpoint, a callback, the
\* replay, the analysis) names one that was inserted, or none.
TypeOK == CkptOK /\ StoreOK /\ CaptureOK /\ ReplayOK /\ LaneOK /\ BoundsOK

\* No completed sample loses its answer: the row it names holds the answer
\* it was completed with, whoever stored it, and without a row the answer is
\* in the outbox or in ClickHouse.  (A file is removed only after its answer
\* was stored, a checkpoint is completed only after a store or a file.)
AnswersKept ==
  \A s \in Completed :
    LET a == [sample |-> s, n |-> ckpt[s].answer]
    IN IF ckpt[s].row = NoRow
       THEN a \in outbox \/ \E id \in Ids : rows[id] = a
       ELSE rows[ckpt[s].row] = a

\* A completed sample that names no row still has its file, so that the
\* replay will give it one; neither analysis nor reports find it otherwise.
\* (persistGeoSampleCheckpoint writes a null id for an answer in the outbox.)
UnnamedIsFiled ==
  \A s \in Completed : ckpt[s].row = NoRow =>
    [sample |-> s, n |-> ckpt[s].answer] \in outbox

\* A sample is called analysed only if one of its answers was.  (The lane
\* writes its verdicts by checkpoint id, after an await.)
AnalysedIsAnalysed ==
  \A s \in Completed : ckpt[s].analysis = "completed" =>
    \E id \in analysed : rows[id].sample = s

\* An answer is stored again only because a call failed or the collector
\* died: a replay and the job, or two replays, never both store it.
CopiesBounded ==
  \A s \in Sample : \A k \in 1 .. asked[s] :
    Cardinality({id \in Ids : rows[id] = [sample |-> s, n |-> k]})
      <= 1 + spent.crash + spent.fault

\* A completed sample gets a row and a final analysis status, although a
\* request that finds the lane busy is dropped and a crash forgets the lane.
EverySampleAnalysed ==
  \A s \in Sample : ckpt[s].status = "completed" ~>
    (ckpt[s].row # NoRow /\ ckpt[s].analysis \in {"completed", "failed"})

\* Completed samples survive browser and collector recovery: a completed
\* sample's answer is not exchanged for one that was captured before it.
CompletedSampleSurvives ==
  [][\A s \in Completed : ckpt'[s].answer >= ckpt[s].answer]_vars
=============================================================================
