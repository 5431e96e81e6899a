------------------------- MODULE SampleOutbox_proofs -------------------------
(***************************************************************************)
(* For any set of samples, any number of answers, crashes, failing calls   *)
(* and retries: the types of SampleOutbox, that no completed sample loses  *)
(* its answer, that a sample without a row has its file, that a sample is  *)
(* called analysed only if it was, and that an answer is stored again only *)
(* after a failure or a crash.                                             *)
(***************************************************************************)
EXTENDS SampleOutbox, TLAPS, FiniteSetTheorems

-----------------------------------------------------------------------------
(* Which actions write which variables.                                    *)

LEMMA CkptWriters ==
  ASSUME [Next]_vars
  PROVE  \/ UNCHANGED ckpt
         \/ \E s \in Sample : PersistSample(s) \/ CallbackThrows(s)
         \/ ReplayPersist \/ ReplayFails
         \/ MarkRunning \/ WriteVerdict \/ RetryWrite
BY DEF Next, vars, Capture, Replay, Analysis, Captured, StoreSample, StoreFails,
       WriteOutbox, RequestAnalysis, ListOutbox, ReplayStore, ReplayRemove,
       ReadScope, Judge, Settle, AnalysisThrows, Recover, RetryRead, Crash

LEMMA RowsWriters ==
  ASSUME [Next]_vars
  PROVE  \/ UNCHANGED rows
         \/ \E s \in Sample : StoreSample(s) \/ StoreFails(s)
         \/ ReplayStore \/ ReplayFails
BY DEF Next, vars, store, Capture, Replay, Analysis, Captured, WriteOutbox,
       PersistSample, RequestAnalysis, CallbackThrows, ListOutbox, ReplayPersist,
       ReplayRemove, MarkRunning, ReadScope, Judge, Settle, WriteVerdict,
       AnalysisThrows, Recover, RetryRead, RetryWrite, Crash

LEMMA OutboxWriters ==
  ASSUME [Next]_vars
  PROVE  \/ UNCHANGED outbox
         \/ \E s \in Sample : WriteOutbox(s)
         \/ ReplayRemove
BY DEF Next, vars, store, Capture, Replay, Analysis, Captured, StoreSample,
       StoreFails, PersistSample, RequestAnalysis, CallbackThrows, ListOutbox,
       ReplayStore, ReplayPersist, ReplayFails, MarkRunning, ReadScope, Judge,
       Settle, WriteVerdict, AnalysisThrows, Recover, RetryRead, RetryWrite, Crash

LEMMA AnalysedWriters ==
  ASSUME [Next]_vars
  PROVE  UNCHANGED analysed \/ Judge \/ AnalysisThrows
BY DEF Next, vars, store, Capture, Replay, Analysis, Captured, StoreSample,
       StoreFails, WriteOutbox, PersistSample, RequestAnalysis, CallbackThrows,
       ListOutbox, ReplayStore, ReplayPersist, ReplayRemove, ReplayFails,
       MarkRunning, ReadScope, Settle, WriteVerdict, Recover, RetryRead,
       RetryWrite, Crash

LEMMA CaptureWriters ==
  ASSUME [Next]_vars
  PROVE  \/ UNCHANGED <<asked, capture>>
         \/ \E s \in Sample : \/ Captured(s) \/ Capture(s)
                              \/ StoreFails(s) \/ CallbackThrows(s)
         \/ Crash
BY DEF Next, vars, Replay, Analysis, ListOutbox, ReplayStore, ReplayPersist,
       ReplayRemove, ReplayFails, MarkRunning, ReadScope, Judge, Settle,
       WriteVerdict, AnalysisThrows, Recover, RetryRead, RetryWrite

LEMMA ReplayWriters ==
  ASSUME [Next]_vars
  PROVE  UNCHANGED replay \/ Replay \/ ReplayFails \/ Crash
BY DEF Next, vars, Capture, Analysis, Captured, StoreSample, StoreFails,
       WriteOutbox, PersistSample, RequestAnalysis, CallbackThrows, MarkRunning,
       ReadScope, Judge, Settle, WriteVerdict, AnalysisThrows, Recover, RetryRead,
       RetryWrite

LEMMA LaneWriters ==
  ASSUME [Next]_vars
  PROVE  \/ UNCHANGED lane
         \/ lane' = Requested
         \/ Analysis \/ AnalysisThrows \/ Crash
BY DEF Next, vars, Capture, Replay, Captured, StoreSample, StoreFails,
       WriteOutbox, PersistSample, RequestAnalysis, CallbackThrows, ListOutbox,
       ReplayStore, ReplayPersist, ReplayRemove, ReplayFails, Recover, RetryRead,
       RetryWrite

-----------------------------------------------------------------------------
(* ClickHouse only grows: a row id keeps the answer stored under it.       *)

Grown ==
  /\ rows' \in Seq(Answer)
  /\ Len(rows) <= Len(rows')
  /\ \A id \in Ids : rows'[id] = rows[id]

\* What storePromptResponses does to the rows.
LEMMA StoredRow ==
  ASSUME StoreOK, NEW s \in Sample, NEW k \in Nat
  PROVE  /\ Stored(s, k) \in Seq(Answer)
         /\ Len(Stored(s, k)) = Len(rows) + 1
         /\ \A id \in Ids : Stored(s, k)[id] = rows[id]
         /\ Stored(s, k)[FreshId] = [sample |-> s, n |-> k]
BY DEF StoreOK, Stored, Answer, Ids, FreshId

LEMMA RowsGrow ==
  ASSUME TypeOK, [Next]_vars
  PROVE  Grown
<1>1. CASE UNCHANGED rows
  BY <1>1 DEF TypeOK, StoreOK, Grown, Ids
<1>2. ASSUME NEW s \in Sample, NEW k \in Nat, rows' = Stored(s, k)
      PROVE  Grown
  <2>1. Len(rows) \in Nat
    BY DEF TypeOK, StoreOK
  <2>2. /\ Stored(s, k) \in Seq(Answer)
        /\ Len(Stored(s, k)) = Len(rows) + 1
        /\ \A id \in Ids : Stored(s, k)[id] = rows[id]
    BY StoredRow DEF TypeOK
  <2>3. Len(rows) <= Len(rows')
    BY <1>2, <2>1, <2>2
  <2> QED
    BY <1>2, <2>2, <2>3 DEF Grown
<1>3. ASSUME NEW s \in Sample, NEW k \in Nat, StoreThrows(s, k)
      PROVE  Grown
  BY <1>1, <1>2, <1>3 DEF StoreThrows
<1>4. ASSUME NEW s \in Sample, StoreSample(s) \/ StoreFails(s)
      PROVE  Grown
  <2>1. capture[s].n \in Nat
    BY DEF TypeOK, CaptureOK
  <2> QED
    BY <1>2, <1>3, <1>4, <2>1 DEF StoreSample, StoreFails
<1>5. CASE ReplayStore \/ ReplayFails
  <2>1. \A a \in replay.files : a.sample \in Sample /\ a.n \in Nat
    BY DEF TypeOK, ReplayOK, Answer
  <2> QED
    BY <1>1, <1>2, <1>3, <1>5, <2>1 DEF ReplayStore, ReplayFails
<1> QED
  BY <1>1, <1>4, <1>5, RowsWriters

-----------------------------------------------------------------------------
(* Types.                                                                  *)

LEMMA TypeInit == Init => TypeOK
<1> SUFFICES ASSUME Init PROVE TypeOK
  OBVIOUS
<1>1. CkptOK /\ StoreOK
  BY DEF Init, CkptOK, StoreOK, RowIds
<1>2. CaptureOK /\ BoundsOK
  BY DEF Init, CaptureOK, BoundsOK, Idle, CapturePc, RowIds
<1>3. ReplayOK /\ LaneOK
  BY DEF Init, ReplayOK, LaneOK, NoReplay, NoAnalysis, LanePc, RowIds
<1> QED
  BY <1>1, <1>2, <1>3 DEF TypeOK

\* The ids in use stay ids.
LEMMA IdsKept ==
  ASSUME TypeOK, Grown
  PROVE  Ids \subseteq Ids' /\ RowIds \subseteq RowIds'
<1>1. Len(rows) \in Nat /\ Len(rows') \in Nat
  BY DEF TypeOK, StoreOK, Grown
<1> QED
  BY <1>1 DEF Grown, Ids, RowIds

\* A row that is being stored gets an id that exists afterwards.
LEMMA FreshIsId ==
  ASSUME TypeOK, NEW s \in Sample, NEW k \in Nat, rows' = Stored(s, k)
  PROVE  FreshId \in Ids' /\ rows'[FreshId] = [sample |-> s, n |-> k]
<1>1. Len(rows) \in Nat
  BY DEF TypeOK, StoreOK
<1>2. Len(Stored(s, k)) = Len(rows) + 1 /\ Stored(s, k)[FreshId] = [sample |-> s, n |-> k]
  BY StoredRow DEF TypeOK
<1> QED
  BY <1>1, <1>2 DEF FreshId, Ids

\* persistGeoSampleCheckpoint, and its throwing half-way.
LEMMA PersistedTyped ==
  ASSUME TypeOK, Grown, NEW s \in Sample \cup {NoSample}, NEW k \in Nat, NEW id \in RowIds,
         ckpt' \in {ckpt, Persisted(s, k, id)}
  PROVE  CkptOK'
BY IdsKept DEF TypeOK, CkptOK, Persisted

LEMMA CkptStep ==
  ASSUME TypeOK, [Next]_vars
  PROVE  CkptOK'
<1>1. Grown
  BY RowsGrow
<1>2. CASE UNCHANGED ckpt
  BY <1>1, <1>2, IdsKept DEF TypeOK, CkptOK
<1>3. ASSUME NEW s \in Sample, PersistSample(s) \/ CallbackThrows(s)
      PROVE  CkptOK'
  <2>1. capture[s].n \in Nat /\ capture[s].row \in RowIds
    BY DEF TypeOK, CaptureOK
  <2>2. ckpt' \in {ckpt, Persisted(s, capture[s].n, capture[s].row)}
    BY <1>3 DEF PersistSample, CallbackThrows, PersistThrows
  <2> QED
    BY <1>1, <2>1, <2>2, PersistedTyped
<1>4. CASE (ReplayPersist \/ ReplayFails) /\ ckpt' # ckpt
  <2>1. ckpt' \in {ckpt, Persisted(replay.now.sample, replay.now.n, replay.row)}
    BY <1>4 DEF ReplayPersist, ReplayFails, PersistThrows
  <2>2. /\ replay.now.sample \in Sample \cup {NoSample}
        /\ replay.now.n \in Nat /\ replay.row \in RowIds
    BY DEF TypeOK, ReplayOK, Answer, NoAnswer
  <2> QED
    BY <1>1, <2>1, <2>2, PersistedTyped
<1>5. CASE MarkRunning
  BY <1>1, <1>5, IdsKept DEF MarkRunning, TypeOK, CkptOK
<1>6. CASE WriteVerdict
  BY <1>1, <1>6, IdsKept DEF WriteVerdict, TypeOK, CkptOK, LaneOK
<1>7. CASE RetryWrite
  BY <1>1, <1>7, IdsKept DEF RetryWrite, TypeOK, CkptOK, BoundsOK
<1> QED
  BY <1>2, <1>3, <1>4, <1>5, <1>6, <1>7, CkptWriters

LEMMA StoreStep ==
  ASSUME TypeOK, [Next]_vars
  PROVE  StoreOK'
<1>1. Grown /\ Ids \subseteq Ids'
  BY RowsGrow, IdsKept
<1>2. analysed' \subseteq Ids
  <2>1. CASE UNCHANGED analysed
    BY <2>1 DEF TypeOK, StoreOK
  <2>2. CASE Judge \/ AnalysisThrows
    BY <2>2 DEF Judge, AnalysisThrows, TypeOK, StoreOK, LaneOK
  <2> QED
    BY <2>1, <2>2, AnalysedWriters
<1>3. outbox' \subseteq Answer
  <2>1. CASE UNCHANGED outbox \/ ReplayRemove
    BY <2>1 DEF ReplayRemove, TypeOK, StoreOK
  <2>2. ASSUME NEW s \in Sample, WriteOutbox(s)
        PROVE  outbox' \subseteq Answer
    BY <2>2 DEF WriteOutbox, TypeOK, StoreOK, CaptureOK, Answer
  <2> QED
    BY <2>1, <2>2, OutboxWriters
<1> QED
  BY <1>1, <1>2, <1>3 DEF StoreOK, Grown

LEMMA CaptureStep ==
  ASSUME TypeOK, [Next]_vars
  PROVE  CaptureOK'
<1>1. Grown /\ RowIds \subseteq RowIds'
  BY RowsGrow, IdsKept
<1>2. CASE UNCHANGED <<asked, capture>>
  BY <1>1, <1>2 DEF TypeOK, CaptureOK
<1>3. CASE Crash
  BY <1>1, <1>3 DEF Crash, Idle, TypeOK, CaptureOK, CapturePc, RowIds
<1>4. ASSUME NEW s \in Sample, Captured(s)
      PROVE  CaptureOK'
  BY <1>1, <1>4 DEF Captured, TypeOK, CaptureOK, CapturePc, RowIds
<1>5. ASSUME NEW s \in Sample, StoreSample(s)
      PROVE  CaptureOK'
  <2>1. FreshId \in RowIds'
    BY <1>5, FreshIsId DEF StoreSample, TypeOK, CaptureOK, RowIds
  <2> QED
    BY <1>1, <1>5, <2>1 DEF StoreSample, TypeOK, CaptureOK, CapturePc
<1>6. ASSUME NEW s \in Sample, StoreFails(s) \/ WriteOutbox(s)
      PROVE  CaptureOK'
  BY <1>1, <1>6 DEF StoreFails, WriteOutbox, TypeOK, CaptureOK, CapturePc
<1>7. ASSUME NEW s \in Sample, PersistSample(s) \/ RequestAnalysis(s) \/ CallbackThrows(s)
      PROVE  CaptureOK'
  <2>1. Idle \in [pc : CapturePc, n : Nat, row : RowIds']
    BY DEF Idle, CapturePc, RowIds
  <2>2. asked' = asked /\ capture' \in [Sample -> [pc : CapturePc, n : Nat, row : RowIds']]
    BY <1>1, <1>7, <2>1
    DEF PersistSample, RequestAnalysis, CallbackThrows, TypeOK, CaptureOK, CapturePc
  <2> QED
    BY <2>2 DEF TypeOK, CaptureOK
<1> QED
  BY <1>2, <1>3, <1>4, <1>5, <1>6, <1>7, CaptureWriters DEF Capture

LEMMA ReplayStep ==
  ASSUME TypeOK, [Next]_vars
  PROVE  ReplayOK'
<1>1. Grown /\ RowIds \subseteq RowIds'
  BY RowsGrow, IdsKept
<1>2. CASE UNCHANGED replay
  BY <1>1, <1>2 DEF TypeOK, ReplayOK
<1>3. CASE ReplayFails \/ Crash
  BY <1>3 DEF ReplayFails, Crash, NoReplay, ReplayOK, RowIds
<1>4. CASE ListOutbox
  BY <1>4 DEF ListOutbox, NoReplay, ReplayOK, RowIds, TypeOK, StoreOK
<1>5. CASE ReplayStore
  <2>1. PICK a \in replay.files :
          /\ rows' = Stored(a.sample, a.n)
          /\ replay' = [replay EXCEPT !.pc = "persist", !.now = a, !.row = FreshId]
    BY <1>5 DEF ReplayStore
  <2>2. a \in Answer /\ a.sample \in Sample /\ a.n \in Nat
    BY DEF TypeOK, ReplayOK, Answer
  <2>3. FreshId \in RowIds'
    BY <2>1, <2>2, FreshIsId DEF RowIds
  <2> QED
    BY <2>1, <2>2, <2>3 DEF TypeOK, ReplayOK
<1>6. CASE ReplayPersist
  BY <1>1, <1>6 DEF ReplayPersist, TypeOK, ReplayOK
<1>7. CASE ReplayRemove
  BY <1>7 DEF ReplayRemove, NoReplay, TypeOK, ReplayOK, RowIds
<1> QED
  BY <1>2, <1>3, <1>4, <1>5, <1>6, <1>7, ReplayWriters DEF Replay

LEMMA LaneStep ==
  ASSUME TypeOK, [Next]_vars
  PROVE  LaneOK'
<1>1. Grown /\ Ids \subseteq Ids'
  BY RowsGrow, IdsKept
<1> DEFINE Verdict == [sample : Sample, verdict : {"completed", "failed"}]
           Lane == [pc : LanePc, ids : SUBSET Ids, failed : SUBSET Ids,
                    todo : SUBSET Verdict]
<1>2. lane \in Lane
  BY DEF TypeOK, LaneOK
<1>3. NoAnalysis \in Lane
  BY DEF NoAnalysis, LanePc
<1>4. SUFFICES lane' \in Lane
  BY <1>1 DEF LaneOK
<1>5. ASSUME NEW pc \in LanePc, NEW todo \in SUBSET Verdict
      PROVE  Settling(pc, todo) \in Lane
  BY <1>3 DEF Settling, NoAnalysis
<1>6. CASE UNCHANGED lane \/ Crash \/ AnalysisThrows
  BY <1>2, <1>3, <1>6 DEF Crash, AnalysisThrows, NoAnalysis, LanePc
<1>7. CASE lane' = Requested
  BY <1>2, <1>7 DEF Requested, LanePc
<1>8. CASE MarkRunning
  BY <1>2, <1>8 DEF MarkRunning, LanePc
<1>9. CASE ReadScope
  <2>1. Scope \subseteq Ids
    BY DEF Scope, Completed, TypeOK, CkptOK, RowIds
  <2> QED
    BY <1>2, <1>9, <2>1 DEF ReadScope, LanePc
<1>10. CASE Judge
  BY <1>2, <1>10 DEF Judge, LanePc
<1>11. CASE Settle
  <2>1. Verdicts \subseteq Verdict /\ FatalVerdicts \subseteq Verdict
    BY DEF Verdicts, FatalVerdicts, Completed
  <2>2. "write" \in LanePc /\ "fatalWrite" \in LanePc
    BY DEF LanePc
  <2> QED
    BY <1>5, <1>11, <2>1, <2>2 DEF Settle
<1>12. CASE WriteVerdict
  BY <1>2, <1>5, <1>12 DEF WriteVerdict
<1> QED
  BY <1>6, <1>7, <1>8, <1>9, <1>10, <1>11, <1>12, LaneWriters DEF Analysis

LEMMA BoundsStep ==
  ASSUME TypeOK, [Next]_vars
  PROVE  BoundsOK'
<1> DEFINE Spent == [again : Nat, crash : Nat, fault : Nat, retry : Nat]
<1>1. retry \in Sample \cup {NoSample} /\ spent \in Spent
  BY DEF TypeOK, BoundsOK
<1>2. spent' \in Spent
  <2>1. CASE UNCHANGED spent
    BY <1>1, <2>1
  <2>2. CASE Fault
    BY <1>1, <2>2 DEF Fault
  <2>3. CASE Event("again") \/ Event("crash") \/ Event("retry")
    BY <1>1, <2>3 DEF Event
  <2> QED
    BY <2>1, <2>2, <2>3
    DEF Next, vars, Capture, Replay, Analysis, Captured, StoreSample, StoreFails,
        WriteOutbox, PersistSample, RequestAnalysis, CallbackThrows, ListOutbox,
        ReplayStore, ReplayPersist, ReplayRemove, ReplayFails, MarkRunning, ReadScope,
        Judge, Settle, WriteVerdict, AnalysisThrows, Recover, RetryRead, RetryWrite,
        Crash
<1>3. retry' \in Sample \cup {NoSample}
  BY <1>1
  DEF Next, vars, Capture, Replay, Analysis, Captured, StoreSample, StoreFails,
      WriteOutbox, PersistSample, RequestAnalysis, CallbackThrows, ListOutbox,
      ReplayStore, ReplayPersist, ReplayRemove, ReplayFails, MarkRunning, ReadScope,
      Judge, Settle, WriteVerdict, AnalysisThrows, Recover, RetryRead, RetryWrite,
      Crash
<1> QED
  BY <1>2, <1>3 DEF BoundsOK

LEMMA TypeStep ==
  ASSUME TypeOK, [Next]_vars
  PROVE  TypeOK'
BY CkptStep, StoreStep, CaptureStep, ReplayStep, LaneStep, BoundsStep DEF TypeOK

\* TypeOK for every set of samples and every bound: what names a row names
\* one that storePromptResponses inserted.
THEOREM TypeCorrect == Spec => []TypeOK
BY TypeInit, TypeStep, PTL DEF Spec

-----------------------------------------------------------------------------
(* No answer is lost.  An answer is backed by the row that is named for it *)
(* or, while no row is named, by a file or a row; the same holds of what   *)
(* the callbacks and the replay are about to write to a checkpoint.        *)

Held(a) == a \in outbox \/ \E id \in Ids : rows[id] = a

Backed(a, id) == IF id = NoRow THEN Held(a) ELSE id \in Ids /\ rows[id] = a

CkptBacked ==
  \A s \in Completed : Backed([sample |-> s, n |-> ckpt[s].answer], ckpt[s].row)

CaptureBacked ==
  \A s \in Sample :
    /\ capture[s].pc \in {"store", "file"} => capture[s].row = NoRow
    /\ capture[s].pc = "persist" => Backed([sample |-> s, n |-> capture[s].n], capture[s].row)

ReplayBacked ==
  replay.pc \in {"persist", "remove"} =>
    /\ replay.now \in Answer
    /\ replay.row \in Ids /\ rows[replay.row] = replay.now

KeptInv == TypeOK /\ CkptBacked /\ CaptureBacked /\ ReplayBacked

LEMMA KeptInvInit == Init => KeptInv
<1> SUFFICES ASSUME Init PROVE KeptInv
  OBVIOUS
<1>1. TypeOK
  BY TypeInit
<1>2. CkptBacked /\ CaptureBacked /\ ReplayBacked
  BY DEF Init, CkptBacked, CaptureBacked, ReplayBacked, Completed, Idle, NoReplay
<1> QED
  BY <1>1, <1>2 DEF KeptInv

\* Rows are never removed, and a file only when its answer has a row.
LEMMA BackedStays ==
  ASSUME KeptInv, [Next]_vars, NEW a, NEW id, Backed(a, id)
  PROVE  Backed(a, id)'
<1>1. Grown /\ Ids \subseteq Ids'
  BY RowsGrow, IdsKept DEF KeptInv
<1>2. \A i \in Ids : rows[i] = a => (\E k \in Ids' : rows'[k] = a)
  BY <1>1 DEF Grown
<1>3. CASE id # NoRow
  BY <1>1, <1>3 DEF Backed, Grown
<1>4. CASE id = NoRow
  <2>1. Held(a)
    BY <1>4 DEF Backed
  <2>2. CASE \E i \in Ids : rows[i] = a
    BY <1>2, <1>4, <2>2 DEF Backed, Held
  <2>3. CASE a \in outbox
    <3>1. a \in outbox' \/ (ReplayRemove /\ a = replay.now)
      BY <2>3, OutboxWriters DEF WriteOutbox, ReplayRemove
    <3>2. CASE a \in outbox'
      BY <1>4, <3>2 DEF Backed, Held
    <3>3. CASE ReplayRemove /\ a = replay.now
      <4>1. replay.row \in Ids /\ rows[replay.row] = a
        BY <3>3 DEF ReplayRemove, KeptInv, ReplayBacked
      <4> QED
        BY <1>2, <1>4, <4>1 DEF Backed, Held
    <3> QED
      BY <3>1, <3>2, <3>3
  <2> QED
    BY <2>1, <2>2, <2>3 DEF Held
<1> QED
  BY <1>3, <1>4

\* A checkpoint that is completed with a backed answer stays backed.
LEMMA PersistedBacked ==
  ASSUME KeptInv, [Next]_vars, NEW s \in Sample, NEW k \in Nat, NEW id \in RowIds,
         Backed([sample |-> s, n |-> k], id),
         ckpt' \in {ckpt, Persisted(s, k, id)}
  PROVE  CkptBacked'
<1> SUFFICES ASSUME NEW t \in Sample, ckpt'[t].status = "completed",
                    NEW n, n = ckpt'[t].answer, NEW r, r = ckpt'[t].row
             PROVE  Backed([sample |-> t, n |-> n], r)'
  BY DEF CkptBacked, Completed, Backed, Held
<1>1. Backed([sample |-> t, n |-> n], r)
  <2>1. CASE ckpt'[t] = ckpt[t]
    BY <2>1 DEF KeptInv, CkptBacked, Completed
  <2>2. CASE ckpt'[t] # ckpt[t]
    <3>1. t = s /\ n = k /\ r = id
      BY <2>2 DEF Persisted, KeptInv, TypeOK, CkptOK
    <3> QED
      BY <3>1
  <2> QED
    BY <2>1, <2>2
<1> QED
  BY <1>1, BackedStays

LEMMA CkptBackedStep ==
  ASSUME KeptInv, [Next]_vars
  PROVE  CkptBacked'
<1>1. TypeOK /\ CkptBacked
  BY DEF KeptInv
<1>2. ASSUME NEW s \in Sample, PersistSample(s) \/ CallbackThrows(s), ckpt' # ckpt
      PROVE  CkptBacked'
  <2>1. capture[s].pc = "persist"
    BY <1>2 DEF PersistSample, CallbackThrows
  <2>2. capture[s].n \in Nat /\ capture[s].row \in RowIds
    BY <1>1 DEF TypeOK, CaptureOK
  <2>3. ckpt' \in {ckpt, Persisted(s, capture[s].n, capture[s].row)}
    BY <1>2 DEF PersistSample, CallbackThrows, PersistThrows
  <2>4. Backed([sample |-> s, n |-> capture[s].n], capture[s].row)
    BY <2>1 DEF KeptInv, CaptureBacked
  <2> QED
    BY <2>2, <2>3, <2>4, PersistedBacked
<1>3. CASE (ReplayPersist \/ ReplayFails) /\ ckpt' # ckpt
  <2>1. replay.pc = "persist"
    BY <1>3 DEF ReplayPersist, ReplayFails
  <2>2. /\ replay.now \in Answer
        /\ replay.row \in Ids /\ rows[replay.row] = replay.now
    BY <2>1 DEF KeptInv, ReplayBacked
  <2>3. /\ replay.now.sample \in Sample /\ replay.now.n \in Nat
        /\ replay.now = [sample |-> replay.now.sample, n |-> replay.now.n]
    BY <2>2 DEF Answer
  <2>4. replay.row \in RowIds /\ replay.row # NoRow
    BY <2>2, <1>1 DEF RowIds, NoRow, Ids, TypeOK, StoreOK
  <2>5. Backed([sample |-> replay.now.sample, n |-> replay.now.n], replay.row)
    BY <2>2, <2>3, <2>4 DEF Backed
  <2>6. ckpt' \in {ckpt, Persisted(replay.now.sample, replay.now.n, replay.row)}
    BY <1>3 DEF ReplayPersist, ReplayFails, PersistThrows
  <2> QED
    BY <2>3, <2>4, <2>5, <2>6, PersistedBacked
<1>4. CASE \A s \in Sample : /\ ckpt'[s].status = ckpt[s].status
                            /\ ckpt'[s].answer = ckpt[s].answer
                            /\ ckpt'[s].row = ckpt[s].row
  <2> SUFFICES ASSUME NEW t \in Sample, ckpt'[t].status = "completed",
                      NEW n, n = ckpt'[t].answer, NEW r, r = ckpt'[t].row
               PROVE  Backed([sample |-> t, n |-> n], r)'
    BY DEF CkptBacked, Completed, Backed, Held
  <2>1. Backed([sample |-> t, n |-> n], r)
    BY <1>1, <1>4 DEF CkptBacked, Completed
  <2> QED
    BY <2>1, BackedStays
<1>5. CASE UNCHANGED ckpt \/ MarkRunning \/ WriteVerdict \/ RetryWrite
  <2>1. CASE UNCHANGED ckpt
    BY <1>4, <2>1
  <2>2. CASE MarkRunning
    BY <1>1, <1>4, <2>2 DEF MarkRunning, TypeOK, CkptOK
  <2>3. CASE WriteVerdict
    BY <1>1, <1>4, <2>3 DEF WriteVerdict, TypeOK, CkptOK
  <2>4. CASE RetryWrite
    BY <1>1, <1>4, <2>4 DEF RetryWrite, TypeOK, CkptOK
  <2> QED
    BY <1>5, <2>1, <2>2, <2>3, <2>4
<1> QED
  BY <1>2, <1>3, <1>5, CkptWriters

LEMMA CaptureBackedStep ==
  ASSUME KeptInv, [Next]_vars
  PROVE  CaptureBacked'
<1>1. TypeOK /\ TypeOK' /\ CaptureBacked
  BY TypeStep DEF KeptInv
<1> SUFFICES ASSUME NEW t \in Sample
             PROVE  /\ capture'[t].pc \in {"store", "file"} => capture'[t].row = NoRow
                    /\ \A n, r : /\ capture'[t].pc = "persist"
                                 /\ n = capture'[t].n /\ r = capture'[t].row
                                 => Backed([sample |-> t, n |-> n], r)'
  BY DEF CaptureBacked, Backed, Held
<1>2. CASE capture'[t] = capture[t]
  BY <1>1, <1>2, BackedStays DEF CaptureBacked
<1>3. CASE capture'[t].pc \notin {"store", "file", "persist"}
  BY <1>3
<1>4. CASE Captured(t) \/ StoreFails(t)
  <2>1. capture[t].pc = "store" => capture[t].row = NoRow
    BY <1>1 DEF CaptureBacked
  <2>2. capture'[t].pc \in {"store", "file"} /\ capture'[t].row = NoRow
    BY <1>1, <1>4, <2>1 DEF Captured, StoreFails, TypeOK, CaptureOK
  <2> QED
    BY <2>2
<1>5. CASE StoreSample(t)
  <2>1. capture[t].n \in Nat /\ capture'[t].n = capture[t].n
    BY <1>1, <1>5 DEF StoreSample, TypeOK, CaptureOK
  <2>2. capture'[t].pc = "persist" /\ capture'[t].row = FreshId
    BY <1>1, <1>5 DEF StoreSample, TypeOK, CaptureOK
  <2>3. FreshId \in Ids' /\ rows'[FreshId] = [sample |-> t, n |-> capture[t].n]
    BY <1>1, <1>5, <2>1, FreshIsId DEF StoreSample
  <2>4. FreshId # NoRow
    BY <1>1 DEF FreshId, NoRow, TypeOK, StoreOK
  <2> QED
    BY <2>1, <2>2, <2>3, <2>4 DEF Backed
<1>6. CASE WriteOutbox(t)
  <2>1. [sample |-> t, n |-> capture[t].n] \in outbox'
    BY <1>6 DEF WriteOutbox
  <2>2. /\ capture'[t].pc = "persist" /\ capture'[t].n = capture[t].n
        /\ capture'[t].row = NoRow
    BY <1>1, <1>6 DEF WriteOutbox, CaptureBacked, TypeOK, CaptureOK
  <2> QED
    BY <2>1, <2>2 DEF Backed, Held
<1>7. CASE PersistSample(t) \/ RequestAnalysis(t) \/ CallbackThrows(t) \/ Crash
  BY <1>1, <1>3, <1>7
  DEF PersistSample, RequestAnalysis, CallbackThrows, Crash, Idle, TypeOK, CaptureOK
<1>8. ASSUME NEW s \in Sample, s # t,
             Captured(s) \/ Capture(s) \/ StoreFails(s) \/ CallbackThrows(s)
      PROVE  capture'[t] = capture[t]
  BY <1>1, <1>8
  DEF Capture, Captured, StoreSample, StoreFails, WriteOutbox, PersistSample,
      RequestAnalysis, CallbackThrows, TypeOK, CaptureOK
<1> QED
  BY <1>2, <1>4, <1>5, <1>6, <1>7, <1>8, CaptureWriters DEF Capture

LEMMA ReplayBackedStep ==
  ASSUME KeptInv, [Next]_vars
  PROVE  ReplayBacked'
<1>1. TypeOK /\ ReplayBacked
  BY DEF KeptInv
<1>2. Grown /\ Ids \subseteq Ids'
  BY <1>1, RowsGrow, IdsKept
<1>3. CASE UNCHANGED replay \/ ReplayPersist
  BY <1>1, <1>2, <1>3 DEF ReplayPersist, ReplayBacked, Grown, TypeOK, ReplayOK
<1>4. CASE ReplayStore
  <2>1. PICK a \in replay.files :
          /\ rows' = Stored(a.sample, a.n)
          /\ replay' = [replay EXCEPT !.pc = "persist", !.now = a, !.row = FreshId]
    BY <1>4 DEF ReplayStore
  <2>2. /\ a \in Answer /\ a.sample \in Sample /\ a.n \in Nat
        /\ a = [sample |-> a.sample, n |-> a.n]
    BY <1>1 DEF TypeOK, ReplayOK, Answer
  <2>3. FreshId \in Ids' /\ rows'[FreshId] = a
    BY <1>1, <2>1, <2>2, FreshIsId
  <2>4. replay'.now = a /\ replay'.row = FreshId
    BY <1>1, <2>1 DEF TypeOK, ReplayOK
  <2> QED
    BY <2>2, <2>3, <2>4 DEF ReplayBacked
<1>5. CASE ListOutbox \/ ReplayRemove \/ ReplayFails \/ Crash
  <2>1. CASE replay' = NoReplay
    BY <2>1 DEF NoReplay, ReplayBacked
  <2>2. ASSUME NEW files, replay' = [NoReplay EXCEPT !.pc = "store", !.files = files]
        PROVE  ReplayBacked'
    BY <2>2 DEF NoReplay, ReplayBacked
  <2> QED
    BY <1>5, <2>1, <2>2 DEF ListOutbox, ReplayRemove, ReplayFails, Crash
<1> QED
  BY <1>3, <1>4, <1>5, ReplayWriters DEF Replay

LEMMA KeptInvStep ==
  ASSUME KeptInv, [Next]_vars
  PROVE  KeptInv'
BY TypeStep, CkptBackedStep, CaptureBackedStep, ReplayBackedStep DEF KeptInv

LEMMA KeptInvInvariant == Spec => []KeptInv
BY KeptInvInit, KeptInvStep, PTL DEF Spec

\* AnswersKept for every set of samples, whatever fails and crashes, however
\* replays and callbacks overtake each other.
THEOREM NoAnswerLost == Spec => []AnswersKept
<1>1. KeptInv => AnswersKept
  BY DEF KeptInv, CkptBacked, Backed, Held, AnswersKept
<1> QED
  BY <1>1, KeptInvInvariant, PTL

-----------------------------------------------------------------------------
(* Called analysed only if analysed.  The verdicts the lane is about to    *)
(* write are as good as those it has written.                              *)

HasAnalysis(s) == \E id \in analysed : rows[id].sample = s

LaneTruthful ==
  /\ lane.pc = "settle" => lane.ids \ lane.failed \subseteq analysed
  /\ lane.pc \in {"write", "fatalWrite"} =>
       \A v \in lane.todo : v.verdict = "completed" => HasAnalysis(v.sample)

AnalysedInv == KeptInv /\ LaneTruthful /\ AnalysedIsAnalysed

LEMMA AnalysisStays ==
  ASSUME KeptInv, [Next]_vars, NEW s, HasAnalysis(s)
  PROVE  HasAnalysis(s)'
<1>1. Grown
  BY RowsGrow DEF KeptInv
<1>2. analysed \subseteq analysed' /\ analysed \subseteq Ids
  BY AnalysedWriters DEF Judge, AnalysisThrows, KeptInv, TypeOK, StoreOK
<1> QED
  BY <1>1, <1>2 DEF HasAnalysis, Grown

LEMMA LaneTruthfulStep ==
  ASSUME AnalysedInv, [Next]_vars
  PROVE  LaneTruthful'
<1>1. KeptInv /\ TypeOK /\ LaneTruthful
  BY DEF AnalysedInv, KeptInv
<1>2. analysed \subseteq analysed'
  BY AnalysedWriters DEF Judge, AnalysisThrows
<1>3. CASE UNCHANGED lane
  BY <1>1, <1>2, <1>3, AnalysisStays DEF LaneTruthful
<1>4. CASE lane'.pc \notin {"settle", "write", "fatalWrite"}
  BY <1>4 DEF LaneTruthful
<1>5. CASE lane' = Requested
  <2>1. lane' = lane \/ lane'.pc = "mark"
    BY <1>1, <1>5 DEF Requested, TypeOK, LaneOK
  <2> QED
    BY <1>3, <1>4, <2>1
<1>6. CASE Crash \/ AnalysisThrows \/ MarkRunning
  BY <1>1, <1>4, <1>6 DEF Crash, AnalysisThrows, MarkRunning, NoAnalysis, TypeOK, LaneOK
<1>7. CASE ReadScope
  BY <1>1, <1>7 DEF ReadScope, LaneTruthful, TypeOK, LaneOK
<1>8. CASE Judge
  BY <1>1, <1>8 DEF Judge, LaneTruthful, TypeOK, LaneOK
<1>9. ASSUME NEW pc, pc \in {"write", "fatalWrite"}, NEW todo,
             lane' = Settling(pc, todo),
             \A v \in todo : v.verdict = "completed" => HasAnalysis(v.sample)
      PROVE  LaneTruthful'
  <2>1. lane'.todo \subseteq todo /\ lane'.pc # "settle"
    BY <1>9 DEF Settling, NoAnalysis
  <2> QED
    BY <1>1, <1>9, <2>1, AnalysisStays DEF LaneTruthful
<1>10. CASE Settle
  <2>1. ASSUME lane.pc = "settle", NEW v \in Verdicts, v.verdict = "completed"
        PROVE  HasAnalysis(v.sample)
    <3>1. PICK s \in Completed :
            /\ ckpt[s].row \in lane.ids
            /\ v.sample = s /\ ckpt[s].row \notin lane.failed
      BY <2>1 DEF Verdicts
    <3>2. ckpt[s].row \in analysed
      BY <1>1, <2>1, <3>1 DEF LaneTruthful
    <3>3. ckpt[s].row # NoRow
      BY <1>1, <3>2 DEF TypeOK, StoreOK, Ids, NoRow
    <3>4. rows[ckpt[s].row] = [sample |-> s, n |-> ckpt[s].answer]
      BY <1>1, <3>1, <3>3 DEF KeptInv, CkptBacked, Backed
    <3> QED
      BY <3>1, <3>2, <3>4 DEF HasAnalysis
  <2>2. \A v \in FatalVerdicts : v.verdict # "completed"
    BY DEF FatalVerdicts
  <2> QED
    BY <1>9, <1>10, <2>1, <2>2 DEF Settle
<1>11. CASE WriteVerdict
  <2>1. PICK v \in lane.todo : lane' = Settling(lane.pc, lane.todo \ {v})
    BY <1>11 DEF WriteVerdict
  <2>2. lane.pc \in {"write", "fatalWrite"}
    BY <1>11 DEF WriteVerdict
  <2>3. \A w \in lane.todo \ {v} : w.verdict = "completed" => HasAnalysis(w.sample)
    BY <1>1, <2>2 DEF LaneTruthful
  <2> QED
    BY <1>9, <2>1, <2>2, <2>3
<1> QED
  BY <1>3, <1>5, <1>6, <1>7, <1>8, <1>10, <1>11, LaneWriters DEF Analysis

LEMMA AnalysedStep ==
  ASSUME AnalysedInv, [Next]_vars
  PROVE  AnalysedIsAnalysed'
<1>1. KeptInv /\ TypeOK /\ AnalysedIsAnalysed /\ LaneTruthful
  BY DEF AnalysedInv, KeptInv
<1> SUFFICES ASSUME NEW t \in Sample,
                    ckpt'[t].status = "completed", ckpt'[t].analysis = "completed"
             PROVE  HasAnalysis(t)'
  BY DEF AnalysedIsAnalysed, Completed, HasAnalysis
<1>2. CASE ckpt[t].status = "completed" /\ ckpt[t].analysis = "completed"
  BY <1>1, <1>2, AnalysisStays DEF AnalysedIsAnalysed, Completed, HasAnalysis
<1>3. CASE UNCHANGED ckpt
  BY <1>2, <1>3
<1>4. CASE WriteVerdict
  <2>1. PICK v \in lane.todo : ckpt' = [ckpt EXCEPT ![v.sample].analysis = v.verdict]
    BY <1>4 DEF WriteVerdict
  <2>2. CASE v.sample = t /\ v.verdict = "completed"
    <3>1. HasAnalysis(t)
      BY <1>1, <1>4, <2>2 DEF WriteVerdict, LaneTruthful
    <3> QED
      BY <1>1, <3>1, AnalysisStays
  <2>3. CASE ~(v.sample = t /\ v.verdict = "completed")
    BY <1>1, <1>2, <2>1, <2>3 DEF TypeOK, CkptOK
  <2> QED
    BY <2>2, <2>3
<1>5. ASSUME NEW s, NEW k, NEW id, ckpt' \in {ckpt, Persisted(s, k, id)}
      PROVE  ckpt'[t] = ckpt[t]
  BY <1>1, <1>5 DEF Persisted, TypeOK, CkptOK
<1>6. ASSUME NEW s \in Sample, PersistSample(s) \/ CallbackThrows(s)
      PROVE  ckpt'[t] = ckpt[t]
  BY <1>5, <1>6 DEF PersistSample, CallbackThrows, PersistThrows
<1>7. CASE ReplayPersist \/ ReplayFails
  BY <1>2, <1>5, <1>7 DEF ReplayPersist, ReplayFails, PersistThrows
<1>8. CASE MarkRunning \/ RetryWrite
  BY <1>1, <1>2, <1>8 DEF MarkRunning, RetryWrite, TypeOK, CkptOK
<1> QED
  BY <1>2, <1>3, <1>4, <1>6, <1>7, <1>8, CkptWriters

\* AnalysedIsAnalysed for every set of samples: no crash, failing call, late
\* verdict or retry calls a sample analysed none of whose answers was.
THEOREM AnalysedTruthfully == Spec => []AnalysedIsAnalysed
<1>1. Init => AnalysedInv
  <2>1. Init => LaneTruthful
    BY DEF Init, LaneTruthful, NoAnalysis
  <2>2. Init => AnalysedIsAnalysed
    BY DEF Init, AnalysedIsAnalysed, Completed
  <2> QED
    BY <2>1, <2>2, KeptInvInit DEF AnalysedInv
<1>2. AnalysedInv /\ [Next]_vars => AnalysedInv'
  BY KeptInvStep, LaneTruthfulStep, AnalysedStep DEF AnalysedInv
<1>3. AnalysedInv => AnalysedIsAnalysed
  BY DEF AnalysedInv
<1> QED
  BY <1>1, <1>2, <1>3, PTL DEF Spec

-----------------------------------------------------------------------------
(* A sample without a row has its file, if no replay begins between an     *)
(* outbox write and the checkpoint write that follows it.  The file that   *)
(* is being replayed is then older than every answer on its way, and never *)
(* the one a checkpoint is waiting for.                                    *)

AnswersOld ==
  /\ \A a \in outbox \cup replay.files : a.n <= asked[a.sample]
  /\ \A s \in Sample : capture[s].n <= asked[s]

CaptureFiled ==
  \A s \in Sample :
    LET a == [sample |-> s, n |-> capture[s].n]
    IN /\ capture[s].pc \in {"store", "file"} => a \notin outbox \cup replay.files
       /\ capture[s].pc = "persist" /\ capture[s].row = NoRow =>
            a \in outbox /\ a \notin replay.files

ReplayFiled ==
  /\ replay.pc \in {"persist", "remove"} => replay.now \in replay.files
  /\ replay.pc = "remove" =>
       \A s \in Completed : ckpt[s].row = NoRow =>
         replay.now # [sample |-> s, n |-> ckpt[s].answer]

FiledInv == KeptInv /\ AnswersOld /\ CaptureFiled /\ ReplayFiled /\ UnnamedIsFiled

LEMMA FiledInvInit == Init => FiledInv
<1> SUFFICES ASSUME Init PROVE FiledInv
  OBVIOUS
<1>1. KeptInv
  BY KeptInvInit
<1>2. AnswersOld
  BY DEF Init, AnswersOld, Idle, NoReplay
<1>3. CaptureFiled /\ ReplayFiled /\ UnnamedIsFiled
  BY DEF Init, CaptureFiled, ReplayFiled, UnnamedIsFiled, Completed, Idle, NoReplay
<1> QED
  BY <1>1, <1>2, <1>3 DEF FiledInv

\* The files a replay has listed come from the outbox, or were listed before.
LEMMA FilesListed ==
  ASSUME TypeOK, [Next]_vars
  PROVE  replay'.files \subseteq replay.files \/ (ListOutbox /\ replay'.files = outbox)
<1>1. CASE UNCHANGED replay
  BY <1>1
<1>2. CASE ListOutbox
  BY <1>2 DEF ListOutbox, NoReplay
<1>3. CASE ReplayStore \/ ReplayPersist
  BY <1>3 DEF ReplayStore, ReplayPersist, TypeOK, ReplayOK
<1>4. CASE replay' = NoReplay
  BY <1>4 DEF NoReplay
<1>5. CASE ReplayRemove
  <2>1. ASSUME NEW left, left = replay.files \ {replay.now},
               replay' = [NoReplay EXCEPT !.pc = "store", !.files = left]
        PROVE  replay'.files = left
    BY <2>1 DEF NoReplay
  <2> QED
    BY <1>4, <1>5, <2>1 DEF ReplayRemove
<1> QED
  BY <1>1, <1>2, <1>3, <1>4, <1>5, ReplayWriters DEF Replay, ReplayFails, Crash

\* What a step does to one checkpoint, as far as it tells rows and files apart.
LEMMA CkptChange ==
  ASSUME KeptInv, [Next]_vars, NEW t \in Sample
  PROVE  \/ /\ ckpt'[t].status = ckpt[t].status
            /\ ckpt'[t].row = ckpt[t].row /\ ckpt'[t].answer = ckpt[t].answer
         \/ /\ PersistSample(t) \/ CallbackThrows(t)
            /\ capture[t].pc = "persist"
            /\ ckpt'[t].row = capture[t].row /\ ckpt'[t].answer = capture[t].n
         \/ ckpt'[t].row # NoRow
<1>1. TypeOK
  BY DEF KeptInv
<1>2. CASE UNCHANGED ckpt
  BY <1>2
<1>3. ASSUME NEW s \in Sample, PersistSample(s) \/ CallbackThrows(s), ckpt'[t] # ckpt[t]
      PROVE  /\ s = t /\ capture[t].pc = "persist"
             /\ ckpt'[t].row = capture[t].row /\ ckpt'[t].answer = capture[t].n
  <2>1. capture[s].pc = "persist" /\ ckpt' = Persisted(s, capture[s].n, capture[s].row)
    BY <1>3 DEF PersistSample, CallbackThrows, PersistThrows
  <2> QED
    BY <1>1, <1>3, <2>1 DEF Persisted, TypeOK, CkptOK
<1>4. ASSUME ReplayPersist \/ ReplayFails, ckpt'[t] # ckpt[t]
      PROVE  ckpt'[t].row # NoRow
  <2>1. /\ replay.pc = "persist"
        /\ ckpt' = Persisted(replay.now.sample, replay.now.n, replay.row)
    BY <1>4 DEF ReplayPersist, ReplayFails, PersistThrows
  <2>2. replay.row \in Ids
    BY <2>1 DEF KeptInv, ReplayBacked
  <2>3. replay.row # NoRow
    BY <1>1, <2>2 DEF Ids, NoRow, TypeOK, StoreOK
  <2> QED
    BY <1>1, <1>4, <2>1, <2>3 DEF Persisted, TypeOK, CkptOK
<1>5. CASE MarkRunning
  BY <1>1, <1>5 DEF MarkRunning, TypeOK, CkptOK
<1>6. CASE WriteVerdict
  BY <1>1, <1>6 DEF WriteVerdict, TypeOK, CkptOK
<1>7. CASE RetryWrite
  BY <1>1, <1>7 DEF RetryWrite, TypeOK, CkptOK
<1> QED
  BY <1>2, <1>3, <1>4, <1>5, <1>6, <1>7, CkptWriters

LEMMA AnswersOldStep ==
  ASSUME TypeOK, AnswersOld, [Next]_vars
  PROVE  AnswersOld'
<1>1. TypeOK /\ TypeOK' /\ AnswersOld
  BY TypeStep
<1>2. /\ \A s \in Sample : asked[s] <= asked'[s]
      /\ \A s \in Sample : capture'[s].n <= asked'[s]
  <2>1. CASE UNCHANGED <<asked, capture>>
    BY <1>1, <2>1 DEF AnswersOld, TypeOK, CaptureOK
  <2>2. CASE Crash
    BY <1>1, <2>2 DEF Crash, Idle, TypeOK, CaptureOK
  <2>3. ASSUME NEW s \in Sample,
               Captured(s) \/ Capture(s) \/ StoreFails(s) \/ CallbackThrows(s)
        PROVE  <1>2!1 /\ <1>2!2
    BY <1>1, <2>3
    DEF Capture, Captured, StoreSample, StoreFails, WriteOutbox, PersistSample,
        RequestAnalysis, CallbackThrows, Idle, AnswersOld, TypeOK, CaptureOK
  <2> QED
    BY <2>1, <2>2, <2>3, CaptureWriters
<1>3. \A a \in outbox' : a.n <= asked[a.sample]
  <2>1. CASE UNCHANGED outbox \/ ReplayRemove
    BY <1>1, <2>1 DEF ReplayRemove, AnswersOld
  <2>2. ASSUME NEW s \in Sample, WriteOutbox(s)
        PROVE  \A a \in outbox' : a.n <= asked[a.sample]
    BY <1>1, <2>2 DEF WriteOutbox, AnswersOld
  <2> QED
    BY <2>1, <2>2, OutboxWriters
<1>4. \A a \in replay'.files : a.n <= asked[a.sample]
  <2>1. replay'.files \subseteq outbox \cup replay.files
    BY <1>1, FilesListed
  <2> QED
    BY <1>1, <2>1 DEF AnswersOld
<1>5. \A a \in outbox' \cup replay'.files : a.sample \in Sample /\ a.n \in Nat
  BY <1>1 DEF TypeOK, StoreOK, ReplayOK, Answer
<1>6. \A s \in Sample : asked[s] \in Nat /\ asked'[s] \in Nat
  BY <1>1 DEF TypeOK, CaptureOK
<1> QED
  BY <1>2, <1>3, <1>4, <1>5, <1>6 DEF AnswersOld

LEMMA CaptureFiledStep ==
  ASSUME ~ReplayOvertakes, FiledInv, [Next]_vars
  PROVE  CaptureFiled'
<1>1. TypeOK /\ AnswersOld /\ CaptureFiled /\ ReplayFiled
  BY DEF FiledInv, KeptInv
<1> SUFFICES ASSUME NEW t \in Sample, NEW a, a = [sample |-> t, n |-> capture'[t].n]
             PROVE  /\ capture'[t].pc \in {"store", "file"} => a \notin outbox' \cup replay'.files
                    /\ capture'[t].pc = "persist" /\ capture'[t].row = NoRow =>
                         a \in outbox' /\ a \notin replay'.files
  BY DEF CaptureFiled
<1>2. CASE capture'[t] = capture[t] /\ ~WriteOutbox(t)
  <2>1. ASSUME capture[t].pc \in {"store", "file"}
        PROVE  a \notin outbox' \cup replay'.files
    <3>1. a \notin outbox \cup replay.files
      BY <1>1, <1>2, <2>1 DEF CaptureFiled
    <3>2. a \notin outbox'
      BY <1>2, <3>1, OutboxWriters DEF WriteOutbox, ReplayRemove
    <3> QED
      BY <1>1, <3>1, <3>2, FilesListed
  <2>2. ASSUME capture[t].pc = "persist", capture[t].row = NoRow
        PROVE  a \in outbox' /\ a \notin replay'.files
    <3>1. a \in outbox /\ a \notin replay.files
      BY <1>1, <1>2, <2>2 DEF CaptureFiled
    <3>2. ~ListOutbox
      BY <2>2 DEF ListOutbox, BetweenWrites
    <3>3. ReplayRemove => a # replay.now
      BY <1>1, <3>1 DEF ReplayRemove, ReplayFiled
    <3>4. a \in outbox'
      BY <3>1, <3>3, OutboxWriters DEF WriteOutbox, ReplayRemove
    <3> QED
      BY <1>1, <3>1, <3>2, <3>4, FilesListed
  <2> QED
    BY <1>2, <2>1, <2>2
<1>3. CASE Captured(t)
  <2>1. a.n = asked[t] + 1 /\ a.sample = t /\ capture'[t].pc = "store"
    BY <1>1, <1>3 DEF Captured, TypeOK, CaptureOK
  <2>2. asked[t] \in Nat /\ \A b \in outbox \cup replay.files : b.n \in Nat
    BY <1>1 DEF TypeOK, CaptureOK, StoreOK, ReplayOK, Answer
  <2>3. a \notin outbox \cup replay.files
    BY <1>1, <2>1, <2>2 DEF AnswersOld
  <2> QED
    BY <1>3, <2>1, <2>3 DEF Captured, store
<1>4. CASE StoreFails(t)
  <2>1. capture[t].pc = "store" /\ capture'[t].pc = "file" /\ capture'[t].n = capture[t].n
    BY <1>1, <1>4 DEF StoreFails, TypeOK, CaptureOK
  <2> QED
    BY <1>1, <1>4, <2>1 DEF StoreFails, CaptureFiled
<1>5. CASE StoreSample(t)
  <2>1. capture'[t].pc = "persist" /\ capture'[t].row = Len(rows) + 1
    BY <1>1, <1>5 DEF StoreSample, FreshId, TypeOK, CaptureOK
  <2>2. Len(rows) + 1 # NoRow
    BY <1>1 DEF NoRow, TypeOK, StoreOK
  <2> QED
    BY <2>1, <2>2
<1>6. CASE WriteOutbox(t)
  <2>1. capture[t].pc = "file" /\ capture'[t].pc = "persist" /\ capture'[t].n = capture[t].n
    BY <1>1, <1>6 DEF WriteOutbox, TypeOK, CaptureOK
  <2> QED
    BY <1>1, <1>6, <2>1 DEF WriteOutbox, CaptureFiled
<1>7. CASE PersistSample(t) \/ RequestAnalysis(t) \/ CallbackThrows(t) \/ Crash
  <2>1. capture'[t].pc \notin {"store", "file", "persist"}
    BY <1>1, <1>7
    DEF PersistSample, RequestAnalysis, CallbackThrows, Crash, Idle, TypeOK, CaptureOK
  <2> QED
    BY <2>1
<1>8. ASSUME NEW s \in Sample, s # t,
             Captured(s) \/ Capture(s) \/ StoreFails(s) \/ CallbackThrows(s)
      PROVE  capture'[t] = capture[t]
  BY <1>1, <1>8
  DEF Capture, Captured, StoreSample, StoreFails, WriteOutbox, PersistSample,
      RequestAnalysis, CallbackThrows, TypeOK, CaptureOK
<1> QED
  BY <1>2, <1>3, <1>4, <1>5, <1>6, <1>7, <1>8, CaptureWriters DEF Capture

LEMMA ReplayFiledStep ==
  ASSUME FiledInv, [Next]_vars
  PROVE  ReplayFiled'
<1>1. KeptInv /\ TypeOK /\ CaptureFiled /\ ReplayFiled
  BY DEF FiledInv, KeptInv
<1>2. CASE replay'.pc \notin {"persist", "remove"}
  BY <1>2 DEF ReplayFiled
<1>3. CASE ListOutbox \/ ReplayRemove \/ ReplayFails \/ Crash
  <2>1. CASE replay' = NoReplay
    BY <1>2, <2>1 DEF NoReplay
  <2>2. ASSUME NEW files, replay' = [NoReplay EXCEPT !.pc = "store", !.files = files]
        PROVE  ReplayFiled'
    BY <1>2, <2>2 DEF NoReplay
  <2> QED
    BY <1>3, <2>1, <2>2 DEF ListOutbox, ReplayRemove, ReplayFails, Crash
<1>4. CASE ReplayStore
  <2>1. replay'.pc = "persist" /\ replay'.now \in replay'.files
    BY <1>1, <1>4 DEF ReplayStore, TypeOK, ReplayOK
  <2> QED
    BY <2>1 DEF ReplayFiled
<1>5. CASE ReplayPersist
  <2>1. replay'.now = replay.now /\ replay'.files = replay.files /\ replay'.pc = "remove"
    BY <1>1, <1>5 DEF ReplayPersist, TypeOK, ReplayOK
  <2>2. replay.now \in replay.files /\ replay.now \in Answer /\ replay.row \in Ids
    BY <1>1, <1>5 DEF ReplayPersist, ReplayFiled, KeptInv, ReplayBacked
  <2>3. ckpt'[replay.now.sample].row # NoRow
    BY <1>1, <1>5, <2>2
    DEF ReplayPersist, Persisted, TypeOK, CkptOK, StoreOK, Answer, Ids, NoRow
  <2>4. \A s \in Sample : ckpt'[s].row = NoRow =>
          replay.now # [sample |-> s, n |-> ckpt'[s].answer]
    BY <2>3
  <2> QED
    BY <2>1, <2>2, <2>4 DEF ReplayFiled, Completed
<1>6. CASE UNCHANGED replay
  <2>1. ASSUME replay.pc = "remove", NEW s \in Sample, ckpt'[s].status = "completed",
               ckpt'[s].row = NoRow
        PROVE  replay.now # [sample |-> s, n |-> ckpt'[s].answer]
    <3>1. CASE /\ ckpt'[s].status = ckpt[s].status
               /\ ckpt'[s].row = ckpt[s].row /\ ckpt'[s].answer = ckpt[s].answer
      BY <1>1, <2>1, <3>1 DEF ReplayFiled, Completed
    <3>2. CASE /\ capture[s].pc = "persist"
               /\ ckpt'[s].row = capture[s].row /\ ckpt'[s].answer = capture[s].n
      BY <1>1, <2>1, <3>2 DEF ReplayFiled, CaptureFiled
    <3> QED
      BY <1>1, <2>1, <3>1, <3>2, CkptChange
  <2> QED
    BY <1>1, <1>6, <2>1 DEF ReplayFiled, Completed
<1> QED
  BY <1>3, <1>4, <1>5, <1>6, ReplayWriters DEF Replay

LEMMA UnnamedStep ==
  ASSUME FiledInv, [Next]_vars
  PROVE  UnnamedIsFiled'
<1>1. KeptInv /\ CaptureFiled /\ ReplayFiled /\ UnnamedIsFiled
  BY DEF FiledInv
<1> SUFFICES ASSUME NEW s \in Sample, ckpt'[s].status = "completed", ckpt'[s].row = NoRow
             PROVE  [sample |-> s, n |-> ckpt'[s].answer] \in outbox'
  BY DEF UnnamedIsFiled, Completed
<1>2. CASE /\ ckpt'[s].status = ckpt[s].status
           /\ ckpt'[s].row = ckpt[s].row /\ ckpt'[s].answer = ckpt[s].answer
  <2>1. [sample |-> s, n |-> ckpt'[s].answer] \in outbox
    BY <1>1, <1>2 DEF UnnamedIsFiled, Completed
  <2>2. ReplayRemove => replay.now # [sample |-> s, n |-> ckpt'[s].answer]
    BY <1>1, <1>2 DEF ReplayRemove, ReplayFiled, Completed
  <2> QED
    BY <2>1, <2>2, OutboxWriters DEF WriteOutbox, ReplayRemove
<1>3. CASE /\ PersistSample(s) \/ CallbackThrows(s)
           /\ capture[s].pc = "persist"
           /\ ckpt'[s].row = capture[s].row /\ ckpt'[s].answer = capture[s].n
  <2>1. outbox' = outbox
    BY <1>3 DEF PersistSample, CallbackThrows, store
  <2> QED
    BY <1>1, <1>3, <2>1 DEF CaptureFiled
<1> QED
  BY <1>1, <1>2, <1>3, CkptChange

\* UnnamedIsFiled for every set of samples, whatever fails and crashes, as
\* long as no replay begins between a callback's two writes.
THEOREM UnnamedFiled ==
  ASSUME ~ReplayOvertakes
  PROVE  Spec => []UnnamedIsFiled
<1>1. FiledInv /\ [Next]_vars => FiledInv'
  BY KeptInvStep, AnswersOldStep, CaptureFiledStep, ReplayFiledStep, UnnamedStep DEF FiledInv, KeptInv
<1>2. FiledInv => UnnamedIsFiled
  BY DEF FiledInv
<1> QED
  BY <1>1, <1>2, FiledInvInit, PTL DEF Spec

-----------------------------------------------------------------------------
(* An answer is stored once, and once more for each failing call or crash. *)

CopyIds(a) == {id \in Ids : rows[id] = a}
Copies(a)  == Cardinality(CopyIds(a))
Excuses    == spent.crash + spent.fault

\* Rows are of answers that were captured.
RowsOld == \A id \in Ids : rows[id].n <= asked[rows[id].sample]

\* The files of a replay are in the outbox, and one of them is at hand.
FilesHeld ==
  /\ replay.files \subseteq outbox
  /\ replay.pc \in {"persist", "remove"} => replay.now \in replay.files

\* An answer that is to be stored or filed by its callback is in no file yet ...
OnItsWay(a, pc) == capture[a.sample].pc = pc /\ capture[a.sample].n = a.n
NotYetFiled ==
  \A a \in Answer : OnItsWay(a, "store") \/ OnItsWay(a, "file") => a \notin outbox

\* ... and it may be stored again from its file, unless the replay has just done
\* so.
AtHand(a) == replay.pc \in {"persist", "remove"} /\ replay.now = a
Owed(a)   == (a \in outbox /\ ~AtHand(a)) \/ OnItsWay(a, "file")

CopiesCounted ==
  \A a \in Answer :
    /\ Copies(a) <= 1 + Excuses
    /\ Owed(a) => Copies(a) <= Excuses
    /\ OnItsWay(a, "store") => Copies(a) = 0

CopyInv ==
  TypeOK /\ AnswersOld /\ RowsOld /\ FilesHeld /\ NotYetFiled /\ CopiesCounted

\* What a step does to the bounds: a failing call and a crash are counted.
LEMMA ExcusesGrow ==
  ASSUME TypeOK, [Next]_vars
  PROVE  /\ Excuses \in Nat /\ Excuses' \in Nat /\ Excuses <= Excuses'
         /\ Crash \/ ReplayFails \/ (\E s \in Sample : StoreFails(s)) => Excuses + 1 <= Excuses'
<1>1. spent.crash \in Nat /\ spent.fault \in Nat
  BY DEF TypeOK, BoundsOK
<1>2. UNCHANGED spent \/ Fault \/ \E kind \in {"again", "crash", "retry"} : Event(kind)
  BY DEF Next, vars, Capture, Replay, Analysis, Captured, StoreSample, StoreFails, WriteOutbox,
       PersistSample, RequestAnalysis, CallbackThrows, ListOutbox, ReplayStore, ReplayPersist,
       ReplayRemove, ReplayFails, MarkRunning, ReadScope, Judge, Settle, WriteVerdict, AnalysisThrows,
       Recover, RetryRead, RetryWrite, Crash
<1>3. Fault => spent'.fault = spent.fault + 1 /\ spent'.crash = spent.crash
  BY DEF Fault, TypeOK, BoundsOK
<1>4. /\ Event("crash") => spent'.fault = spent.fault /\ spent'.crash = spent.crash + 1
      /\ Event("again") \/ Event("retry") => spent'.fault = spent.fault /\ spent'.crash = spent.crash
  BY DEF Event, TypeOK, BoundsOK
<1>5. Crash \/ ReplayFails \/ (\E s \in Sample : StoreFails(s)) => Fault \/ Event("crash")
  BY DEF Crash, ReplayFails, StoreFails
<1> QED
  BY <1>1, <1>2, <1>3, <1>4, <1>5 DEF Excuses

\* The copies of an answer are finitely many.
LEMMA CopiesFinite ==
  ASSUME TypeOK, NEW a
  PROVE  IsFiniteSet(CopyIds(a)) /\ Copies(a) \in Nat
<1>1. IsFiniteSet(Ids)
  BY FS_Interval DEF Ids, TypeOK, StoreOK
<1>2. IsFiniteSet(CopyIds(a))
  BY <1>1, FS_Subset DEF CopyIds
<1> QED
  BY <1>2, FS_CardinalityType DEF Copies

\* Storing an answer makes one copy more of it, and of no other.
LEMMA StoredCopies ==
  ASSUME TypeOK, NEW b \in Answer, rows' = Stored(b.sample, b.n), NEW a \in Answer
  PROVE  Copies(a)' = IF a = b THEN Copies(a) + 1 ELSE Copies(a)
<1>1. b.sample \in Sample /\ b.n \in Nat /\ b = [sample |-> b.sample, n |-> b.n]
  BY DEF Answer
<1>2. /\ Len(rows) \in Nat /\ Len(rows') = Len(rows) + 1
      /\ \A id \in Ids : rows'[id] = rows[id]
      /\ rows'[FreshId] = b
  BY <1>1, StoredRow DEF TypeOK, StoreOK
<1>3. Ids' = Ids \cup {FreshId} /\ FreshId \notin Ids
  BY <1>2 DEF Ids, FreshId
<1>4. CASE a = b
  <2>1. CopyIds(a)' = CopyIds(a) \cup {FreshId} /\ FreshId \notin CopyIds(a)
    BY <1>2, <1>3, <1>4 DEF CopyIds
  <2> QED
    BY <1>4, <2>1, CopiesFinite, FS_AddElement DEF Copies
<1>5. CASE a # b
  <2>1. CopyIds(a)' = CopyIds(a)
    BY <1>2, <1>3, <1>5 DEF CopyIds
  <2> QED
    BY <1>5, <2>1 DEF Copies
<1> QED
  BY <1>4, <1>5

\* Who stores an answer.
Storing(b) ==
  /\ rows' = Stored(b.sample, b.n)
  /\ \/ OnItsWay(b, "store") /\ (StoreSample(b.sample) \/ StoreFails(b.sample))
     \/ /\ replay.pc = "store" /\ b \in replay.files
        /\ \/ ReplayStore /\ replay'.pc = "persist" /\ replay'.now = b
           \/ ReplayFails

LEMMA WhoStores ==
  ASSUME TypeOK, [Next]_vars
  PROVE  \/ UNCHANGED rows
         \/ \E b \in Answer : Storing(b)
<1>1. ASSUME NEW s \in Sample, StoreSample(s) \/ StoreFails(s), rows' # rows
      PROVE  \E b \in Answer : /\ rows' = Stored(b.sample, b.n) /\ OnItsWay(b, "store")
                               /\ StoreSample(b.sample) \/ StoreFails(b.sample)
  <2>1. [sample |-> s, n |-> capture[s].n] \in Answer
    BY DEF TypeOK, CaptureOK, Answer
  <2>2. rows' = Stored(s, capture[s].n) /\ capture[s].pc = "store"
    BY <1>1 DEF StoreSample, StoreFails, StoreThrows
  <2> QED
    BY <1>1, <2>1, <2>2 DEF OnItsWay
<1>2. CASE ReplayStore
  <2>1. PICK b \in replay.files : /\ rows' = Stored(b.sample, b.n)
                                  /\ replay' = [replay EXCEPT !.pc = "persist", !.now = b, !.row = FreshId]
    BY <1>2 DEF ReplayStore
  <2>2. b \in Answer /\ replay'.pc = "persist" /\ replay'.now = b
    BY <2>1 DEF TypeOK, ReplayOK
  <2> QED
    BY <1>2, <2>1, <2>2 DEF ReplayStore, Storing
<1>3. ASSUME ReplayFails, rows' # rows
      PROVE  \E b \in Answer : rows' = Stored(b.sample, b.n) /\ replay.pc = "store" /\ b \in replay.files
  BY <1>3 DEF ReplayFails, StoreThrows, TypeOK, ReplayOK
<1> QED
  BY <1>1, <1>2, <1>3, RowsWriters DEF Storing

\* How a callback comes to store or to file an answer.
LEMMA WayComes ==
  ASSUME TypeOK, [Next]_vars, NEW a \in Answer
  PROVE  /\ OnItsWay(a, "store")' =>
              (OnItsWay(a, "store") /\ ~StoreSample(a.sample) /\ ~StoreFails(a.sample))
              \/ (Captured(a.sample) /\ a.n = asked[a.sample] + 1)
         /\ OnItsWay(a, "file")' =>
              (OnItsWay(a, "file") /\ ~WriteOutbox(a.sample))
              \/ (StoreFails(a.sample) /\ OnItsWay(a, "store"))
<1> USE DEF OnItsWay, TypeOK, CaptureOK, Answer, Idle
<1>1. CASE UNCHANGED <<asked, capture>>
  BY <1>1 DEF StoreSample, StoreFails, WriteOutbox
<1>2. CASE Crash
  BY <1>2 DEF Crash
<1>3. ASSUME NEW s \in Sample, s # a.sample, Captured(s) \/ Capture(s) \/ StoreFails(s) \/ CallbackThrows(s)
      PROVE  capture'[a.sample] = capture[a.sample]
  BY <1>3 DEF Capture, Captured, StoreSample, StoreFails, WriteOutbox, PersistSample,
       RequestAnalysis, CallbackThrows
<1>4. ASSUME capture'[a.sample] = capture[a.sample]
      PROVE  capture[a.sample].pc \in {"store", "file"} =>
               ~StoreSample(a.sample) /\ ~StoreFails(a.sample) /\ ~WriteOutbox(a.sample)
  BY <1>4 DEF StoreSample, StoreFails, WriteOutbox
<1>5. CASE Captured(a.sample)
  BY <1>5 DEF Captured
<1>6. CASE StoreSample(a.sample) \/ WriteOutbox(a.sample) \/ PersistSample(a.sample)
           \/ RequestAnalysis(a.sample) \/ CallbackThrows(a.sample)
  BY <1>6 DEF StoreSample, WriteOutbox, PersistSample, RequestAnalysis, CallbackThrows
<1>7. CASE StoreFails(a.sample)
  BY <1>7 DEF StoreFails
<1> QED
  BY <1>1, <1>2, <1>3, <1>4, <1>5, <1>6, <1>7, CaptureWriters DEF Capture

\* Captured answers are counted.
LEMMA AskedGrows ==
  ASSUME TypeOK, [Next]_vars
  PROVE  \A s \in Sample : asked[s] \in Nat /\ asked'[s] \in Nat /\ asked[s] <= asked'[s]
<1>1. TypeOK'
  BY TypeStep
<1>2. UNCHANGED asked \/ \E s \in Sample : Captured(s)
  BY CaptureWriters DEF Crash, Capture, StoreSample, StoreFails, WriteOutbox, PersistSample, RequestAnalysis,
       CallbackThrows
<1> QED
  BY <1>1, <1>2 DEF Captured, TypeOK, CaptureOK

LEMMA RowsOldStep ==
  ASSUME CopyInv, [Next]_vars
  PROVE  RowsOld'
<1>1. TypeOK /\ AnswersOld /\ RowsOld /\ FilesHeld
  BY DEF CopyInv
<1>2. \A b \in Answer : b.sample \in Sample /\ b.n \in Nat /\ b = [sample |-> b.sample, n |-> b.n]
  BY DEF Answer
<1>3. \A id \in Ids : rows[id] \in Answer
  BY <1>1 DEF TypeOK, StoreOK, Ids
<1>4. CASE UNCHANGED rows
  BY <1>1, <1>2, <1>3, <1>4, AskedGrows DEF RowsOld, Ids
<1>5. ASSUME NEW b \in Answer, rows' = Stored(b.sample, b.n), b.n <= asked[b.sample]
      PROVE  RowsOld'
  <2>1. Ids' = Ids \cup {FreshId} /\ rows'[FreshId] = b /\ \A id \in Ids : rows'[id] = rows[id]
    BY <1>1, <1>2, <1>5, StoredRow DEF TypeOK, StoreOK, Ids, FreshId
  <2> QED
    BY <1>1, <1>2, <1>3, <1>5, <2>1, AskedGrows DEF RowsOld
<1>6. ASSUME NEW b \in Answer, OnItsWay(b, "store") \/ b \in replay.files
      PROVE  b.n <= asked[b.sample]
  BY <1>1, <1>2, <1>6 DEF OnItsWay, AnswersOld
<1> QED
  BY <1>1, <1>4, <1>5, <1>6, WhoStores DEF Storing

LEMMA FilesHeldStep ==
  ASSUME CopyInv, [Next]_vars
  PROVE  FilesHeld'
<1>1. TypeOK /\ FilesHeld
  BY DEF CopyInv
<1> USE DEF FilesHeld, TypeOK, ReplayOK, NoReplay
<1>2. CASE UNCHANGED replay
  <2>1. ASSUME ReplayRemove PROVE FALSE
    <3>1. replay.pc = "remove" /\ replay'.pc \in {"idle", "store"}
      BY <2>1 DEF ReplayRemove
    <3> QED
      BY <1>2, <3>1
  <2>2. outbox \subseteq outbox'
    BY <2>1, OutboxWriters DEF WriteOutbox
  <2> QED
    BY <1>1, <1>2, <2>2
<1>3. CASE ListOutbox \/ ReplayStore \/ ReplayPersist
  BY <1>1, <1>3 DEF ListOutbox, ReplayStore, ReplayPersist, store
<1>4. CASE ReplayRemove
  <2>1. outbox' = outbox \ {replay.now} /\ replay.files \ {replay.now} \subseteq outbox'
    BY <1>1, <1>4 DEF ReplayRemove
  <2>2. replay'.files \subseteq replay.files \ {replay.now} /\ replay'.pc \notin {"persist", "remove"}
    BY <1>1, <1>4 DEF ReplayRemove
  <2> QED
    BY <2>1, <2>2
<1>5. CASE ReplayFails \/ Crash
  BY <1>5 DEF ReplayFails, Crash
<1> QED
  BY <1>2, <1>3, <1>4, <1>5, ReplayWriters DEF Replay

LEMMA NotYetFiledStep ==
  ASSUME CopyInv, [Next]_vars
  PROVE  NotYetFiled'
<1>1. TypeOK /\ AnswersOld /\ NotYetFiled
  BY DEF CopyInv
<1> SUFFICES ASSUME NEW a \in Answer, OnItsWay(a, "store")' \/ OnItsWay(a, "file")'
             PROVE  a \notin outbox'
  BY DEF NotYetFiled
<1>2. a.sample \in Sample /\ a.n \in Nat /\ a = [sample |-> a.sample, n |-> a.n]
  BY DEF Answer
<1>3. a \notin outbox
  <2>1. CASE a.n = asked[a.sample] + 1
    BY <1>1, <1>2, <2>1 DEF AnswersOld, TypeOK, CaptureOK
  <2>2. CASE OnItsWay(a, "store") \/ OnItsWay(a, "file")
    BY <1>1, <2>2 DEF NotYetFiled
  <2> QED
    BY <1>1, <2>1, <2>2, WayComes
<1>4. ASSUME NEW s \in Sample, WriteOutbox(s), s = a.sample
      PROVE  capture'[s].pc = "persist"
  BY <1>1, <1>4 DEF WriteOutbox, TypeOK, CaptureOK
<1>5. ASSUME NEW s \in Sample, WriteOutbox(s), s # a.sample
      PROVE  a \notin outbox'
  BY <1>2, <1>3, <1>5 DEF WriteOutbox
<1> QED
  BY <1>3, <1>4, <1>5, OutboxWriters DEF ReplayRemove, OnItsWay

\* How an answer comes to be stored again.
LEMMA OwedComes ==
  ASSUME TypeOK, FilesHeld, [Next]_vars, NEW a \in Answer, Owed(a)'
  PROVE  \/ Owed(a)
         \/ OnItsWay(a, "store") /\ StoreFails(a.sample)
         \/ ReplayFails \/ Crash
<1>1. CASE OnItsWay(a, "file")'
  BY <1>1, WayComes DEF Owed
<1>2. CASE a \in outbox' /\ ~AtHand(a)'
  <2>1. ASSUME a \notin outbox PROVE OnItsWay(a, "file")
    <3>1. PICK s \in Sample : WriteOutbox(s)
      BY <1>2, <2>1, OutboxWriters DEF ReplayRemove
    <3>2. a = [sample |-> s, n |-> capture[s].n] /\ capture[s].pc = "file"
      BY <1>2, <2>1, <3>1 DEF WriteOutbox
    <3> QED
      BY <3>2 DEF OnItsWay
  <2>2. ASSUME a \in outbox, AtHand(a) PROVE ReplayFails \/ Crash
    <3>1. ~ReplayRemove
      BY <1>2, <2>2 DEF ReplayRemove, AtHand
    <3>2. ~ListOutbox /\ ~ReplayStore
      BY <2>2 DEF ListOutbox, ReplayStore, AtHand
    <3>3. ~UNCHANGED replay /\ ~ReplayPersist
      BY <1>2, <2>2 DEF AtHand, ReplayPersist, TypeOK, ReplayOK
    <3> QED
      BY <3>1, <3>2, <3>3, ReplayWriters DEF Replay
  <2> QED
    BY <2>1, <2>2 DEF Owed
<1> QED
  BY <1>1, <1>2 DEF Owed

\* An answer that was just captured has no row yet.
LEMMA NewHasNoCopy ==
  ASSUME TypeOK, RowsOld, NEW a \in Answer, a.n = asked[a.sample] + 1
  PROVE  Copies(a) = 0
<1>1. a.sample \in Sample /\ asked[a.sample] \in Nat
  BY DEF TypeOK, CaptureOK, Answer
<1>2. CopyIds(a) = {}
  BY <1>1 DEF CopyIds, RowsOld
<1> QED
  BY <1>2, FS_EmptySet DEF Copies

\* (Arithmetic with primes on both sides is given to the prover as a lemma.)
LEMMA OneMore ==
  \A c, d, e, f \in Nat : (e <= f /\ ((d = c /\ c <= 1 + e) \/ (d = c + 1 /\ c <= e))) => d <= 1 + f
OBVIOUS

\* The bounds hold after every step.
LEMMA CopiesCountedStep ==
  ASSUME CopyInv, [Next]_vars, NotYetFiled'
  PROVE  CopiesCounted'
<1>1. TypeOK /\ RowsOld /\ FilesHeld /\ NotYetFiled /\ CopiesCounted
  BY DEF CopyInv
<1>2. TypeOK'
  BY <1>1, TypeStep
<1> SUFFICES ASSUME NEW a \in Answer
             PROVE  /\ Copies(a)' <= 1 + Excuses'
                    /\ Owed(a)' => Copies(a)' <= Excuses'
                    /\ OnItsWay(a, "store")' => Copies(a)' = 0
  BY DEF CopiesCounted
<1> DEFINE C == Copies(a)
           E == Excuses
<1>3. /\ E \in Nat /\ E' \in Nat /\ E <= E'
      /\ Crash \/ ReplayFails \/ (\E s \in Sample : StoreFails(s)) => E + 1 <= E'
  BY <1>1, ExcusesGrow
<1>4. C \in Nat /\ C <= 1 + E /\ (Owed(a) => C <= E) /\ (OnItsWay(a, "store") => C = 0)
  BY <1>1, CopiesFinite DEF CopiesCounted
<1>5. a.sample \in Sample
  BY DEF Answer
<1>6. OnItsWay(a, "store")' => C = 0 /\ ~StoreSample(a.sample) /\ ~StoreFails(a.sample)
  <2>1. ASSUME Captured(a.sample) PROVE ~StoreSample(a.sample) /\ ~StoreFails(a.sample)
    BY <2>1 DEF Captured, StoreSample, StoreFails
  <2> QED
    BY <1>1, <1>4, <2>1, WayComes, NewHasNoCopy
<1>7. Owed(a)' => Owed(a) \/ (OnItsWay(a, "store") /\ StoreFails(a.sample)) \/ ReplayFails \/ Crash
  BY <1>1, OwedComes
<1>8. CASE C' = C
  <2> HIDE DEF C, E
  <2>1. Owed(a)' => C <= E'
    BY <1>3, <1>4, <1>5, <1>7
  <2>2. C' <= 1 + E'
    <3>1. C' \in Nat
      BY <1>4, <1>8
    <3> QED
      BY <1>3, <1>4, <1>8, <3>1, OneMore
  <2>3. (Owed(a)' => C' <= E') /\ (OnItsWay(a, "store")' => C' = 0)
    BY <1>6, <1>8, <2>1
  <2> QED
    BY <2>2, <2>3 DEF C, E
<1>9. CASE C' = C + 1 /\ OnItsWay(a, "store") /\ (StoreSample(a.sample) \/ StoreFails(a.sample))
  <2>1. a \notin outbox'
    BY <1>1, <1>9 DEF NotYetFiled, StoreSample, StoreFails
  <2>2. ~OnItsWay(a, "store")'
    BY <1>6, <1>9
  <2>3. StoreSample(a.sample) => ~OnItsWay(a, "file")'
    BY <1>1, <1>5 DEF StoreSample, OnItsWay, TypeOK, CaptureOK
  <2>4. StoreFails(a.sample) => E + 1 <= E'
    BY <1>3, <1>5
  <2>5. Owed(a)' => StoreFails(a.sample)
    BY <1>9, <2>1, <2>3 DEF Owed
  <2> HIDE DEF C, E
  <2>6. C' = 1
    BY <1>4, <1>9
  <2>7. C' <= 1 + E'
    <3>1. C' \in Nat /\ C <= E
      BY <1>3, <1>4, <1>9, <2>6
    <3> QED
      BY <1>3, <1>4, <1>9, <3>1, OneMore
  <2>8. StoreFails(a.sample) => C' <= E'
    BY <1>3, <2>4, <2>6
  <2> QED
    BY <2>2, <2>5, <2>7, <2>8 DEF C, E
<1>10. ASSUME C' = C + 1, replay.pc = "store", a \in replay.files, UNCHANGED outbox,
              ReplayFails \/ AtHand(a)'
       PROVE  C' <= 1 + E' /\ (Owed(a)' => C' <= E') /\ (OnItsWay(a, "store")' => C' = 0)
  <2>1. a \in outbox' /\ Owed(a)
    BY <1>1, <1>10 DEF FilesHeld, Owed, AtHand
  <2>2. ~OnItsWay(a, "store")' /\ ~OnItsWay(a, "file")'
    BY <2>1 DEF NotYetFiled
  <2>3. Owed(a)' => ReplayFails
    BY <1>10, <2>2 DEF Owed
  <2> HIDE DEF C, E
  <2>4. C <= E
    BY <1>4, <2>1
  <2>5. C' <= 1 + E'
    <3>1. C' \in Nat
      BY <1>4, <1>10
    <3> QED
      BY <1>3, <1>4, <1>10, <2>4, <3>1, OneMore
  <2>6. ReplayFails => C' <= E'
    BY <1>3, <1>4, <1>10, <2>4
  <2> QED
    BY <2>2, <2>3, <2>5, <2>6 DEF C, E
<1>11. UNCHANGED rows => C' = C
  BY DEF Copies, CopyIds, Ids
<1>12. ASSUME NEW b \in Answer, rows' = Stored(b.sample, b.n)
       PROVE  C' = IF a = b THEN C + 1 ELSE C
  BY <1>1, <1>12, StoredCopies
<1>13. ReplayStore \/ ReplayFails => UNCHANGED outbox
  BY DEF ReplayStore, ReplayFails
<1> HIDE DEF C, E
<1>14. C' <= 1 + E' /\ (Owed(a)' => C' <= E') /\ (OnItsWay(a, "store")' => C' = 0)
  <2>1. CASE UNCHANGED rows
    BY <1>8, <1>11, <2>1 DEF C, E
  <2>2. CASE \E b \in Answer : Storing(b)
    <3>1. PICK b \in Answer : Storing(b)
      BY <2>2
    <3>2. CASE a # b
      BY <1>8, <1>12, <3>1, <3>2 DEF C, E, Storing
    <3>3. CASE a = b
      <4>1. C' = C + 1
        BY <1>12, <3>1, <3>3 DEF Storing
      <4>2. CASE OnItsWay(a, "store") /\ (StoreSample(a.sample) \/ StoreFails(a.sample))
        BY <1>9, <4>1, <4>2 DEF C, E
      <4>3. CASE replay.pc = "store" /\ a \in replay.files /\ ReplayFails
        BY <1>10, <1>13, <4>1, <4>3
      <4>4. CASE replay.pc = "store" /\ a \in replay.files /\ ReplayStore
                 /\ replay'.pc = "persist" /\ replay'.now = a
        BY <1>10, <1>13, <4>1, <4>4 DEF AtHand
      <4> QED
        BY <3>1, <3>3, <4>2, <4>3, <4>4 DEF Storing
    <3> QED
      BY <3>2, <3>3
  <2> QED
    BY <1>1, <2>1, <2>2, WhoStores
<1> QED
  BY <1>14 DEF C, E

LEMMA CopyInit == Init => CopyInv
<1> SUFFICES ASSUME Init PROVE CopyInv
  OBVIOUS
<1>1. TypeOK
  BY TypeInit
<1>2. AnswersOld /\ RowsOld /\ FilesHeld /\ NotYetFiled
  BY DEF Init, AnswersOld, RowsOld, FilesHeld, NotYetFiled, OnItsWay, Ids, NoReplay, Idle, Answer
<1>3. CopiesCounted
  <2> SUFFICES ASSUME NEW a \in Answer PROVE Copies(a) = 0
    <3>1. Excuses \in Nat
      BY <1>1 DEF Excuses, TypeOK, BoundsOK
    <3>2. \A a \in Answer : Copies(a) = 0
      OBVIOUS
    <3>3. \A a \in Answer : Copies(a) <= 1 + Excuses /\ Copies(a) <= Excuses
      BY <3>1, <3>2
    <3> QED
      BY <3>2, <3>3 DEF CopiesCounted
  <2>1. CopyIds(a) = {}
    BY DEF Init, CopyIds, Ids
  <2> QED
    BY <2>1, FS_EmptySet DEF Copies
<1> QED
  BY <1>1, <1>2, <1>3 DEF CopyInv

LEMMA CopyStep ==
  ASSUME CopyInv, [Next]_vars
  PROVE  CopyInv'
<1>1. TypeOK /\ AnswersOld
  BY DEF CopyInv
<1> QED
  BY <1>1, TypeStep, AnswersOldStep, RowsOldStep, FilesHeldStep, NotYetFiledStep, CopiesCountedStep
  DEF CopyInv

\* An answer is stored again only because a call failed or the collector died,
\* however many samples, files, crashes and failures there are, and whether or
\* not a replay overtakes a checkpoint write.
THEOREM StoredOnce == Spec => []CopiesBounded
<1>1. CopyInv => CopiesBounded
  <2> SUFFICES ASSUME CopyInv, NEW s \in Sample, NEW k \in 1 .. asked[s]
               PROVE  Cardinality({id \in Ids : rows[id] = [sample |-> s, n |-> k]})
                        <= 1 + spent.crash + spent.fault
    BY DEF CopiesBounded
  <2> DEFINE a == [sample |-> s, n |-> k]
  <2>1. asked[s] \in Nat /\ spent.crash \in Nat /\ spent.fault \in Nat
    BY DEF CopyInv, TypeOK, CaptureOK, BoundsOK
  <2>2. a \in Answer
    BY <2>1 DEF Answer
  <2>3. Copies(a) <= 1 + Excuses
    BY <2>2 DEF CopyInv, CopiesCounted
  <2>4. Copies(a) = Cardinality({id \in Ids : rows[id] = [sample |-> s, n |-> k]})
    BY DEF Copies, CopyIds
  <2>5. Copies(a) \in Nat
    BY CopiesFinite DEF CopyInv
  <2> HIDE DEF a
  <2> QED
    BY <2>1, <2>3, <2>4, <2>5 DEF Excuses
<1> QED
  BY <1>1, CopyInit, CopyStep, PTL DEF Spec

=============================================================================
