-------------------------- MODULE ProviderRun_proofs --------------------------
(***************************************************************************)
(* For every set of prompts and all bounds on crashes, shutdowns, requests *)
(* and failing calls: the variables of ProviderRun keep their types, and a *)
(* cancel request is never missed by a job that goes on prompting.  Then,  *)
(* each under the conditions its theorem names: an accepted answer is not  *)
(* asked for again, a completed sample stays completed, and no open sample *)
(* is stranded.                                                            *)
(***************************************************************************)
EXTENDS ProviderRun, FiniteSetTheorems, TLAPS

-----------------------------------------------------------------------------
(* Types.                                                                  *)

\* What a step leaves alone keeps its type.
LEMMA Same ==
  ASSUME TypeOK
  PROVE  /\ UNCHANGED dbVars => RowsOK'
         /\ UNCHANGED queueVars => QueueOK'
         /\ UNCHANGED redisVars => RedisOK'
         /\ UNCHANGED agent => AgentOK'
         /\ UNCHANGED h => HandlerOK'
         /\ UNCHANGED cb => CallbackOK'
         /\ UNCHANGED webVars => RequestsOK'
         /\ UNCHANGED timerVars => TimersOK'
         /\ UNCHANGED spent => SpentOK'
<1>1. UNCHANGED dbVars => RowsOK'
  BY DEF TypeOK, RowsOK, dbVars
<1>2. UNCHANGED queueVars => QueueOK'
  BY DEF TypeOK, QueueOK, queueVars
<1>3. UNCHANGED redisVars => RedisOK'
  BY DEF TypeOK, RedisOK, redisVars
<1>4. UNCHANGED agent => AgentOK'
  BY DEF TypeOK, AgentOK
<1>5. UNCHANGED h => HandlerOK'
  BY DEF TypeOK, HandlerOK
<1>6. UNCHANGED cb => CallbackOK'
  BY DEF TypeOK, CallbackOK
<1>7. UNCHANGED webVars => RequestsOK'
  BY DEF TypeOK, RequestsOK, webVars
<1>8. UNCHANGED timerVars => TimersOK'
  BY DEF TypeOK, TimersOK, timerVars
<1>9. UNCHANGED spent => SpentOK'
  BY DEF TypeOK, SpentOK
<1> QED
  BY <1>1, <1>2, <1>3, <1>4, <1>5, <1>6, <1>7, <1>8, <1>9

\* The start and dispatch requests keep every variable in its type.
LEMMA StartTyped ==
  ASSUME TypeOK, Start \/ Dispatch
  PROVE  TypeOK'
<1>1. CASE StartEnqueue
  <2>1. QueueOK'
    BY <1>1 DEF TypeOK, QueueOK, StartEnqueue, Enqueue, queueVars
  <2>2. RequestsOK'
    BY <1>1 DEF TypeOK, RequestsOK, StartEnqueue
  <2> QED
    BY <1>1, <2>1, <2>2, Same DEF TypeOK, StartEnqueue
<1>2. CASE StartMark
  <2>1. RowsOK'
    BY <1>2 DEF TypeOK, RowsOK, StartMark, RunStatus
  <2>2. RequestsOK'
    BY <1>2 DEF TypeOK, RequestsOK, StartMark
  <2> QED
    BY <1>2, <2>1, <2>2, Same DEF TypeOK, StartMark
<1>3. CASE DispatchClaim
  <2>1. RowsOK'
    BY <1>3 DEF TypeOK, RowsOK, DispatchClaim, RunStatus
  <2>2. TimersOK'
    BY <1>3 DEF TypeOK, TimersOK, DispatchClaim
  <2> QED
    BY <1>3, <2>1, <2>2, Same DEF TypeOK, DispatchClaim
<1>4. CASE DispatchEnqueue
  <2>1. QueueOK'
    BY <1>4 DEF TypeOK, QueueOK, DispatchEnqueue, Enqueue, queueVars
  <2>2. TimersOK'
    BY <1>4 DEF TypeOK, TimersOK, DispatchEnqueue
  <2> QED
    BY <1>4, <2>1, <2>2, Same DEF TypeOK, DispatchEnqueue
<1>5. CASE DispatchMark
  <2>1. RowsOK'
    BY <1>5 DEF TypeOK, RowsOK, DispatchMark, RunStatus
  <2>2. TimersOK'
    BY <1>5 DEF TypeOK, TimersOK, DispatchMark
  <2> QED
    BY <1>5, <2>1, <2>2, Same DEF TypeOK, DispatchMark
<1> QED
  BY <1>1, <1>2, <1>3, <1>4, <1>5 DEF Start, Dispatch

\* So do the worker's steps on the queue.
LEMMA WorkerTyped ==
  ASSUME TypeOK, \E j \in JobId : Pick(j) \/ Stalled(j)
  PROVE  TypeOK'
<1>1. ASSUME NEW j \in JobId, Pick(j) PROVE TypeOK'
  <2>1. QueueOK'
    BY <1>1 DEF TypeOK, QueueOK, Pick
  <2>2. HandlerOK'
    BY <1>1 DEF TypeOK, HandlerOK, Pick, IdleHandler, HandlerPc, RunStatus
  <2> QED
    BY <1>1, <2>1, <2>2, Same DEF TypeOK, Pick
<1>2. ASSUME NEW j \in JobId, Stalled(j) PROVE TypeOK'
  <2>1. QueueOK'
    BY <1>2 DEF TypeOK, QueueOK, Stalled
  <2> QED
    BY <1>2, <2>1, Same DEF TypeOK, Stalled
<1> QED
  BY <1>1, <1>2

\* So do the steps of the handler.
LEMMA HandlerTyped ==
  ASSUME TypeOK, Handler
  PROVE  TypeOK'
<1>1. \A S \in SUBSET Prompt : Cardinality(S) \in Nat
  BY RunAssumption, FS_Subset, FS_CardinalityType
<1>2. h.starts + 1 \in Nat
  BY DEF TypeOK, HandlerOK
<1>3. CASE Resume
  <2>1. HandlerOK'
    BY <1>3, <1>1 DEF TypeOK, HandlerOK, Resume, QueueOK, HandlerPc, OpenPrompts
  <2> QED
    BY <1>3, <2>1, Same DEF TypeOK, Resume
<1>4. CASE Unavailable
  <2>1. HandlerOK'
    BY <1>4 DEF TypeOK, HandlerOK, Unavailable, HandlerPc
  <2> QED
    BY <1>4, <2>1, Same DEF TypeOK, Unavailable
<1>5. CASE Register
  <2>1. HandlerOK'
    BY <1>5 DEF TypeOK, HandlerOK, Register, HandlerPc
  <2> QED
    BY <1>5, <2>1, Same DEF TypeOK, Register
<1>6. CASE CheckKey
  <2>1. HandlerOK'
    BY <1>6 DEF TypeOK, HandlerOK, CheckKey, HandlerPc
  <2> QED
    BY <1>6, <2>1, Same DEF TypeOK, CheckKey
<1>7. ASSUME NEW p \in Prompt, BeginAttempt(p) PROVE TypeOK'
  <2>1. HandlerOK'
    BY <1>7, <1>2 DEF TypeOK, HandlerOK, BeginAttempt
  <2>2. CallbackOK'
    BY <1>7 DEF TypeOK, CallbackOK, BeginAttempt, Report, CkptStatus, Open, Closed
  <2> QED
    BY <1>7, <2>1, <2>2, Same DEF TypeOK, BeginAttempt
<1>8. ASSUME NEW b \in BOOLEAN, FailAttempt(b) PROVE TypeOK'
  <2>1. HandlerOK'
    BY <1>8 DEF TypeOK, HandlerOK, FailAttempt
  <2>2. CallbackOK'
    BY <1>8 DEF TypeOK, CallbackOK, FailAttempt, HandlerOK, Report, CkptStatus, Open, Closed
  <2> QED
    BY <1>8, <2>1, <2>2, Same DEF TypeOK, FailAttempt
<1>9. CASE AnswerAttempt
  <2>1. HandlerOK'
    BY <1>9 DEF TypeOK, HandlerOK, AnswerAttempt
  <2>2. CallbackOK'
    BY <1>9 DEF TypeOK, CallbackOK, AnswerAttempt, HandlerOK, Report, CkptStatus, Open, Closed
  <2> QED
    BY <1>9, <2>1, <2>2, Same DEF TypeOK, AnswerAttempt
<1>10. CASE SampleComplete
  <2>1. HandlerOK'
    BY <1>10 DEF TypeOK, HandlerOK, SampleComplete
  <2>2. CallbackOK'
    BY <1>10 DEF TypeOK, CallbackOK, SampleComplete, HandlerOK, Report, CkptStatus, Open, Closed
  <2> QED
    BY <1>10, <2>1, <2>2, Same DEF TypeOK, SampleComplete
<1>11. ASSUME NEW b \in BOOLEAN, EndPrompts(b) PROVE TypeOK'
  <2>1. HandlerOK'
    BY <1>11 DEF TypeOK, HandlerOK, EndPrompts, HandlerPc
  <2> QED
    BY <1>11, <2>1, Same DEF TypeOK, EndPrompts
<1>12. CASE SeeAbort
  <2>1. HandlerOK'
    BY <1>12 DEF TypeOK, HandlerOK, SeeAbort, HandlerPc
  <2>2. CallbackOK'
    BY <1>12 DEF TypeOK, CallbackOK, SeeAbort, NoCallback, CkptStatus, Open
  <2> QED
    BY <1>12, <2>1, <2>2, Same DEF TypeOK, SeeAbort
<1>13. CASE Blame
  <2>1. RowsOK'
    BY <1>13 DEF TypeOK, RowsOK, Blame, CkptStatus, Closed
  <2>2. HandlerOK'
    BY <1>13 DEF TypeOK, HandlerOK, Blame, HandlerPc
  <2> QED
    BY <1>13, <2>1, <2>2, Same DEF TypeOK, Blame
<1>14. CASE SweepRead
  <2>1. HandlerOK'
    BY <1>14 DEF TypeOK, HandlerOK, SweepRead, QueueOK, OpenPrompts, HandlerPc
  <2> QED
    BY <1>14, <2>1, Same DEF TypeOK, SweepRead
<1>15. CASE SweepWrite
  <2>1. RowsOK'
    BY <1>15 DEF TypeOK, RowsOK, SweepWrite, SetStatus, CkptStatus, Closed
  <2>2. HandlerOK'
    BY <1>15 DEF TypeOK, HandlerOK, SweepWrite, HandlerPc
  <2> QED
    BY <1>15, <2>1, <2>2, Same DEF TypeOK, SweepWrite
<1>16. CASE Tally
  <2>1. HandlerOK'
    BY <1>16 DEF TypeOK, HandlerOK, Tally, RunVerdict, RunStatus, HandlerPc
  <2> QED
    BY <1>16, <2>1, Same DEF TypeOK, Tally
<1>17. CASE Settle
  <2>1. RowsOK'
    BY <1>17 DEF TypeOK, RowsOK, Settle, HandlerOK
  <2>2. HandlerOK'
    BY <1>17 DEF TypeOK, HandlerOK, Settle, HandlerPc
  <2> QED
    BY <1>17, <2>1, <2>2, Same DEF TypeOK, Settle
<1>18. CASE Ack
  <2>1. QueueOK'
    BY <1>18 DEF TypeOK, QueueOK, Ack
  <2>2. HandlerOK'
    BY <1>18, RunAssumption DEF TypeOK, HandlerOK, Ack, IdleHandler, HandlerPc, JobId, Base, RunStatus
  <2> QED
    BY <1>18, <2>1, <2>2, Same DEF TypeOK, Ack
<1>19. CASE Requeue
  <2>1. RowsOK'
    BY <1>19 DEF TypeOK, RowsOK, Requeue, CkptStatus, Open, RunStatus
  <2>2. HandlerOK'
    BY <1>19 DEF TypeOK, HandlerOK, Requeue, HandlerPc
  <2> QED
    BY <1>19, <2>1, <2>2, Same DEF TypeOK, Requeue
<1>20. CASE Reenqueue
  <2>1. QueueOK'
    BY <1>20 DEF TypeOK, QueueOK, Reenqueue, HandlerOK, Enqueue, queueVars
  <2>2. HandlerOK'
    BY <1>20 DEF TypeOK, HandlerOK, Reenqueue, HandlerPc
  <2>3. SpentOK'
    BY <1>20 DEF TypeOK, SpentOK, Reenqueue, Use
  <2> QED
    BY <1>20, <2>1, <2>2, <2>3, Same DEF TypeOK, Reenqueue
<1> QED
  BY <1>3, <1>4, <1>5, <1>6, <1>7, <1>8, <1>9, <1>10, <1>11, <1>12, <1>13, <1>14, <1>15, <1>16,
       <1>17, <1>18, <1>19, <1>20 DEF Handler

\* So do the callbacks, those left behind included.
LEMMA CallbackTyped ==
  ASSUME TypeOK, NEW w \in {"live", "zombie"}, Callback(w)
  PROVE  TypeOK'
<1>1. CASE AttemptRead(w)
  <2>1. CallbackOK'
    BY <1>1 DEF TypeOK, CallbackOK, AttemptRead, EndCallback, NoCallback, CkptStatus, Open
  <2>2. HandlerOK'
    BY <1>1 DEF TypeOK, HandlerOK, AttemptRead, EndCallback
  <2> QED
    BY <1>1, <2>1, <2>2, Same DEF TypeOK, AttemptRead
<1>2. CASE AttemptWrite(w)
  <2>1. RowsOK'
    BY <1>2 DEF TypeOK, RowsOK, AttemptWrite, CallbackOK, Touch
  <2>2. CallbackOK'
    BY <1>2 DEF TypeOK, CallbackOK, AttemptWrite, EndCallback, NoCallback, CkptStatus, Open
  <2>3. HandlerOK'
    BY <1>2 DEF TypeOK, HandlerOK, AttemptWrite, EndCallback
  <2> QED
    BY <1>2, <2>1, <2>2, <2>3, Same DEF TypeOK, AttemptWrite
<1>3. CASE SampleIsolation(w)
  <2>1. CallbackOK'
    BY <1>3 DEF TypeOK, CallbackOK, SampleIsolation
  <2>2. HandlerOK'
    BY <1>3 DEF TypeOK, HandlerOK, SampleIsolation
  <2> QED
    BY <1>3, <2>1, <2>2, Same DEF TypeOK, SampleIsolation
<1>4. CASE SampleReject(w)
  <2>1. RowsOK'
    BY <1>4 DEF TypeOK, RowsOK, SampleReject, Touch, CkptStatus, Closed
  <2>2. CallbackOK'
    BY <1>4 DEF TypeOK, CallbackOK, SampleReject, EndCallback, NoCallback, CkptStatus, Open
  <2>3. HandlerOK'
    BY <1>4 DEF TypeOK, HandlerOK, SampleReject, EndCallback
  <2> QED
    BY <1>4, <2>1, <2>2, <2>3, Same DEF TypeOK, SampleReject
<1>5. CASE SamplePersist(w)
  <2>1. RowsOK'
    BY <1>5 DEF TypeOK, RowsOK, SamplePersist, Touch, CkptStatus
  <2>2. CallbackOK'
    BY <1>5 DEF TypeOK, CallbackOK, SamplePersist, EndCallback, NoCallback, CkptStatus, Open
  <2>3. HandlerOK'
    BY <1>5 DEF TypeOK, HandlerOK, SamplePersist, EndCallback
  <2> QED
    BY <1>5, <2>1, <2>2, <2>3, Same DEF TypeOK, SamplePersist
<1> QED
  BY <1>1, <1>2, <1>3, <1>4, <1>5 DEF Callback

\* So do a cancel request and the delivery of its message.
LEMMA CancelTyped ==
  ASSUME TypeOK, CancelLookup \/ Cancel \/ DeliverStop
  PROVE  TypeOK'
<1>1. CASE CancelLookup
  <2>1. RequestsOK'
    BY <1>1 DEF TypeOK, RequestsOK, CancelLookup
  <2>2. SpentOK'
    BY <1>1 DEF TypeOK, SpentOK, CancelLookup, Use
  <2> QED
    BY <1>1, <2>1, <2>2, Same DEF TypeOK, CancelLookup
<1>2. CASE CancelSetKey
  <2>1. RedisOK'
    BY <1>2 DEF TypeOK, RedisOK, CancelSetKey
  <2>2. RequestsOK'
    BY <1>2 DEF TypeOK, RequestsOK, CancelSetKey
  <2> QED
    BY <1>2, <2>1, <2>2, Same DEF TypeOK, CancelSetKey
<1>3. CASE CancelGetState
  <2>1. RequestsOK'
    BY <1>3 DEF TypeOK, RequestsOK, CancelGetState
  <2> QED
    BY <1>3, <2>1, Same DEF TypeOK, CancelGetState
<1>4. CASE CancelRemove
  <2>1. QueueOK'
    BY <1>4 DEF TypeOK, QueueOK, CancelRemove
  <2>2. RequestsOK'
    BY <1>4 DEF TypeOK, RequestsOK, CancelRemove
  <2> QED
    BY <1>4, <2>1, <2>2, Same DEF TypeOK, CancelRemove
<1>5. CASE CancelPublish
  <2>1. RedisOK'
    BY <1>5 DEF TypeOK, RedisOK, CancelPublish
  <2>2. RequestsOK'
    BY <1>5 DEF TypeOK, RequestsOK, CancelPublish
  <2> QED
    BY <1>5, <2>1, <2>2, Same DEF TypeOK, CancelPublish
<1>6. CASE DeliverStop
  <2>1. RedisOK'
    BY <1>6 DEF TypeOK, RedisOK, DeliverStop
  <2>2. HandlerOK'
    BY <1>6 DEF TypeOK, HandlerOK, DeliverStop
  <2> QED
    BY <1>6, <2>1, <2>2, Same DEF TypeOK, DeliverStop
<1> QED
  BY <1>1, <1>2, <1>3, <1>4, <1>5, <1>6 DEF Cancel

\* So does a retry request.
LEMMA RetryTyped ==
  ASSUME TypeOK, RetrySelect \/ Retry
  PROVE  TypeOK'
<1>1. CASE RetrySelect
  <2>1. RequestsOK'
    BY <1>1 DEF TypeOK, RequestsOK, RetrySelect
  <2>2. SpentOK'
    BY <1>1 DEF TypeOK, SpentOK, RetrySelect, Use
  <2> QED
    BY <1>1, <2>1, <2>2, Same DEF TypeOK, RetrySelect
<1>2. CASE RetryReopen
  <2>1. RowsOK'
    BY <1>2 DEF TypeOK, RowsOK, RetryReopen, Touch, SetStatus, CkptStatus, Open
  <2>2. RequestsOK'
    BY <1>2 DEF TypeOK, RequestsOK, RetryReopen
  <2> QED
    BY <1>2, <2>1, <2>2, Same DEF TypeOK, RetryReopen
<1>3. CASE RetryRemove
  <2>1. QueueOK'
    BY <1>3 DEF TypeOK, QueueOK, RetryRemove
  <2>2. RequestsOK'
    BY <1>3 DEF TypeOK, RequestsOK, RetryRemove
  <2> QED
    BY <1>3, <2>1, <2>2, Same DEF TypeOK, RetryRemove
<1>4. CASE RetryClear
  <2>1. RedisOK'
    BY <1>4 DEF TypeOK, RedisOK, RetryClear
  <2>2. RequestsOK'
    BY <1>4 DEF TypeOK, RequestsOK, RetryClear
  <2> QED
    BY <1>4, <2>1, <2>2, Same DEF TypeOK, RetryClear
<1>5. CASE RetryEnqueue
  <2>1. QueueOK'
    BY <1>5 DEF TypeOK, QueueOK, RetryEnqueue, RequestsOK, Enqueue, queueVars
  <2>2. RequestsOK'
    BY <1>5 DEF TypeOK, RequestsOK, RetryEnqueue
  <2>3. SpentOK'
    BY <1>5 DEF TypeOK, SpentOK, RetryEnqueue, Use
  <2> QED
    BY <1>5, <2>1, <2>2, <2>3, Same DEF TypeOK, RetryEnqueue
<1>6. CASE RetryMark
  <2>1. RowsOK'
    BY <1>6 DEF TypeOK, RowsOK, RetryMark, RunStatus
  <2>2. RequestsOK'
    BY <1>6 DEF TypeOK, RequestsOK, RetryMark
  <2> QED
    BY <1>6, <2>1, <2>2, Same DEF TypeOK, RetryMark
<1> QED
  BY <1>1, <1>2, <1>3, <1>4, <1>5, <1>6 DEF Retry

\* So does a recovery pass.
LEMMA ReconcileTyped ==
  ASSUME TypeOK, Reconcile
  PROVE  TypeOK'
<1>1. CASE ReconcileSelect
  <2>1. TimersOK'
    BY <1>1 DEF TypeOK, TimersOK, ReconcileSelect, NoRecon, RowsOK, RunStatus
  <2> QED
    BY <1>1, <2>1, Same DEF TypeOK, ReconcileSelect
<1>2. CASE ReconcileRead
  <2>1. TimersOK'
    BY <1>2 DEF TypeOK, TimersOK, ReconcileRead, OpenPrompts, RunVerdict, RunStatus
  <2> QED
    BY <1>2, <2>1, Same DEF TypeOK, ReconcileRead
<1>3. CASE ReconcileClose
  <2>1. RowsOK'
    BY <1>3 DEF TypeOK, RowsOK, ReconcileClose, TimersOK
  <2>2. TimersOK'
    BY <1>3 DEF TypeOK, TimersOK, ReconcileClose, NoRecon, RunStatus
  <2> QED
    BY <1>3, <2>1, <2>2, Same DEF TypeOK, ReconcileClose
<1>4. CASE ReconcileLook
  <2>1. RowsOK'
    BY <1>4 DEF TypeOK, RowsOK, ReconcileLook
  <2>2. TimersOK'
    BY <1>4 DEF TypeOK, TimersOK, ReconcileLook, NoRecon, RunStatus
  <2> QED
    BY <1>4, <2>1, <2>2, Same DEF TypeOK, ReconcileLook
<1>5. CASE ReconcileRequeue
  <2>1. RowsOK'
    BY <1>5 DEF TypeOK, RowsOK, ReconcileRequeue, SetStatus, CkptStatus, Open, RunStatus
  <2>2. TimersOK'
    BY <1>5 DEF TypeOK, TimersOK, ReconcileRequeue, NoRecon, RunStatus
  <2> QED
    BY <1>5, <2>1, <2>2, Same DEF TypeOK, ReconcileRequeue
<1>6. CASE ReconcileExpire
  <2>1. RowsOK'
    BY <1>6 DEF TypeOK, RowsOK, ReconcileExpire, SetStatus, CkptStatus, Closed
  <2>2. TimersOK'
    BY <1>6 DEF TypeOK, TimersOK, ReconcileExpire
  <2> QED
    BY <1>6, <2>1, <2>2, Same DEF TypeOK, ReconcileExpire
<1>7. CASE ReconcileSeal
  <2>1. RowsOK'
    BY <1>7 DEF TypeOK, RowsOK, ReconcileSeal, RunStatus
  <2>2. TimersOK'
    BY <1>7 DEF TypeOK, TimersOK, ReconcileSeal, NoRecon, RunStatus
  <2> QED
    BY <1>7, <2>1, <2>2, Same DEF TypeOK, ReconcileSeal
<1> QED
  BY <1>1, <1>2, <1>3, <1>4, <1>5, <1>6, <1>7 DEF Reconcile

\* So do the collector's crash, shutdown, exit and restart.
LEMMA ProcessTyped ==
  ASSUME TypeOK, Crash \/ Shutdown \/ Exit \/ Restart
  PROVE  TypeOK'
<1>1. CASE Crash
  <2>1. RedisOK'
    BY <1>1 DEF TypeOK, RedisOK, Crash, Vanish
  <2>2. AgentOK'
    BY <1>1 DEF TypeOK, AgentOK, Crash, Vanish
  <2>3. HandlerOK'
    BY <1>1, RunAssumption DEF TypeOK, HandlerOK, Crash, Vanish, IdleHandler, HandlerPc, JobId,
         Base, RunStatus
  <2>4. CallbackOK'
    BY <1>1 DEF TypeOK, CallbackOK, Crash, Vanish, NoCallback, CkptStatus, Open
  <2>5. TimersOK'
    BY <1>1 DEF TypeOK, TimersOK, Crash, Vanish, NoRecon, RunStatus
  <2>6. SpentOK'
    BY <1>1 DEF TypeOK, SpentOK, Crash, Use
  <2> QED
    BY <1>1, <2>1, <2>2, <2>3, <2>4, <2>5, <2>6, Same DEF TypeOK, Crash, Vanish
<1>2. CASE Shutdown
  <2>1. AgentOK'
    BY <1>2 DEF TypeOK, AgentOK, Shutdown
  <2>2. HandlerOK'
    BY <1>2 DEF TypeOK, HandlerOK, Shutdown
  <2>3. SpentOK'
    BY <1>2 DEF TypeOK, SpentOK, Shutdown, Use
  <2> QED
    BY <1>2, <2>1, <2>2, <2>3, Same DEF TypeOK, Shutdown
<1>3. CASE Exit
  <2>1. RedisOK'
    BY <1>3 DEF TypeOK, RedisOK, Exit, Vanish
  <2>2. AgentOK'
    BY <1>3 DEF TypeOK, AgentOK, Exit, Vanish
  <2>3. HandlerOK'
    BY <1>3, RunAssumption DEF TypeOK, HandlerOK, Exit, Vanish, IdleHandler, HandlerPc, JobId, Base, RunStatus
  <2>4. CallbackOK'
    BY <1>3 DEF TypeOK, CallbackOK, Exit, Vanish, NoCallback, CkptStatus, Open
  <2>5. TimersOK'
    BY <1>3 DEF TypeOK, TimersOK, Exit, Vanish, NoRecon, RunStatus
  <2> QED
    BY <1>3, <2>1, <2>2, <2>3, <2>4, <2>5, Same DEF TypeOK, Exit, Vanish
<1>4. CASE Restart
  <2>1. AgentOK'
    BY <1>4 DEF TypeOK, AgentOK, Restart
  <2> QED
    BY <1>4, <2>1, Same DEF TypeOK, Restart
<1> QED
  BY <1>1, <1>2, <1>3, <1>4

\* So does a failing call.
LEMMA FaultTyped ==
  ASSUME TypeOK, Fault
  PROVE  TypeOK'
<1>1. CASE StartEnqueueFails
  <2>1. RequestsOK'
    BY <1>1 DEF TypeOK, RequestsOK, StartEnqueueFails
  <2>2. SpentOK'
    BY <1>1 DEF TypeOK, SpentOK, StartEnqueueFails, Use
  <2> QED
    BY <1>1, <2>1, <2>2, Same DEF TypeOK, StartEnqueueFails
<1>2. CASE DispatchEnqueueFails
  <2>1. TimersOK'
    BY <1>2 DEF TypeOK, TimersOK, DispatchEnqueueFails
  <2>2. SpentOK'
    BY <1>2 DEF TypeOK, SpentOK, DispatchEnqueueFails, Use
  <2> QED
    BY <1>2, <2>1, <2>2, Same DEF TypeOK, DispatchEnqueueFails
<1>3. CASE RetryEnqueueFails
  <2>1. RequestsOK'
    BY <1>3 DEF TypeOK, RequestsOK, RetryEnqueueFails
  <2>2. SpentOK'
    BY <1>3 DEF TypeOK, SpentOK, RetryEnqueueFails, Use
  <2> QED
    BY <1>3, <2>1, <2>2, Same DEF TypeOK, RetryEnqueueFails
<1>4. CASE ReenqueueFails
  <2>1. HandlerOK'
    BY <1>4 DEF TypeOK, HandlerOK, ReenqueueFails, HandlerPc
  <2>2. SpentOK'
    BY <1>4 DEF TypeOK, SpentOK, ReenqueueFails, Use
  <2> QED
    BY <1>4, <2>1, <2>2, Same DEF TypeOK, ReenqueueFails
<1>5. CASE HandlerThrows
  <2>1. QueueOK'
    BY <1>5 DEF TypeOK, QueueOK, HandlerThrows
  <2>2. HandlerOK'
    BY <1>5, RunAssumption DEF TypeOK, HandlerOK, HandlerThrows, IdleHandler, HandlerPc, JobId,
         Base, RunStatus
  <2>3. SpentOK'
    BY <1>5 DEF TypeOK, SpentOK, HandlerThrows, Use
  <2> QED
    BY <1>5, <2>1, <2>2, <2>3, Same DEF TypeOK, HandlerThrows
<1>6. CASE CheckKeyFails
  <2>1. HandlerOK'
    BY <1>6 DEF TypeOK, HandlerOK, CheckKeyFails, HandlerPc
  <2>2. SpentOK'
    BY <1>6 DEF TypeOK, SpentOK, CheckKeyFails, Use
  <2> QED
    BY <1>6, <2>1, <2>2, Same DEF TypeOK, CheckKeyFails
<1>7. CASE RetryBreaksOff
  <2>1. RequestsOK'
    BY <1>7 DEF TypeOK, RequestsOK, RetryBreaksOff
  <2>2. SpentOK'
    BY <1>7 DEF TypeOK, SpentOK, RetryBreaksOff, Use
  <2> QED
    BY <1>7, <2>1, <2>2, Same DEF TypeOK, RetryBreaksOff
<1>8. ASSUME NEW w \in {"live", "zombie"}, CallbackFails(w) PROVE TypeOK'
  <2>1. CallbackOK'
    BY <1>8 DEF TypeOK, CallbackOK, CallbackFails, NoCallback, CkptStatus, Open
  <2>2. SpentOK'
    BY <1>8 DEF TypeOK, SpentOK, CallbackFails, Use
  <2> QED
    BY <1>8, <2>1, <2>2, Same DEF TypeOK, CallbackFails
<1> QED
  BY <1>1, <1>2, <1>3, <1>4, <1>5, <1>6, <1>7, <1>8 DEF Fault

\* So does the passing of time.
LEMMA TimeTyped ==
  ASSUME TypeOK, GrowStale \/ Expire
  PROVE  TypeOK'
<1>1. CASE GrowStale
  <2>1. RowsOK'
    BY <1>1 DEF TypeOK, RowsOK, GrowStale
  <2> QED
    BY <1>1, <2>1, Same DEF TypeOK, GrowStale
<1>2. CASE Expire
  <2>1. RowsOK'
    BY <1>2 DEF TypeOK, RowsOK, Expire
  <2> QED
    BY <1>2, <2>1, Same DEF TypeOK, Expire
<1> QED
  BY <1>1, <1>2
\* The initial state is of its type.
LEMMA InitTyped == Init => TypeOK
<1> SUFFICES ASSUME Init PROVE TypeOK
  OBVIOUS
<1>1. Base \in JobId
  BY RunAssumption DEF Base, JobId
<1>2. RowsOK /\ QueueOK /\ RedisOK /\ AgentOK
  BY DEF Init, RowsOK, QueueOK, RedisOK, AgentOK, CkptStatus, Open, RunStatus
<1>3. HandlerOK
  BY <1>1 DEF Init, HandlerOK, IdleHandler, HandlerPc, RunStatus
<1>4. CallbackOK
  BY DEF Init, CallbackOK, NoCallback, CkptStatus, Open
<1>5. RequestsOK /\ TimersOK /\ SpentOK
  BY DEF Init, RequestsOK, TimersOK, SpentOK, NoRecon, RunStatus
<1> QED
  BY <1>2, <1>3, <1>4, <1>5 DEF TypeOK

\* Every step keeps the types.
LEMMA NextTyped == TypeOK /\ [Next]_vars => TypeOK'
<1> SUFFICES ASSUME TypeOK, [Next]_vars PROVE TypeOK'
  OBVIOUS
<1>1. CASE UNCHANGED vars
  BY <1>1, Same DEF TypeOK, vars
<1>2. CASE Start \/ Dispatch
  BY <1>2, StartTyped
<1>3. CASE \E j \in JobId : Pick(j) \/ Stalled(j)
  BY <1>3, WorkerTyped
<1>4. CASE Handler
  BY <1>4, HandlerTyped
<1>5. CASE \E w \in {"live", "zombie"} : Callback(w)
  BY <1>5, CallbackTyped
<1>6. CASE CancelLookup \/ Cancel \/ DeliverStop
  BY <1>6, CancelTyped
<1>7. CASE RetrySelect \/ Retry
  BY <1>7, RetryTyped
<1>8. CASE Reconcile
  BY <1>8, ReconcileTyped
<1>9. CASE Crash \/ Shutdown \/ Exit \/ Restart
  BY <1>9, ProcessTyped
<1>10. CASE Fault
  BY <1>10, FaultTyped
<1>11. CASE GrowStale \/ Expire
  BY <1>11, TimeTyped
<1> QED
  BY <1>1, <1>2, <1>3, <1>4, <1>5, <1>6, <1>7, <1>8, <1>9, <1>10, <1>11
  DEF Next

\* Statuses, positions and payloads are always among those the code writes.
THEOREM TypeCorrect == Spec => []TypeOK
  BY InitTyped, NextTyped, PTL DEF Spec

-----------------------------------------------------------------------------
(* Cancel requests.                                                        *)

\* Inductive: besides the property itself, the running job is active in the
\* queue, nothing runs in a collector that is down, and a request that looks
\* at a job's state has found one.
LEMMA InitCancel == Init => CancelInv
  BY DEF Init, CancelInv, OwnsJob, NothingRunsDown, RequestSaw, CancelNotLost,
         IdleHandler

\* Every step keeps the invariant.  The cases are those that move the handler,
\* the job it runs, the key, the message or the request; the others leave all
\* of these alone.
LEMMA NextCancel == TypeOK /\ CancelInv /\ [Next]_vars => CancelInv'
<1> SUFFICES ASSUME TypeOK, CancelInv, [Next]_vars PROVE CancelInv'
  OBVIOUS
<1> USE DEF CancelInv, CancelNotLost, OwnsJob, NothingRunsDown, RequestSaw
<1>1. CASE UNCHANGED vars
  BY <1>1 DEF vars, dbVars, queueVars, redisVars, webVars, timerVars
<1>2. CASE StartEnqueue
  BY <1>2 DEF StartEnqueue, TypeOK, HandlerOK, QueueOK, Enqueue, queueVars, redisVars, webVars
<1>3. CASE StartMark
  BY <1>3 DEF StartMark, queueVars, redisVars, webVars
<1>4. CASE StartEnqueueFails
  BY <1>4 DEF StartEnqueueFails, queueVars, redisVars, webVars
<1>5. CASE DispatchClaim
  BY <1>5 DEF DispatchClaim, queueVars, redisVars, webVars
<1>6. CASE DispatchMark
  BY <1>6 DEF DispatchMark, queueVars, redisVars, webVars
<1>7. CASE DispatchEnqueueFails
  BY <1>7 DEF DispatchEnqueueFails, queueVars, redisVars, webVars
<1>8. CASE DispatchEnqueue
  BY <1>8 DEF DispatchEnqueue, TypeOK, HandlerOK, QueueOK, Enqueue, queueVars, redisVars, webVars
<1>9. ASSUME NEW j \in JobId, Pick(j) PROVE CancelInv'
  BY <1>9 DEF Pick, TypeOK, QueueOK, IdleHandler, queueVars, redisVars, webVars
<1>10. ASSUME NEW j \in JobId, Stalled(j) PROVE CancelInv'
  BY <1>10 DEF Stalled, TypeOK, HandlerOK, QueueOK, queueVars, redisVars, webVars
<1>11. CASE Resume
  BY <1>11 DEF Resume, TypeOK, HandlerOK, queueVars, redisVars, webVars
<1>12. CASE Unavailable
  BY <1>12 DEF Unavailable, TypeOK, HandlerOK, queueVars, redisVars, webVars
<1>13. CASE Register
  BY <1>13 DEF Register, TypeOK, HandlerOK, queueVars, redisVars, webVars
<1>14. CASE CheckKey
  BY <1>14 DEF CheckKey, TypeOK, HandlerOK, queueVars, redisVars, webVars
<1>15. ASSUME NEW p \in Prompt, BeginAttempt(p) PROVE CancelInv'
  BY <1>15 DEF BeginAttempt, Report, TypeOK, HandlerOK, queueVars, redisVars, webVars
<1>16. ASSUME NEW b \in BOOLEAN, FailAttempt(b) PROVE CancelInv'
  BY <1>16 DEF FailAttempt, Report, TypeOK, HandlerOK, queueVars, redisVars, webVars
<1>17. CASE AnswerAttempt
  BY <1>17 DEF AnswerAttempt, Report, TypeOK, HandlerOK, queueVars, redisVars, webVars
<1>18. CASE SampleComplete
  BY <1>18 DEF SampleComplete, Report, TypeOK, HandlerOK, queueVars, redisVars, webVars
<1>19. ASSUME NEW b \in BOOLEAN, EndPrompts(b) PROVE CancelInv'
  BY <1>19 DEF EndPrompts, Prompting, TypeOK, HandlerOK, queueVars, redisVars, webVars
<1>20. CASE SeeAbort
  BY <1>20 DEF SeeAbort, TypeOK, HandlerOK, queueVars, redisVars, webVars
<1>21. CASE Blame
  BY <1>21 DEF Blame, TypeOK, HandlerOK, queueVars, redisVars, webVars
<1>22. CASE SweepRead
  BY <1>22 DEF SweepRead, TypeOK, HandlerOK, queueVars, redisVars, webVars
<1>23. CASE SweepWrite
  BY <1>23 DEF SweepWrite, TypeOK, HandlerOK, queueVars, redisVars, webVars
<1>24. CASE Tally
  BY <1>24 DEF Tally, TypeOK, HandlerOK, queueVars, redisVars, webVars
<1>25. CASE Settle
  BY <1>25 DEF Settle, TypeOK, HandlerOK, queueVars, redisVars, webVars
<1>26. CASE Requeue
  BY <1>26 DEF Requeue, TypeOK, HandlerOK, queueVars, redisVars, webVars
<1>27. CASE Ack
  BY <1>27 DEF Ack, IdleHandler, queueVars, redisVars, webVars
<1>28. CASE Reenqueue
  BY <1>28 DEF Reenqueue, TypeOK, HandlerOK, QueueOK, Enqueue, queueVars, redisVars, webVars
<1>29. ASSUME NEW w \in {"live", "zombie"}, AttemptRead(w) PROVE CancelInv'
  BY <1>29 DEF AttemptRead, Touch, EndCallback, TypeOK, HandlerOK, queueVars, redisVars, webVars
<1>30. ASSUME NEW w \in {"live", "zombie"}, AttemptWrite(w) PROVE CancelInv'
  BY <1>30 DEF AttemptWrite, Touch, EndCallback, TypeOK, HandlerOK, queueVars, redisVars, webVars
<1>31. ASSUME NEW w \in {"live", "zombie"}, SampleIsolation(w) PROVE CancelInv'
  BY <1>31 DEF SampleIsolation, Touch, EndCallback, TypeOK, HandlerOK, queueVars, redisVars, webVars
<1>32. ASSUME NEW w \in {"live", "zombie"}, SampleReject(w) PROVE CancelInv'
  BY <1>32 DEF SampleReject, Touch, EndCallback, TypeOK, HandlerOK, queueVars, redisVars, webVars
<1>33. ASSUME NEW w \in {"live", "zombie"}, SamplePersist(w) PROVE CancelInv'
  BY <1>33 DEF SamplePersist, Touch, EndCallback, TypeOK, HandlerOK, queueVars, redisVars, webVars
<1>34. CASE CancelLookup
  BY <1>34 DEF CancelLookup, TypeOK, RequestsOK, queueVars, redisVars, webVars
<1>35. CASE CancelSetKey
  BY <1>35 DEF CancelSetKey, TypeOK, RequestsOK, queueVars, redisVars, webVars
<1>36. CASE CancelGetState
  BY <1>36 DEF CancelGetState, TypeOK, RequestsOK, queueVars, redisVars, webVars
<1>37. CASE CancelPublish
  BY <1>37 DEF CancelPublish, TypeOK, RequestsOK, queueVars, redisVars, webVars
<1>38. CASE CancelRemove
  BY <1>38 DEF CancelRemove, TypeOK, HandlerOK, QueueOK, RequestsOK, queueVars, redisVars, webVars
<1>39. CASE DeliverStop
  BY <1>39 DEF DeliverStop, TypeOK, HandlerOK, queueVars, redisVars, webVars
<1>40. CASE RetrySelect
  BY <1>40 DEF RetrySelect, Touch, queueVars, redisVars, webVars
<1>41. CASE RetryReopen
  BY <1>41 DEF RetryReopen, Touch, queueVars, redisVars, webVars
<1>42. CASE RetryClear
  BY <1>42 DEF RetryClear, Touch, queueVars, redisVars, webVars
<1>43. CASE RetryMark
  BY <1>43 DEF RetryMark, Touch, queueVars, redisVars, webVars
<1>44. CASE RetryEnqueueFails
  BY <1>44 DEF RetryEnqueueFails, Touch, queueVars, redisVars, webVars
<1>45. CASE RetryBreaksOff
  BY <1>45 DEF RetryBreaksOff, Touch, queueVars, redisVars, webVars
<1>46. CASE RetryRemove
  BY <1>46 DEF RetryRemove, TypeOK, HandlerOK, QueueOK, queueVars, redisVars, webVars
<1>47. CASE RetryEnqueue
  BY <1>47 DEF RetryEnqueue, TypeOK, HandlerOK, QueueOK, Enqueue, queueVars, redisVars, webVars
<1>48. CASE ReconcileSelect
  BY <1>48 DEF ReconcileSelect, queueVars, redisVars, webVars
<1>49. CASE ReconcileRead
  BY <1>49 DEF ReconcileRead, queueVars, redisVars, webVars
<1>50. CASE ReconcileClose
  BY <1>50 DEF ReconcileClose, queueVars, redisVars, webVars
<1>51. CASE ReconcileLook
  BY <1>51 DEF ReconcileLook, queueVars, redisVars, webVars
<1>52. CASE ReconcileRequeue
  BY <1>52 DEF ReconcileRequeue, queueVars, redisVars, webVars
<1>53. CASE ReconcileExpire
  BY <1>53 DEF ReconcileExpire, queueVars, redisVars, webVars
<1>54. CASE ReconcileSeal
  BY <1>54 DEF ReconcileSeal, queueVars, redisVars, webVars
<1>55. CASE Crash
  BY <1>55 DEF Crash, Vanish, IdleHandler, queueVars, redisVars, webVars
<1>56. CASE Shutdown
  BY <1>56 DEF Shutdown, TypeOK, HandlerOK, queueVars, redisVars, webVars
<1>57. CASE Exit
  BY <1>57 DEF Exit, Vanish, IdleHandler, queueVars, redisVars, webVars
<1>58. CASE Restart
  BY <1>58 DEF Restart, queueVars, redisVars, webVars
<1>59. CASE ReenqueueFails
  BY <1>59 DEF ReenqueueFails, TypeOK, HandlerOK, queueVars, redisVars, webVars
<1>60. CASE HandlerThrows
  BY <1>60 DEF HandlerThrows, IdleHandler, queueVars, redisVars, webVars
<1>61. CASE CheckKeyFails
  BY <1>61 DEF CheckKeyFails, TypeOK, HandlerOK, queueVars, redisVars, webVars
<1>62. ASSUME NEW w \in {"live", "zombie"}, CallbackFails(w) PROVE CancelInv'
  BY <1>62 DEF CallbackFails, queueVars, redisVars, webVars
<1>63. CASE GrowStale
  BY <1>63 DEF GrowStale, queueVars, redisVars, webVars
<1>64. CASE Expire
  BY <1>64 DEF Expire, queueVars, redisVars, webVars
<1> QED
  BY <1>1, <1>2, <1>3, <1>4, <1>5, <1>6, <1>7, <1>8, <1>9, <1>10, <1>11,
     <1>12, <1>13, <1>14, <1>15, <1>16, <1>17, <1>18, <1>19, <1>20, <1>21,
     <1>22, <1>23, <1>24, <1>25, <1>26, <1>27, <1>28, <1>29, <1>30, <1>31,
     <1>32, <1>33, <1>34, <1>35, <1>36, <1>37, <1>38, <1>39, <1>40, <1>41,
     <1>42, <1>43, <1>44, <1>45, <1>46, <1>47, <1>48, <1>49, <1>50, <1>51,
     <1>52, <1>53, <1>54, <1>55, <1>56, <1>57, <1>58, <1>59, <1>60, <1>61,
     <1>62, <1>63, <1>64
  DEF Next, Start, Dispatch, Handler, Callback, Cancel, Retry, Reconcile, Fault

\* A cancel request is never missed: a job that goes on prompting with the
\* cancel key set has a stop message to come, the gap of a suffixed job aside.
THEOREM CancelReaches == Spec => []CancelNotLost
<1>1. Spec => [](TypeOK /\ CancelInv)
  BY InitTyped, NextTyped, InitCancel, NextCancel, PTL DEF Spec
<1>2. CancelInv => CancelNotLost
  BY DEF CancelInv
<1> QED
  BY <1>1, <1>2, PTL

-----------------------------------------------------------------------------
(* Completed samples are not asked again.                                  *)

Worker == {"live", "zombie"}
Answering == {"isolate", "reject", "persist"}

\* Nobody cancels.
NobodyStops ==
  /\ spent.cancel = 0 /\ cancelReq.pc = "idle" /\ ~cancelKey /\ ~stopMsg
  /\ h.abort # "stop"

\* A handler that was interrupted belongs to a collector that shuts down.
RestartKnown ==
  /\ h.abort = "shutdown" =>
       /\ agent = "draining"
       /\ h.pc \in {"checkKey", "prompt", "requeue", "reenqueue", "ack"}
  /\ h.pc \in {"requeue", "reenqueue"} => h.abort = "shutdown"

\* A callback says of its prompt what its steps are for.
EventKnown ==
  \A w \in Worker : cb[w].step # "none" =>
    (cb[w].ev = "completed" <=> cb[w].step \in Answering)

\* The runner's callback is about a prompt that is still to be done, and so is
\* the attempt that was begun.
LiveKnown ==
  /\ cb.live.step # "none" => h.pc = "prompt" /\ cb.live.p \in h.todo
  /\ cb.live.step \in Answering => h.step = "free"
  /\ h.step # "free" => h.pc \notin {"resume", "register", "checkKey"}
  /\ h.pc = "prompt" /\ h.step # "free" => h.active \in h.todo

\* A callback is left behind by a collector that shuts down, about a sample that
\* was not completed.
ZombieKnown ==
  cb.zombie.step # "none" =>
    /\ agent = "draining" /\ h.pc \in {"requeue", "reenqueue", "ack", "idle"}
    /\ cb.zombie.p \in Prompt /\ ckpt[cb.zombie.p] # "completed"

Undone(S) == \A p \in S : ckpt[p] # "completed"

\* What is still to be done is not completed.
TodoUndone == h.pc \in {"register", "checkKey", "prompt"} => Undone(h.todo)
SweepUndone == h.pc = "sweepWrite" => Undone(h.sweep)

AskInv ==
  /\ NobodyStops /\ RestartKnown /\ EventKnown /\ LiveKnown /\ ZombieKnown
  /\ TodoUndone /\ SweepUndone

\* The initial state has it.
LEMMA InitAsk == Init => AskInv
  BY DEF Init, AskInv, NobodyStops, RestartKnown, EventKnown, LiveKnown, ZombieKnown, TodoUndone,
         SweepUndone, IdleHandler, NoCallback, Worker, Answering

\* Where the handler, its callbacks and the collector stay as they are and no
\* sample is completed, the invariant does.
LEMMA AskKept ==
  ASSUME AskInv, UNCHANGED <<h, cb, agent, cancelReq, stopMsg>>,
         cancelKey' => cancelKey, spent'.cancel = spent.cancel,
         \A p \in Prompt : ckpt'[p] = "completed" => ckpt[p] = "completed",
         TypeOK
  PROVE  AskInv'
<1>1. h.todo \subseteq Prompt /\ h.sweep \subseteq Prompt
  BY DEF TypeOK, HandlerOK
<1>2. NobodyStops'
  BY DEF AskInv, NobodyStops
<1>3. RestartKnown' /\ EventKnown' /\ LiveKnown'
  BY DEF AskInv, RestartKnown, EventKnown, LiveKnown
<1>4. ZombieKnown'
  BY DEF AskInv, ZombieKnown
<1>5. TodoUndone' /\ SweepUndone'
  BY <1>1 DEF AskInv, TodoUndone, SweepUndone, Undone
<1> QED
  BY <1>2, <1>3, <1>4, <1>5 DEF AskInv

\* The requests, timers and time.
LEMMA OthersAsk ==
  ASSUME TypeOK, AskInv,
         \/ Start \/ Dispatch \/ Reconcile \/ RetrySelect \/ Retry
         \/ StartEnqueueFails \/ DispatchEnqueueFails \/ RetryEnqueueFails \/ RetryBreaksOff
         \/ GrowStale \/ Expire \/ \E j \in JobId : Stalled(j)
  PROVE  AskInv'
<1>0. \A S \in SUBSET Prompt, p \in Prompt :
        /\ SetStatus(S, "queued")[p] = "completed" => ckpt[p] = "completed"
        /\ SetStatus(S, "failed")[p] = "completed" => ckpt[p] = "completed"
  BY DEF SetStatus
<1>1. /\ spent'.cancel = spent.cancel
      /\ UNCHANGED <<h, cb, agent, cancelReq, stopMsg>>
      /\ cancelKey' => cancelKey
  <2>1. CASE Start \/ Dispatch \/ StartEnqueueFails \/ DispatchEnqueueFails
    BY <2>1 DEF Start, Dispatch, StartEnqueue, StartMark, DispatchClaim, DispatchEnqueue, DispatchMark,
         StartEnqueueFails, DispatchEnqueueFails, Use, TypeOK, SpentOK, redisVars, webVars, timerVars
  <2>2. CASE Reconcile
    BY <2>2 DEF Reconcile, ReconcileSelect, ReconcileRead, ReconcileClose, ReconcileLook,
         ReconcileRequeue, ReconcileExpire, ReconcileSeal, redisVars, webVars, timerVars
  <2>3. CASE RetrySelect \/ Retry \/ RetryEnqueueFails \/ RetryBreaksOff
    BY <2>3 DEF RetrySelect, Retry, RetryEnqueueFails, RetryBreaksOff, RetryReopen, RetryRemove,
         RetryClear, RetryEnqueue, RetryMark, Use, TypeOK, SpentOK, redisVars, webVars, timerVars
  <2>4. CASE GrowStale \/ Expire \/ \E j \in JobId : Stalled(j)
    BY <2>4 DEF GrowStale, Expire, Stalled, redisVars, webVars, timerVars
  <2> QED
    BY <2>1, <2>2, <2>3, <2>4
<1>2. ckpt' = ckpt \/ \E S \in SUBSET Prompt : ckpt' \in {SetStatus(S, "queued"), SetStatus(S, "failed")}
  <2>1. CASE Start \/ Dispatch \/ StartEnqueueFails \/ DispatchEnqueueFails
    BY <2>1 DEF Start, Dispatch, StartEnqueue, StartMark, DispatchClaim, DispatchEnqueue, DispatchMark,
         StartEnqueueFails, DispatchEnqueueFails, dbVars
  <2>2. CASE Reconcile
    BY <2>2 DEF Reconcile, ReconcileSelect, ReconcileRead, ReconcileClose, ReconcileLook,
         ReconcileRequeue, ReconcileExpire, ReconcileSeal, dbVars, TypeOK, TimersOK
  <2>3. CASE RetrySelect \/ Retry \/ RetryEnqueueFails \/ RetryBreaksOff
    BY <2>3 DEF RetrySelect, Retry, RetryEnqueueFails, RetryBreaksOff, RetryReopen, RetryRemove,
         RetryClear, RetryEnqueue, RetryMark, dbVars, Touch, TypeOK, RequestsOK
  <2>4. CASE GrowStale \/ Expire \/ \E j \in JobId : Stalled(j)
    BY <2>4 DEF GrowStale, Expire, Stalled, dbVars
  <2> QED
    BY <2>1, <2>2, <2>3, <2>4
<1>3. \A p \in Prompt : ckpt'[p] = "completed" => ckpt[p] = "completed"
  BY <1>0, <1>2
<1> QED
  BY <1>1, <1>3, AskKept

\* The steps of the handler.
LEMMA HandlerAsk ==
  ASSUME TypeOK, AskInv, Handler
  PROVE  AskInv'
<1> USE DEF AskInv, NobodyStops, RestartKnown, EventKnown, LiveKnown, ZombieKnown, TodoUndone,
            SweepUndone, Undone, Worker, Answering, TypeOK, HandlerOK, CallbackOK, redisVars,
                 webVars, dbVars, queueVars
<1>1. CASE Resume
  BY <1>1 DEF Resume, OpenPrompts, Open
<1>2. CASE Unavailable
  BY <1>2 DEF Unavailable
<1>3. CASE Register
  BY <1>3 DEF Register
<1>4. CASE CheckKey
  BY <1>4 DEF CheckKey
<1>5. ASSUME NEW p \in Prompt, BeginAttempt(p) PROVE AskInv'
  BY <1>5 DEF BeginAttempt, Prompting, Report, NoCallback
<1>6. ASSUME NEW b \in BOOLEAN, FailAttempt(b) PROVE AskInv'
  BY <1>6 DEF FailAttempt, Prompting, Report
<1>7. ASSUME NEW b \in BOOLEAN, EndPrompts(b) PROVE AskInv'
  BY <1>7 DEF EndPrompts, Prompting, NoCallback
<1>8. CASE AnswerAttempt
  BY <1>8 DEF AnswerAttempt, Prompting, Report
<1>9. CASE SampleComplete
  BY <1>9 DEF SampleComplete, Prompting
<1>10. CASE SeeAbort
  BY <1>10 DEF SeeAbort, NoCallback
<1>11. CASE Blame
  BY <1>11 DEF Blame, RowsOK
<1>12. CASE SweepRead
  BY <1>12 DEF SweepRead, OpenPrompts, Open, QueueOK
<1>13. CASE SweepWrite
  BY <1>13 DEF SweepWrite, SetStatus
<1>14. CASE Tally
  BY <1>14 DEF Tally
<1>15. CASE Settle
  BY <1>15 DEF Settle
<1>16. CASE Ack
  BY <1>16 DEF Ack, IdleHandler
<1>17. CASE Requeue
  BY <1>17 DEF Requeue
<1>18. CASE Reenqueue
  BY <1>18 DEF Reenqueue, Use, SpentOK
<1> QED
  BY <1>1, <1>2, <1>3, <1>4, <1>5, <1>6, <1>7, <1>8, <1>9, <1>10, <1>11, <1>12, <1>13, <1>14, <1>15,
       <1>16, <1>17, <1>18 DEF Handler

\* A job is taken.
LEMMA PickAsk ==
  ASSUME TypeOK, AskInv, NEW j \in JobId, Pick(j)
  PROVE  AskInv'
<1> USE DEF AskInv, NobodyStops, RestartKnown, EventKnown, LiveKnown, ZombieKnown, TodoUndone,
            SweepUndone, Undone, Worker, Answering, TypeOK, HandlerOK, CallbackOK, redisVars, webVars, dbVars
<1> QED
  BY DEF Pick, IdleHandler

\* The callbacks.
LEMMA CallbackAsk ==
  ASSUME TypeOK, AskInv, NEW w \in Worker, Callback(w)
  PROVE  AskInv'
<1> USE DEF AskInv, NobodyStops, RestartKnown, EventKnown, LiveKnown, ZombieKnown, TodoUndone,
            SweepUndone, Undone, Worker, Answering, TypeOK, HandlerOK, CallbackOK, RowsOK,
                 redisVars, webVars, dbVars, EndCallback, NoCallback
<1>1. CASE AttemptRead(w)
  BY <1>1 DEF AttemptRead
<1>2. CASE AttemptWrite(w)
  BY <1>2 DEF AttemptWrite, Touch
<1>3. CASE SampleIsolation(w)
  BY <1>3 DEF SampleIsolation
<1>4. CASE SampleReject(w)
  BY <1>4 DEF SampleReject, Touch
<1>5. CASE SamplePersist(w)
  BY <1>5 DEF SamplePersist, Touch
<1> QED
  BY <1>1, <1>2, <1>3, <1>4, <1>5 DEF Callback

\* Cancel requests, which there are none of, the process, and failing calls.
LEMMA ProcessAsk ==
  ASSUME spent'.cancel = 0, TypeOK, AskInv,
         \/ CancelLookup \/ Cancel \/ DeliverStop \/ Crash \/ Shutdown \/ Exit \/ Restart
         \/ ReenqueueFails \/ HandlerThrows \/ CheckKeyFails \/ \E w \in Worker : CallbackFails(w)
  PROVE  AskInv'
<1> USE DEF AskInv, NobodyStops, RestartKnown, EventKnown, LiveKnown, ZombieKnown, TodoUndone,
            SweepUndone, Undone, Worker, Answering, TypeOK, HandlerOK, CallbackOK, AgentOK,
                 redisVars, webVars, dbVars, NoCallback
<1>1. CASE CancelLookup \/ Cancel \/ DeliverStop
  BY <1>1 DEF CancelLookup, Use, SpentOK, Cancel, CancelSetKey, CancelGetState, CancelRemove,
       CancelPublish, DeliverStop
<1>2. CASE Crash \/ Exit
  BY <1>2 DEF Crash, Exit, Vanish, Use, SpentOK, IdleHandler
<1>3. CASE Shutdown
  BY <1>3 DEF Shutdown, Use, SpentOK
<1>4. CASE Restart
  BY <1>4 DEF Restart
<1>5. CASE ReenqueueFails
  BY <1>5 DEF ReenqueueFails, Use, SpentOK
<1>6. CASE HandlerThrows
  BY <1>6 DEF HandlerThrows, Use, SpentOK, IdleHandler
<1>7. CASE CheckKeyFails
  BY <1>7 DEF CheckKeyFails, Use, SpentOK
<1>8. CASE \E w \in Worker : CallbackFails(w)
  BY <1>8 DEF CallbackFails, Use, SpentOK
<1> QED
  BY <1>1, <1>2, <1>3, <1>4, <1>5, <1>6, <1>7, <1>8

\* Every step keeps the invariant.
LEMMA NextAsk ==
  ASSUME spent'.cancel = 0, TypeOK, AskInv, [Next]_vars
  PROVE  AskInv'
<1>1. CASE UNCHANGED vars
  BY <1>1, AskKept DEF vars, redisVars, webVars, dbVars
<1>2. CASE \/ Start \/ Dispatch \/ Reconcile \/ RetrySelect \/ Retry \/ GrowStale \/ Expire
           \/ \E j \in JobId : Stalled(j)
  BY <1>2, OthersAsk
<1>3. CASE Handler \/ \E w \in Worker : Callback(w)
  BY <1>3, HandlerAsk, CallbackAsk
<1>4. CASE \E j \in JobId : Pick(j)
  BY <1>4, PickAsk
<1>5. CASE CancelLookup \/ Cancel \/ DeliverStop \/ Crash \/ Shutdown \/ Exit \/ Restart
  BY <1>5, ProcessAsk
<1>6. CASE Fault
  BY <1>6, OthersAsk, ProcessAsk DEF Fault, Worker
<1> QED
  BY <1>1, <1>2, <1>3, <1>4, <1>5, <1>6 DEF Next, Worker

\* What is not a cancel request does not count as one.
LEMMA CancelsCounted ==
  ASSUME TypeOK, [Next]_vars
  PROVE  /\ spent'.cancel = 0 => spent.cancel = 0
         /\ MaxCancel = 0 /\ spent.cancel = 0 => spent'.cancel = 0
<1> USE DEF TypeOK, SpentOK
<1>1. CASE UNCHANGED spent
  BY <1>1
<1>2. CASE CancelLookup
  BY <1>2 DEF CancelLookup, Use
<1>3. ASSUME NEW b \in {"crash", "shutdown", "retry", "fault", "queueFault", "suffix"}, Use(b)
      PROVE  spent'.cancel = spent.cancel
  BY <1>3 DEF Use
<1>4. CASE UNCHANGED vars \/ Start \/ Dispatch \/ GrowStale \/ Expire \/ \E j \in JobId : Pick(j) \/ Stalled(j)
  BY <1>1, <1>4
     DEF vars, Start, StartEnqueue, StartMark, Dispatch, DispatchClaim, DispatchEnqueue, DispatchMark,
         GrowStale, Expire, Pick, Stalled
<1>5. CASE Handler
  BY <1>1, <1>3, <1>5
     DEF Handler, Resume, Unavailable, Register, CheckKey, BeginAttempt, FailAttempt, AnswerAttempt,
         SampleComplete, SeeAbort, EndPrompts, Blame, SweepRead, SweepWrite, Tally, Settle, Ack, Requeue,
         Reenqueue
<1>6. CASE \E w \in Worker : Callback(w)
  BY <1>1, <1>6 DEF Callback, AttemptRead, AttemptWrite, SampleIsolation, SampleReject, SamplePersist
<1>7. CASE Cancel \/ DeliverStop \/ Crash \/ Shutdown \/ Exit \/ Restart
  BY <1>1, <1>3, <1>7
     DEF Cancel, CancelSetKey, CancelGetState, CancelRemove, CancelPublish, DeliverStop, Crash, Shutdown,
         Exit, Restart
<1>8. CASE RetrySelect \/ Retry \/ Fault
  BY <1>1, <1>3, <1>8
     DEF RetrySelect, Retry, RetryReopen, RetryRemove, RetryClear, RetryEnqueue, RetryMark, Fault,
         StartEnqueueFails, DispatchEnqueueFails, RetryEnqueueFails, ReenqueueFails, HandlerThrows,
         CheckKeyFails, CallbackFails, RetryBreaksOff
<1>9. CASE Reconcile
  BY <1>1, <1>9
     DEF Reconcile, ReconcileSelect, ReconcileRead, ReconcileClose, ReconcileLook, ReconcileRequeue,
         ReconcileExpire, ReconcileSeal
<1> QED
  BY <1>2, <1>4, <1>5, <1>6, <1>7, <1>8, <1>9 DEF Next, Worker

\* Where the runner begins to report, it is about a prompt still to be done.
LEMMA ReportIsUndone ==
  ASSUME TypeOK, AskInv, [Next]_vars, NEW p \in Prompt,
         cb.live.step = "none", cb'.live.step = "read", cb'.live.p = p
  PROVE  ckpt[p] # "completed"
<1>1. CASE \E q \in Prompt : BeginAttempt(q)
  BY <1>1 DEF BeginAttempt, Report, Prompting, AskInv, TodoUndone, Undone, TypeOK, HandlerOK, CallbackOK
<1>2. CASE AnswerAttempt \/ \E b \in BOOLEAN : FailAttempt(b)
  BY <1>2 DEF AnswerAttempt, FailAttempt, Report, Prompting, AskInv, LiveKnown, TodoUndone, Undone, TypeOK,
              HandlerOK, CallbackOK
<1>3. CASE UNCHANGED cb
  BY <1>3
<1>4. CASE SampleComplete \/ SeeAbort \/ Crash \/ Exit
  BY <1>4 DEF SampleComplete, SeeAbort, Crash, Exit, Vanish, NoCallback, TypeOK, CallbackOK
<1>5. ASSUME NEW w \in Worker, Callback(w) \/ CallbackFails(w) PROVE FALSE
  BY <1>5 DEF Callback, CallbackFails, AttemptRead, AttemptWrite, SampleIsolation, SampleReject,
              SamplePersist, EndCallback, NoCallback, TypeOK, CallbackOK, Worker
<1>6. CASE Start \/ Dispatch \/ Reconcile \/ RetrySelect \/ Retry \/ GrowStale \/ Expire
  BY <1>3, <1>6
     DEF Start, StartEnqueue, StartMark, Dispatch, DispatchClaim, DispatchEnqueue, DispatchMark,
         Reconcile, ReconcileSelect, ReconcileRead, ReconcileClose, ReconcileLook, ReconcileRequeue,
         ReconcileExpire, ReconcileSeal, RetrySelect, Retry, RetryReopen, RetryRemove, RetryClear,
         RetryEnqueue, RetryMark, GrowStale, Expire
<1>7. CASE \/ \E j \in JobId : Pick(j) \/ Stalled(j)
           \/ CancelLookup \/ Cancel \/ DeliverStop \/ Shutdown \/ Restart
  BY <1>3, <1>7
     DEF Pick, Stalled, CancelLookup, Cancel, CancelSetKey, CancelGetState, CancelRemove, CancelPublish,
         DeliverStop, Shutdown, Restart
<1>8. CASE Fault
  BY <1>3, <1>5, <1>8
     DEF Fault, StartEnqueueFails, DispatchEnqueueFails, RetryEnqueueFails, ReenqueueFails, HandlerThrows,
         CheckKeyFails, RetryBreaksOff, Worker
<1>9. CASE Handler
  BY <1>1, <1>2, <1>3, <1>4, <1>9
     DEF Handler, Resume, Unavailable, Register, CheckKey, EndPrompts, Blame, SweepRead, SweepWrite, Tally,
         Settle, Ack, Requeue, Reenqueue
<1> QED
  BY <1>1, <1>2, <1>3, <1>4, <1>5, <1>6, <1>7, <1>8, <1>9 DEF Next, Worker, vars

\* An answer that was accepted is not asked for again, however jobs, restarts,
\* recovery and retries follow one another: with any number of prompts, crashes
\* and failing calls, if nobody cancels.  (A cancelled job leaves a callback
\* behind that may accept an answer while the next job is at the same prompt.)
THEOREM NotAskedAgain ==
  ASSUME MaxCancel = 0
  PROVE  Spec => CompletedNotAsked
<1>1. Spec => [](TypeOK /\ AskInv)
  <2>1. Init => TypeOK /\ AskInv
    BY InitTyped, InitAsk
  <2>2. TypeOK /\ AskInv /\ [Next]_vars => (TypeOK /\ AskInv)'
    BY NextTyped, NextAsk, CancelsCounted DEF AskInv, NobodyStops
  <2> QED
    BY <2>1, <2>2, PTL DEF Spec
<1>2. TypeOK /\ AskInv /\ [Next]_vars =>
        [\A p \in Prompt : cb.live.step = "none" /\ cb'.live.step = "read" /\ cb'.live.p = p
           => ckpt[p] # "completed"]_vars
  BY ReportIsUndone
<1> QED
  BY <1>1, <1>2, PTL DEF Spec, CompletedNotAsked

-----------------------------------------------------------------------------
(* Completed samples stay completed.                                       *)

\* A recovery pass and a retry's look are not overtaken, and two calls fail at
\* most.
FewFaults == PassOvertaken = FALSE /\ MaxFault <= 2

Restarting == h.abort = "shutdown" /\ h.pc # "ack"
RetryPending == retryReq.pc \in {"reopen", "remove", "clear", "enqueue"}

\* Every interrupted job and every retry has a suffixed id of its own to come.
SuffixFree ==
  /\ \A j \in JobId : j > spent.suffix => jobState[j] = "none"
  /\ spent.suffix + (IF Restarting THEN 1 ELSE 0) + (IF RetryPending THEN 1 ELSE 0)
       <= spent.shutdown + spent.retry
  /\ spent.shutdown <= MaxShutdown /\ spent.retry <= MaxRetry

\* The run row is fresh when an answer comes, unless the reports of the attempt
\* failed; and it is when a handler is interrupted, unless that fails, too.
Reporting == cb.live.step \in {"read", "write"}
RowKnown ==
  /\ spent.fault <= MaxFault
  /\ runAge # "fresh" =>
       /\ h.pc = "prompt" /\ h.step = "asked" => Reporting \/ spent.fault >= 1
       /\ h.pc = "prompt" /\ h.step = "answered" =>
            spent.fault >= 1 /\ (Reporting \/ spent.fault >= 2)
       /\ cb.live.step \in Answering => spent.fault >= 2
       /\ cb.zombie.step \in Answering => h.pc = "requeue" /\ spent.fault >= 2

\* The samples a retry found closed.
RetryUndone == retryReq.pc = "reopen" => Undone(retryReq.set)

\* A job that does not end while recovery looks.
Held ==
  \/ h.pc \in {"register", "checkKey", "prompt", "blame", "sweepRead", "sweepWrite", "tally",
               "requeue", "reenqueue"}
  \/ agent = "draining" /\ \E j \in JobId : jobState[j] = "waiting"

\* The samples recovery found open: they still are not completed when it writes.
ReconUndone ==
  /\ recon.pc # "idle" /\ cb.zombie.step \in Answering => Held
  /\ recon.pc = "look" => Undone(recon.open) \/ Held
  /\ recon.pc \in {"requeue", "expire"} =>
       Undone(recon.open) /\ \A w \in Worker : cb[w].step \notin Answering

KeepInv == SuffixFree /\ RowKnown /\ RetryUndone /\ ReconUndone

\* The initial state has it.
LEMMA InitKeep == Init => KeepInv
<1> SUFFICES ASSUME Init PROVE KeepInv
  OBVIOUS
<1>1. SuffixFree
  BY RunAssumption DEF Init, SuffixFree, Restarting, RetryPending, IdleHandler
<1>2. RowKnown
  BY RunAssumption DEF Init, RowKnown
<1>3. RetryUndone /\ ReconUndone
  BY DEF Init, RetryUndone, ReconUndone, NoRecon
<1> QED
  BY <1>1, <1>2, <1>3 DEF KeepInv

\* What is used up is counted, and nothing else is.
LEMMA UseCounts ==
  ASSUME TypeOK, NEW b \in {"crash", "shutdown", "cancel", "retry", "fault", "queueFault", "suffix"}, Use(b)
  PROVE  /\ spent'[b] = spent[b] + 1
         /\ \A c \in {"crash", "shutdown", "cancel", "retry", "fault", "queueFault", "suffix"} \ {b} :
              spent'[c] = spent[c]
         /\ spent'.suffix \in Nat /\ spent'.shutdown \in Nat /\ spent'.retry \in Nat
BY DEF Use, TypeOK, SpentOK

\* Where no job but the base one is inserted, and nothing more is pending.
LEMMA SuffixStays ==
  ASSUME TypeOK, SuffixFree,
         spent'.suffix = spent.suffix, spent'.shutdown = spent.shutdown, spent'.retry = spent.retry,
         \A j \in JobId : jobState'[j] # "none" => jobState[j] # "none" \/ j = 0,
         Restarting' => Restarting, RetryPending' => RetryPending
  PROVE  SuffixFree'
<1>1. spent.suffix \in Nat /\ spent.shutdown \in Nat /\ spent.retry \in Nat
  BY DEF TypeOK, SpentOK
<1>2. \A j \in JobId : j > spent'.suffix => jobState'[j] = "none"
  BY <1>1 DEF SuffixFree
<1>3. spent'.suffix + (IF Restarting' THEN 1 ELSE 0) + (IF RetryPending' THEN 1 ELSE 0)
        <= spent'.shutdown + spent'.retry
  BY <1>1 DEF SuffixFree
<1>4. spent'.shutdown <= MaxShutdown /\ spent'.retry <= MaxRetry
  BY DEF SuffixFree
<1> QED
  BY <1>2, <1>3, <1>4 DEF SuffixFree

\* A suffixed id is taken for what was pending.
LEMMA SuffixTaken ==
  ASSUME TypeOK, SuffixFree, Use("suffix"), NEW S \in SUBSET Prompt, Enqueue(NextSuffix, S),
         \/ Restarting /\ ~Restarting' /\ (RetryPending' <=> RetryPending)
         \/ RetryPending /\ ~RetryPending' /\ (Restarting' <=> Restarting)
  PROVE  /\ SuffixFree' /\ NextSuffix \in JobId /\ NextSuffix # 0 /\ jobState[NextSuffix] = "none"
         /\ \A j \in JobId : jobState'[j] = IF j = NextSuffix THEN "waiting" ELSE jobState[j]
         /\ \A j \in JobId : jobPrompts'[j] = IF j = NextSuffix THEN S ELSE jobPrompts[j]
<1>1. /\ spent.suffix \in Nat /\ spent.shutdown \in Nat /\ spent.retry \in Nat
      /\ spent'.suffix = spent.suffix + 1 /\ spent'.shutdown = spent.shutdown /\ spent'.retry = spent.retry
  BY UseCounts DEF TypeOK, SpentOK
<1> DEFINE n == spent.suffix
           a == IF Restarting THEN 1 ELSE 0
           b == IF RetryPending THEN 1 ELSE 0
           a1 == IF Restarting' THEN 1 ELSE 0
           b1 == IF RetryPending' THEN 1 ELSE 0
<1>2. a \in Nat /\ b \in Nat /\ a1 \in Nat /\ b1 \in Nat /\ a1 + b1 + 1 = a + b
  OBVIOUS
<1>3. n + a + b <= spent.shutdown + spent.retry /\ spent.shutdown <= MaxShutdown /\ spent.retry <= MaxRetry
  BY DEF SuffixFree
<1> HIDE DEF a, b, a1, b1, n
<1>4. /\ (n + 1) + a1 + b1 <= spent.shutdown + spent.retry /\ n + 1 <= MaxShutdown + MaxRetry
      /\ n + 1 \in Nat /\ n + 1 > n /\ n + 1 # 0
  BY <1>1, <1>2, <1>3, RunAssumption DEF n
<1>5. NextSuffix = n + 1 /\ NextSuffix \in JobId /\ NextSuffix # 0
  BY <1>4, RunAssumption DEF NextSuffix, JobId, Base, n
<1>6. jobState[NextSuffix] = "none"
  BY <1>4, <1>5 DEF SuffixFree, n
<1>7. /\ \A j \in JobId : jobState'[j] = IF j = NextSuffix THEN "waiting" ELSE jobState[j]
      /\ \A j \in JobId : jobPrompts'[j] = IF j = NextSuffix THEN S ELSE jobPrompts[j]
  BY <1>5, <1>6 DEF Enqueue, TypeOK, QueueOK
<1>8. \A j \in JobId : j > spent'.suffix => jobState'[j] = "none"
  <2> SUFFICES ASSUME NEW j \in JobId, j > n + 1 PROVE jobState'[j] = "none"
    BY <1>1 DEF n
  <2>1. j > n /\ j # n + 1
    BY <1>1 DEF JobId, n
  <2> QED
    BY <1>5, <1>7, <2>1 DEF SuffixFree, n
<1>9. spent'.suffix + a1 + b1 <= spent'.shutdown + spent'.retry
  BY <1>1, <1>4 DEF n
<1>10. SuffixFree'
  BY <1>1, <1>3, <1>8, <1>9 DEF SuffixFree, a1, b1
<1> QED
  BY <1>5, <1>6, <1>7, <1>10

\* A shutdown or a retry makes one more pending.
LEMMA SuffixRaised ==
  ASSUME TypeOK, SuffixFree, jobState' = jobState,
         \/ /\ Use("shutdown") /\ spent.shutdown < MaxShutdown
            /\ ~Restarting /\ (RetryPending' <=> RetryPending)
         \/ /\ Use("retry") /\ spent.retry < MaxRetry
            /\ ~RetryPending /\ (Restarting' <=> Restarting)
  PROVE  SuffixFree'
<1>1. spent.suffix \in Nat /\ spent.shutdown \in Nat /\ spent.retry \in Nat
  BY DEF TypeOK, SpentOK
<1>2. /\ spent'.suffix = spent.suffix
      /\ spent'.shutdown + spent'.retry = spent.shutdown + spent.retry + 1
      /\ spent'.shutdown <= MaxShutdown /\ spent'.retry <= MaxRetry
  <2>1. CASE Use("shutdown") /\ spent.shutdown < MaxShutdown
    BY <1>1, <2>1, UseCounts, RunAssumption DEF SuffixFree
  <2>2. CASE Use("retry") /\ spent.retry < MaxRetry
    BY <1>1, <2>2, UseCounts, RunAssumption DEF SuffixFree
  <2> QED
    BY <2>1, <2>2
<1> DEFINE a == IF Restarting THEN 1 ELSE 0
           b == IF RetryPending THEN 1 ELSE 0
           a1 == IF Restarting' THEN 1 ELSE 0
           b1 == IF RetryPending' THEN 1 ELSE 0
<1>3. a \in Nat /\ b \in Nat /\ a1 \in Nat /\ b1 \in Nat /\ a1 + b1 <= a + b + 1
  OBVIOUS
<1>4. spent.suffix + a + b <= spent.shutdown + spent.retry
  BY DEF SuffixFree
<1> HIDE DEF a, b, a1, b1
<1>5. spent'.suffix + a1 + b1 <= spent'.shutdown + spent'.retry
  BY <1>1, <1>2, <1>3, <1>4
<1> QED
  BY <1>2, <1>5 DEF SuffixFree, a1, b1

\* No suffixed id is taken and nothing more is pending.
Quietly ==
  /\ spent'.suffix = spent.suffix /\ spent'.shutdown = spent.shutdown /\ spent'.retry = spent.retry
  /\ \A j \in JobId : jobState'[j] # "none" => jobState[j] # "none" \/ j = 0
  /\ Restarting' => Restarting
  /\ RetryPending' => RetryPending

\* Four actions only are concerned with suffixed ids.
LEMMA QuietSteps ==
  ASSUME spent'.cancel = 0, TypeOK, AskInv, CancelInv, [Next]_vars
  PROVE  Reenqueue \/ RetryEnqueue \/ RetrySelect \/ Shutdown \/ Quietly
<1> USE DEF Quietly, Restarting, RetryPending, AskInv, NobodyStops, RestartKnown, CancelInv, OwnsJob, Base,
       TypeOK, QueueOK, HandlerOK, CallbackOK, RequestsOK, SpentOK, redisVars, webVars, dbVars,
       queueVars, timerVars
<1>1. CASE UNCHANGED vars \/ GrowStale \/ Expire
  BY <1>1 DEF vars, GrowStale, Quiet, NoCallback, Expire
<1>2. CASE Start \/ Dispatch
  BY <1>2 DEF Start, Dispatch, StartEnqueue, Enqueue, StartMark, DispatchClaim, DispatchEnqueue,
       DispatchMark
<1>3. CASE \E j \in JobId : Pick(j) \/ Stalled(j)
  <2>1. ASSUME NEW j \in JobId, Pick(j) PROVE Reenqueue \/ RetryEnqueue \/ RetrySelect \/ Shutdown \/ Quietly
    BY <2>1 DEF Pick, IdleHandler
  <2>2. ASSUME NEW j \in JobId, Stalled(j)
        PROVE  Reenqueue \/ RetryEnqueue \/ RetrySelect \/ Shutdown \/ Quietly
    BY <2>2 DEF Stalled
  <2> QED
    BY <1>3, <2>1, <2>2
<1>4. CASE Resume \/ Unavailable \/ Register \/ CheckKey
  BY <1>4 DEF Resume, Unavailable, Register, CheckKey
<1>5. CASE \/ \E p \in Prompt : BeginAttempt(p)
           \/ \E b \in BOOLEAN : FailAttempt(b) \/ EndPrompts(b)
           \/ AnswerAttempt \/ SampleComplete \/ SeeAbort
  <2>1. ASSUME NEW p \in Prompt, BeginAttempt(p)
        PROVE  Reenqueue \/ RetryEnqueue \/ RetrySelect \/ Shutdown \/ Quietly
    BY <2>1 DEF BeginAttempt, Prompting, Report, NoCallback
  <2>2. ASSUME NEW b \in BOOLEAN, FailAttempt(b)
        PROVE  Reenqueue \/ RetryEnqueue \/ RetrySelect \/ Shutdown \/ Quietly
    BY <2>2 DEF FailAttempt, Prompting, Report, NoCallback
  <2>3. ASSUME NEW b \in BOOLEAN, EndPrompts(b)
        PROVE  Reenqueue \/ RetryEnqueue \/ RetrySelect \/ Shutdown \/ Quietly
    BY <2>3 DEF EndPrompts, Prompting, NoCallback
  <2>4. CASE AnswerAttempt
    BY <2>4 DEF AnswerAttempt, Prompting, Report, NoCallback
  <2>5. CASE SampleComplete
    BY <2>5 DEF SampleComplete, Prompting, NoCallback, AnswerMayCome
  <2>6. CASE SeeAbort
    BY <2>6 DEF SeeAbort, NoCallback
  <2> QED
    BY <1>5, <2>1, <2>2, <2>3, <2>4, <2>5, <2>6
<1>6. CASE Blame \/ SweepRead \/ SweepWrite \/ Tally \/ Settle \/ Ack
  <2>1. CASE Blame
    BY <2>1 DEF Blame
  <2>2. CASE SweepRead
    BY <2>2 DEF SweepRead, OpenPrompts, Open
  <2>3. CASE SweepWrite
    BY <2>3 DEF SweepWrite, SetStatus
  <2>4. CASE Tally
    BY <2>4 DEF Tally, JobMayEnd
  <2>5. CASE Settle
    BY <2>5 DEF Settle
  <2>6. CASE Ack
    BY <2>6 DEF Ack, IdleHandler
  <2> QED
    BY <1>6, <2>1, <2>2, <2>3, <2>4, <2>5, <2>6
<1>7. CASE Requeue \/ Reenqueue
  <2>1. CASE Reenqueue
    BY <2>1
  <2> QED
    BY <1>7, <2>1 DEF Requeue
<1>8. CASE \E w \in Worker : Callback(w)
  BY <1>8 DEF Callback, AttemptRead, EndCallback, NoCallback, AttemptWrite, Touch, SampleIsolation,
       SampleReject, SamplePersist, AnswerMayLand
<1>9. CASE CancelLookup \/ Cancel \/ DeliverStop
  BY <1>9 DEF CancelLookup, Use, Cancel, CancelSetKey, CancelGetState, CancelRemove, CancelPublish,
       DeliverStop
<1>10. CASE RetrySelect \/ Retry
  <2>1. CASE RetrySelect
    BY <2>1
  <2>2. CASE RetryEnqueue
    BY <2>2
  <2> QED
    BY <1>10, <2>1, <2>2 DEF Retry, RetryReopen, Touch, SetStatus, RetryRemove, RetryClear, RetryMark
<1>11. CASE Reconcile
  BY <1>11 DEF Reconcile, ReconcileSelect, NoRecon, ReconcileRead, OpenPrompts, Open, ReconcileClose,
       ReconcileLook, Live, ReconcileRequeue, SetStatus, ReconcileExpire, ReconcileSeal
<1>12. CASE Crash \/ Shutdown \/ Exit \/ Restart
  <2>1. CASE Shutdown
    BY <2>1
  <2> QED
    BY <1>12, <2>1 DEF Crash, Use, Vanish, IdleHandler, NoCallback, NoRecon, Exit, Restart
<1>13. CASE Fault
  BY <1>13 DEF Fault, StartEnqueueFails, Use, DispatchEnqueueFails, RetryEnqueueFails, ReenqueueFails,
       JobMayEnd, HandlerThrows, IdleHandler, CheckKeyFails, CallbackFails, NoCallback,
       RetryBreaksOff
<1> HIDE DEF Quietly, Restarting, RetryPending, AskInv, NobodyStops, RestartKnown, CancelInv, OwnsJob, Base,
       TypeOK, QueueOK, HandlerOK, CallbackOK, RequestsOK, SpentOK, redisVars, webVars, dbVars,
       queueVars, timerVars
<1> QED
  BY <1>1, <1>2, <1>3, <1>4, <1>5, <1>6, <1>7, <1>8, <1>9, <1>10, <1>11, <1>12, <1>13 DEF Next,
       Handler, Worker

\* Suffixed ids are taken one after another.
LEMMA SuffixKept ==
  ASSUME spent'.cancel = 0, TypeOK, AskInv, CancelInv, SuffixFree, [Next]_vars
  PROVE  SuffixFree'
<1>1. CASE Quietly
  BY <1>1, SuffixStays DEF Quietly
<1>2. CASE Reenqueue
  <2>1. /\ Use("suffix") /\ Enqueue(NextSuffix, jobPrompts[h.job]) /\ retryReq' = retryReq
        /\ Restarting /\ ~Restarting' /\ jobPrompts[h.job] \in SUBSET Prompt
    BY <1>2 DEF Reenqueue, Restarting, AskInv, RestartKnown, webVars, TypeOK, HandlerOK, QueueOK
  <2> QED
    BY <2>1, SuffixTaken DEF RetryPending
<1>3. CASE RetryEnqueue
  <2>1. /\ Use("suffix") /\ Enqueue(NextSuffix, retryReq.set) /\ h' = h
        /\ RetryPending /\ ~RetryPending' /\ retryReq.set \in SUBSET Prompt
    BY <1>3 DEF RetryEnqueue, RetryPending, TypeOK, RequestsOK
  <2> QED
    BY <2>1, SuffixTaken DEF Restarting
<1>4. CASE RetrySelect
  <2>1. /\ Use("retry") /\ spent.retry < MaxRetry /\ ~RetryPending
        /\ h' = h /\ jobState' = jobState
    BY <1>4 DEF RetrySelect, RetryPending, queueVars
  <2> QED
    BY <2>1, SuffixRaised DEF Restarting
<1>5. CASE Shutdown
  <2>1. /\ Use("shutdown") /\ spent.shutdown < MaxShutdown /\ ~Restarting
        /\ retryReq' = retryReq /\ jobState' = jobState
    BY <1>5 DEF Shutdown, Restarting, AskInv, RestartKnown, webVars, queueVars
  <2> QED
    BY <2>1, SuffixRaised DEF RetryPending
<1> QED
  BY <1>1, <1>2, <1>3, <1>4, <1>5, QuietSteps

\* The row is touched by every report that does not fail.
LEMMA RowKept ==
  ASSUME spent'.cancel = 0, FewFaults, TypeOK, AskInv, RowKnown, [Next]_vars
  PROVE  RowKnown'
<1> USE RunAssumption DEF RowKnown, Reporting, Answering, Worker, AskInv, LiveKnown, ZombieKnown,
     RestartKnown,
       NobodyStops, TodoUndone, Undone, FewFaults, AgentOK, TypeOK, RowsOK, QueueOK, HandlerOK,
       CallbackOK, RequestsOK, TimersOK, SpentOK, redisVars, webVars, dbVars, queueVars, timerVars
<1>1. CASE UNCHANGED vars \/ GrowStale \/ Expire
  BY <1>1 DEF vars, GrowStale, Quiet, NoCallback, Expire
<1>2. CASE Start \/ Dispatch
  BY <1>2 DEF Start, Dispatch, StartEnqueue, Enqueue, Base, StartMark, DispatchClaim, DispatchEnqueue,
       DispatchMark
<1>3. CASE \E j \in JobId : Pick(j) \/ Stalled(j)
  <2>1. ASSUME NEW j \in JobId, Pick(j) PROVE RowKnown'
    BY <2>1 DEF Pick, IdleHandler
  <2>2. ASSUME NEW j \in JobId, Stalled(j) PROVE RowKnown'
    BY <2>2 DEF Stalled
  <2> QED
    BY <1>3, <2>1, <2>2
<1>4. CASE Resume \/ Unavailable \/ Register \/ CheckKey
  <2>1. CASE Resume
    BY <2>1 DEF Resume
  <2>2. CASE Unavailable
    BY <2>2 DEF Unavailable
  <2>3. CASE Register
    BY <2>3 DEF Register
  <2>4. CASE CheckKey
    BY <2>4 DEF CheckKey
  <2> QED
    BY <1>4, <2>1, <2>2, <2>3, <2>4
<1>5. CASE \/ \E p \in Prompt : BeginAttempt(p)
           \/ \E b \in BOOLEAN : FailAttempt(b) \/ EndPrompts(b)
           \/ AnswerAttempt \/ SampleComplete \/ SeeAbort
  <2>1. ASSUME NEW p \in Prompt, BeginAttempt(p) PROVE RowKnown'
    BY <2>1 DEF BeginAttempt, Prompting, Report, NoCallback
  <2>2. ASSUME NEW b \in BOOLEAN, FailAttempt(b) PROVE RowKnown'
    BY <2>2 DEF FailAttempt, Prompting, Report, NoCallback
  <2>3. ASSUME NEW b \in BOOLEAN, EndPrompts(b) PROVE RowKnown'
    BY <2>3 DEF EndPrompts, Prompting, NoCallback
  <2>4. CASE AnswerAttempt
    BY <2>4 DEF AnswerAttempt, Prompting, Report, NoCallback
  <2>5. CASE SampleComplete
    BY <2>5 DEF SampleComplete, Prompting, NoCallback, AnswerMayCome
  <2>6. CASE SeeAbort
    BY <2>6 DEF SeeAbort, NoCallback
  <2> QED
    BY <1>5, <2>1, <2>2, <2>3, <2>4, <2>5, <2>6
<1>6. CASE Blame \/ SweepRead \/ SweepWrite \/ Tally \/ Settle \/ Ack
  <2>1. CASE Blame
    BY <2>1 DEF Blame
  <2>2. CASE SweepRead
    BY <2>2 DEF SweepRead, OpenPrompts, Open
  <2>3. CASE SweepWrite
    BY <2>3 DEF SweepWrite, SetStatus
  <2>4. CASE Tally
    BY <2>4 DEF Tally, JobMayEnd
  <2>5. CASE Settle
    BY <2>5 DEF Settle
  <2>6. CASE Ack
    BY <2>6 DEF Ack, IdleHandler
  <2> QED
    BY <1>6, <2>1, <2>2, <2>3, <2>4, <2>5, <2>6
<1>7. CASE Requeue \/ Reenqueue
  BY <1>7 DEF Requeue, Reenqueue, Use, Enqueue, NextSuffix
<1>8. CASE \E w \in Worker : Callback(w)
  BY <1>8 DEF Callback, AttemptRead, EndCallback, NoCallback, AttemptWrite, Touch, SampleIsolation,
       SampleReject, SamplePersist, AnswerMayLand
<1>9. CASE CancelLookup \/ Cancel \/ DeliverStop
  BY <1>9 DEF CancelLookup, Use, Cancel, CancelSetKey, CancelGetState, CancelRemove, CancelPublish,
       DeliverStop
<1>10. CASE RetrySelect \/ Retry
  BY <1>10 DEF Retry, RetrySelect, Use, Closed, RetryReopen, Touch, SetStatus, RetryRemove, RetryClear,
       RetryEnqueue, Enqueue, NextSuffix, RetryMark
<1>11. CASE Reconcile
  BY <1>11 DEF Reconcile, ReconcileSelect, NoRecon, ReconcileRead, OpenPrompts, Open, ReconcileClose,
       ReconcileLook, Live, ReconcileRequeue, SetStatus, ReconcileExpire, ReconcileSeal
<1>12. CASE Crash \/ Shutdown \/ Exit \/ Restart
  BY <1>12 DEF Crash, Use, Vanish, IdleHandler, NoCallback, NoRecon, Shutdown, Exit, Restart
<1>13. CASE Fault
  BY <1>13 DEF Fault, StartEnqueueFails, Use, DispatchEnqueueFails, RetryEnqueueFails, ReenqueueFails,
       JobMayEnd, HandlerThrows, IdleHandler, CheckKeyFails, CallbackFails, NoCallback,
       RetryBreaksOff
<1> HIDE DEF RowKnown, Reporting, Answering, AskInv, LiveKnown, ZombieKnown, RestartKnown, NobodyStops,
       TodoUndone, Undone, FewFaults, AgentOK, TypeOK, RowsOK, QueueOK, HandlerOK, CallbackOK,
       RequestsOK, TimersOK, SpentOK, redisVars, webVars, dbVars, queueVars, timerVars
<1> QED
  BY <1>1, <1>2, <1>3, <1>4, <1>5, <1>6, <1>7, <1>8, <1>9, <1>10, <1>11, <1>12, <1>13 DEF Next,
       Handler, Worker

\* What a retry found closed is not completed before it is reopened.
LEMMA RetryKept ==
  ASSUME spent'.cancel = 0, FewFaults, TypeOK, AskInv, RetryUndone, [Next]_vars
  PROVE  RetryUndone'
<1> USE DEF RetryUndone, Undone, AskInv, NobodyStops, EventKnown, LiveKnown, ZombieKnown, TodoUndone,
       Worker, Answering, FewFaults, TypeOK, RowsOK, QueueOK, HandlerOK, CallbackOK, RequestsOK,
       TimersOK, SpentOK, redisVars, webVars, dbVars, queueVars, timerVars
<1>1. CASE UNCHANGED vars \/ GrowStale \/ Expire
  BY <1>1 DEF vars, GrowStale, Quiet, NoCallback, Expire
<1>2. CASE Start \/ Dispatch
  BY <1>2 DEF Start, Dispatch, StartEnqueue, Enqueue, Base, StartMark, DispatchClaim, DispatchEnqueue,
       DispatchMark
<1>3. CASE \E j \in JobId : Pick(j) \/ Stalled(j)
  BY <1>3 DEF Pick, IdleHandler, Stalled
<1>4. CASE Resume \/ Unavailable \/ Register \/ CheckKey
  BY <1>4 DEF Resume, Unavailable, Register, CheckKey
<1>5. CASE \/ \E p \in Prompt : BeginAttempt(p)
           \/ \E b \in BOOLEAN : FailAttempt(b) \/ EndPrompts(b)
           \/ AnswerAttempt \/ SampleComplete \/ SeeAbort
  <2>1. ASSUME NEW p \in Prompt, BeginAttempt(p) PROVE RetryUndone'
    BY <2>1 DEF BeginAttempt, Prompting, Report, NoCallback
  <2>2. ASSUME NEW b \in BOOLEAN, FailAttempt(b) PROVE RetryUndone'
    BY <2>2 DEF FailAttempt, Prompting, Report, NoCallback
  <2>3. ASSUME NEW b \in BOOLEAN, EndPrompts(b) PROVE RetryUndone'
    BY <2>3 DEF EndPrompts, Prompting, NoCallback
  <2>4. CASE AnswerAttempt
    BY <2>4 DEF AnswerAttempt, Prompting, Report, NoCallback
  <2>5. CASE SampleComplete
    BY <2>5 DEF SampleComplete, Prompting, NoCallback, AnswerMayCome
  <2>6. CASE SeeAbort
    BY <2>6 DEF SeeAbort, NoCallback
  <2> QED
    BY <1>5, <2>1, <2>2, <2>3, <2>4, <2>5, <2>6
<1>6. CASE Blame \/ SweepRead \/ SweepWrite \/ Tally \/ Settle \/ Ack
  BY <1>6 DEF Blame, SweepRead, OpenPrompts, Open, SweepWrite, SetStatus, Tally, JobMayEnd, Settle, Ack,
       IdleHandler
<1>7. CASE Requeue \/ Reenqueue
  BY <1>7 DEF Requeue, Reenqueue, Use, Enqueue, NextSuffix
<1>8. CASE \E w \in Worker : Callback(w)
  BY <1>8 DEF Callback, AttemptRead, EndCallback, NoCallback, AttemptWrite, Touch, SampleIsolation,
       SampleReject, SamplePersist, AnswerMayLand
<1>9. CASE CancelLookup \/ Cancel \/ DeliverStop
  BY <1>9 DEF CancelLookup, Use, Cancel, CancelSetKey, CancelGetState, CancelRemove, CancelPublish,
       DeliverStop
<1>10. CASE RetrySelect \/ Retry
  BY <1>10 DEF Retry, RetrySelect, Use, Closed, RetryReopen, Touch, SetStatus, RetryRemove, RetryClear,
       RetryEnqueue, Enqueue, NextSuffix, RetryMark
<1>11. CASE Reconcile
  BY <1>11 DEF Reconcile, ReconcileSelect, NoRecon, ReconcileRead, OpenPrompts, Open, ReconcileClose,
       ReconcileLook, Live, ReconcileRequeue, SetStatus, ReconcileExpire, ReconcileSeal
<1>12. CASE Crash \/ Shutdown \/ Exit \/ Restart
  BY <1>12 DEF Crash, Use, Vanish, IdleHandler, NoCallback, NoRecon, Shutdown, Exit, Restart
<1>13. CASE Fault
  BY <1>13 DEF Fault, StartEnqueueFails, Use, DispatchEnqueueFails, RetryEnqueueFails, ReenqueueFails,
       JobMayEnd, HandlerThrows, IdleHandler, CheckKeyFails, CallbackFails, NoCallback,
       RetryBreaksOff
<1> HIDE DEF RetryUndone, Undone, AskInv, NobodyStops, EventKnown, LiveKnown, ZombieKnown, TodoUndone,
       Answering, FewFaults, TypeOK, RowsOK, QueueOK, HandlerOK, CallbackOK, RequestsOK, TimersOK,
       SpentOK, redisVars, webVars, dbVars, queueVars, timerVars
<1> QED
  BY <1>1, <1>2, <1>3, <1>4, <1>5, <1>6, <1>7, <1>8, <1>9, <1>10, <1>11, <1>12, <1>13 DEF Next,
       Handler, Worker

\* The replacement of an interrupted job waits for the collector to come back.
LEMMA ReconReenqueue ==
  ASSUME TypeOK, AskInv, CancelInv, SuffixFree, ReconUndone, Reenqueue
  PROVE  ReconUndone'
<1>1. /\ h.pc = "reenqueue" /\ h.abort = "shutdown" /\ agent = "draining"
  BY DEF Reenqueue, AskInv, RestartKnown
<1>2. /\ Use("suffix") /\ Enqueue(NextSuffix, jobPrompts[h.job]) /\ h' = [h EXCEPT !.pc = "ack"]
      /\ UNCHANGED <<ckpt, runAge, recon, cb, agent, retryReq>>
  BY DEF Reenqueue, dbVars, webVars, timerVars
<1>3. Restarting /\ ~Restarting' /\ (RetryPending' <=> RetryPending)
  BY <1>1, <1>2 DEF Restarting, RetryPending, TypeOK, HandlerOK
<1>4. jobPrompts[h.job] \in SUBSET Prompt
  BY DEF TypeOK, QueueOK, HandlerOK
<1>5. NextSuffix \in JobId /\ jobState'[NextSuffix] = "waiting"
  BY <1>2, <1>3, <1>4, SuffixTaken
<1>6. Held'
  BY <1>1, <1>2, <1>5 DEF Held
<1>7. recon.pc \in {"requeue", "expire"} =>
        Undone(recon.open) /\ \A w \in Worker : cb[w].step \notin Answering
  BY DEF ReconUndone
<1> QED
  BY <1>2, <1>6, <1>7 DEF ReconUndone, Undone

\* What recovery found open is not completed before it writes.
LEMMA ReconKept ==
  ASSUME spent'.cancel = 0, FewFaults, TypeOK, AskInv, CancelInv, SuffixFree, RowKnown, ReconUndone,
         [Next]_vars
  PROVE  ReconUndone'
<1> USE DEF ReconUndone, Held, Undone, AskInv, NobodyStops, RestartKnown, EventKnown, LiveKnown,
       ZombieKnown, TodoUndone, SweepUndone, RowKnown, Worker, Answering, FewFaults, CancelInv,
       OwnsJob, NothingRunsDown, TypeOK, RowsOK, QueueOK, HandlerOK, CallbackOK, RequestsOK, TimersOK,
       SpentOK, redisVars, webVars, dbVars, queueVars, timerVars
<1>1. CASE UNCHANGED vars \/ GrowStale \/ Expire
  BY <1>1 DEF vars, GrowStale, Quiet, NoCallback, Expire
<1>2. CASE Start \/ Dispatch
  BY <1>2 DEF Start, Dispatch, StartEnqueue, Enqueue, Base, StartMark, DispatchClaim, DispatchEnqueue,
       DispatchMark
<1>3. CASE \E j \in JobId : Pick(j) \/ Stalled(j)
  BY <1>3 DEF Pick, IdleHandler, Stalled
<1>4. CASE Resume \/ Unavailable \/ Register \/ CheckKey
  <2>1. CASE Resume
    BY <2>1 DEF Resume
  <2>2. CASE Unavailable
    BY <2>2 DEF Unavailable
  <2>3. CASE Register
    BY <2>3 DEF Register
  <2>4. CASE CheckKey
    BY <2>4 DEF CheckKey
  <2> QED
    BY <1>4, <2>1, <2>2, <2>3, <2>4
<1>5. CASE \/ \E p \in Prompt : BeginAttempt(p)
           \/ \E b \in BOOLEAN : FailAttempt(b) \/ EndPrompts(b)
           \/ AnswerAttempt \/ SampleComplete \/ SeeAbort
  <2>1. ASSUME NEW p \in Prompt, BeginAttempt(p) PROVE ReconUndone'
    BY <2>1 DEF BeginAttempt, Prompting, Report, NoCallback
  <2>2. ASSUME NEW b \in BOOLEAN, FailAttempt(b) PROVE ReconUndone'
    BY <2>2 DEF FailAttempt, Prompting, Report, NoCallback
  <2>3. ASSUME NEW b \in BOOLEAN, EndPrompts(b) PROVE ReconUndone'
    BY <2>3 DEF EndPrompts, Prompting, NoCallback
  <2>4. CASE AnswerAttempt
    BY <2>4 DEF AnswerAttempt, Prompting, Report, NoCallback
  <2>5. CASE SampleComplete
    BY <2>5 DEF SampleComplete, Prompting, NoCallback, AnswerMayCome
  <2>6. CASE SeeAbort
    BY <2>6 DEF SeeAbort, NoCallback
  <2> QED
    BY <1>5, <2>1, <2>2, <2>3, <2>4, <2>5, <2>6
<1>6. CASE Blame \/ SweepRead \/ SweepWrite \/ Tally \/ Settle \/ Ack
  <2>1. CASE Blame
    BY <2>1 DEF Blame
  <2>2. CASE SweepRead
    BY <2>2 DEF SweepRead, OpenPrompts, Open
  <2>3. CASE SweepWrite
    BY <2>3 DEF SweepWrite, SetStatus
  <2>4. CASE Tally
    BY <2>4 DEF Tally, JobMayEnd
  <2>5. CASE Settle
    BY <2>5 DEF Settle
  <2>6. CASE Ack
    BY <2>6 DEF Ack, IdleHandler
  <2> QED
    BY <1>6, <2>1, <2>2, <2>3, <2>4, <2>5, <2>6
<1>7. CASE Requeue \/ Reenqueue
  <2>1. CASE Reenqueue
    BY <2>1, ReconReenqueue
  <2> QED
    BY <1>7, <2>1 DEF Requeue
<1>8. CASE \E w \in Worker : Callback(w)
  BY <1>8 DEF Callback, AttemptRead, EndCallback, NoCallback, AttemptWrite, Touch, SampleIsolation,
       SampleReject, SamplePersist, AnswerMayLand
<1>9. CASE CancelLookup \/ Cancel \/ DeliverStop
  BY <1>9 DEF CancelLookup, Use, Cancel, CancelSetKey, CancelGetState, CancelRemove, CancelPublish,
       DeliverStop
<1>10. CASE RetrySelect \/ Retry
  BY <1>10 DEF Retry, RetrySelect, Use, Closed, RetryReopen, Touch, SetStatus, RetryRemove, RetryClear,
       RetryEnqueue, Enqueue, NextSuffix, RetryMark
<1>11. CASE Reconcile
  <2>1. CASE ReconcileSelect
    BY <2>1 DEF ReconcileSelect, NoRecon
  <2>2. CASE ReconcileRead
    BY <2>2 DEF ReconcileRead, OpenPrompts, Open
  <2>3. CASE ReconcileClose
    BY <2>3 DEF ReconcileClose, NoRecon
  <2>4. CASE ReconcileLook
    BY <2>4 DEF ReconcileLook, NoRecon, Live
  <2>5. CASE ReconcileRequeue
    BY <2>5 DEF ReconcileRequeue, NoRecon, SetStatus
  <2>6. CASE ReconcileExpire
    BY <2>6 DEF ReconcileExpire, SetStatus
  <2>7. CASE ReconcileSeal
    BY <2>7 DEF ReconcileSeal, NoRecon
  <2> QED
    BY <1>11, <2>1, <2>2, <2>3, <2>4, <2>5, <2>6, <2>7 DEF Reconcile
<1>12. CASE Crash \/ Shutdown \/ Exit \/ Restart
  BY <1>12 DEF Crash, Use, Vanish, IdleHandler, NoCallback, NoRecon, Shutdown, Exit, Restart
<1>13. CASE Fault
  BY <1>13 DEF Fault, StartEnqueueFails, Use, DispatchEnqueueFails, RetryEnqueueFails, ReenqueueFails,
       JobMayEnd, HandlerThrows, IdleHandler, CheckKeyFails, CallbackFails, NoCallback,
       RetryBreaksOff
<1> HIDE DEF ReconUndone, Held, Undone, AskInv, NobodyStops, RestartKnown, EventKnown, LiveKnown,
       ZombieKnown, TodoUndone, SweepUndone, RowKnown, Answering, FewFaults, CancelInv, OwnsJob,
       NothingRunsDown, TypeOK, RowsOK, QueueOK, HandlerOK, CallbackOK, RequestsOK, TimersOK, SpentOK,
       redisVars, webVars, dbVars, queueVars, timerVars
<1> QED
  BY <1>1, <1>2, <1>3, <1>4, <1>5, <1>6, <1>7, <1>8, <1>9, <1>10, <1>11, <1>12, <1>13 DEF Next,
       Handler, Worker

\* Every step keeps the invariant.
LEMMA NextKeep ==
  ASSUME spent'.cancel = 0, FewFaults, TypeOK, AskInv, CancelInv, KeepInv, [Next]_vars
  PROVE  KeepInv'
BY SuffixKept, RowKept, RetryKept, ReconKept DEF KeepInv

\* A write by the ids of an earlier read that meets an answer which has come in
\* since: recovery's (runs.ts:614, 673 and 709) and a retry's (2112, 2145).
StaleReset ==
  \/ /\ ReconcileRequeue \/ ReconcileExpire
     /\ \E p \in recon.open : ckpt[p] = "completed"
  \/ RetryReopen /\ \E p \in retryReq.set : ckpt[p] = "completed"

\* Who writes a sample writes one that is not completed, or completes it.
LEMMA CompletedKept ==
  ASSUME TypeOK, AskInv, ~StaleReset, [Next]_vars, NEW p \in Prompt, ckpt[p] = "completed"
  PROVE  ckpt'[p] = "completed"
<1>1. CASE \E w \in Worker : Callback(w)
  BY <1>1 DEF Callback, AttemptRead, AttemptWrite, SampleIsolation, SampleReject, SamplePersist,
       Touch, dbVars,
       TypeOK, RowsOK, CallbackOK, Worker, AskInv, LiveKnown, ZombieKnown, TodoUndone, Undone
<1>2. CASE Blame \/ SweepWrite \/ Requeue
  BY <1>2 DEF Blame, SweepWrite, Requeue, SetStatus, Open, TypeOK, RowsOK, AskInv, SweepUndone, Undone
<1>3. CASE RetryReopen
  BY <1>3 DEF RetryReopen, Touch, SetStatus, StaleReset
<1>4. CASE ReconcileRequeue \/ ReconcileExpire
  BY <1>4 DEF ReconcileRequeue, ReconcileExpire, SetStatus, StaleReset
<1>5. CASE UNCHANGED ckpt
  BY <1>5
<1>6. CASE UNCHANGED vars \/ Start \/ Dispatch \/ GrowStale \/ Expire \/ \E j \in JobId : Pick(j) \/ Stalled(j)
  BY <1>5, <1>6
     DEF vars, dbVars, Start, StartEnqueue, StartMark, Dispatch, DispatchClaim, DispatchEnqueue, DispatchMark,
         GrowStale, Expire, Pick, Stalled
<1>7. CASE Handler
  BY <1>2, <1>5, <1>7
     DEF dbVars, Handler, Resume, Unavailable, Register, CheckKey, BeginAttempt, FailAttempt, AnswerAttempt,
         SampleComplete, SeeAbort, EndPrompts, SweepRead, Tally, Settle, Ack, Reenqueue
<1>8. CASE CancelLookup \/ Cancel \/ DeliverStop \/ Crash \/ Shutdown \/ Exit \/ Restart
  BY <1>5, <1>8
     DEF dbVars, CancelLookup, Cancel, CancelSetKey, CancelGetState, CancelRemove, CancelPublish, DeliverStop,
         Crash, Shutdown, Exit, Vanish, Restart
<1>9. CASE RetrySelect \/ Retry \/ Fault
  BY <1>3, <1>5, <1>9
     DEF dbVars, RetrySelect, Retry, RetryRemove, RetryClear, RetryEnqueue, RetryMark, Fault,
         StartEnqueueFails, DispatchEnqueueFails, RetryEnqueueFails, ReenqueueFails, HandlerThrows,
         CheckKeyFails, CallbackFails, RetryBreaksOff
<1>10. CASE Reconcile
  BY <1>4, <1>5, <1>10
     DEF dbVars, Reconcile, ReconcileSelect, ReconcileRead, ReconcileClose, ReconcileLook, ReconcileSeal
<1> QED
  BY <1>1, <1>6, <1>7, <1>8, <1>9, <1>10 DEF Next, Worker

\* Two steps at most can ever take a completed sample back: recovery's and a
\* retry's write by the ids of an earlier read, where the answer came in between
\* the two.  All others leave it alone, late reports, isolation checks,
\* interrupted jobs and replacement jobs included: with any number of prompts,
\* failing calls, crashes, shutdowns and retries, if nobody cancels.
THEOREM StaysCompleted ==
  ASSUME MaxCancel = 0
  PROVE  Spec /\ [][~StaleReset]_vars => CompletedStays
<1> DEFINE Inv == TypeOK /\ AskInv
<1>1. Spec => []Inv
  <2>1. Init => Inv
    BY InitTyped, InitAsk
  <2>2. Inv /\ [Next]_vars => Inv'
    BY NextTyped, NextAsk, CancelsCounted DEF AskInv, NobodyStops
  <2> QED
    BY <2>1, <2>2, PTL DEF Spec
<1>2. Inv /\ [Next]_vars /\ [~StaleReset]_vars
        => [\A p \in Prompt : ckpt[p] = "completed" => ckpt'[p] = "completed"]_vars
  BY CompletedKept
<1> QED
  BY <1>1, <1>2, PTL DEF Spec, CompletedStays

\* Neither step meets an answer when no job overtakes a recovery pass and two
\* calls fail at most.  (With three failing calls recovery meets the answer of an
\* interrupted job whose reports and whose restart failed.)
LEMMA FewFaultsNoReset ==
  ASSUME MaxCancel = 0, FewFaults
  PROVE  Spec => [][~StaleReset]_vars
<1> DEFINE Inv == TypeOK /\ AskInv /\ CancelInv /\ KeepInv
<1>1. Spec => []Inv
  <2>1. Init => Inv
    BY InitTyped, InitAsk, InitCancel, InitKeep
  <2>2. Inv /\ [Next]_vars => Inv'
    BY NextTyped, NextAsk, NextCancel, NextKeep, CancelsCounted DEF AskInv, NobodyStops
  <2> QED
    BY <2>1, <2>2, PTL DEF Spec
<1>2. Inv => ~StaleReset
  BY DEF StaleReset, ReconcileRequeue, ReconcileExpire, RetryReopen, KeepInv, ReconUndone,
     RetryUndone, Undone
<1> QED
  BY <1>1, <1>2, PTL

-----------------------------------------------------------------------------
(* No sample is stranded.                                                  *)

\* No call fails, the jobs of a crashed collector are returned to the queue, and
\* no job overtakes a recovery pass.
NoFaults ==
  PassOvertaken = FALSE /\ MaxFault = 0 /\ MaxQueueFault = 0 /\ MaxCrash <= MaxStalled

Terminal == {"partial", "completed", "failed"}

\* A live job carries the sample, and its handler has not read the checkpoints
\* for the last time.
Leaving(j) == h.pc \in {"settle", "ack"} /\ h.job = j
Carries(j, p) == jobState[j] \in Live /\ p \in jobPrompts[j]
Cover(p) == \E j \in JobId : Carries(j, p) /\ ~Leaving(j)

\* ... or a retry is about to create one.
Awaits(p) == RetryPending /\ p \in retryReq.set
KeptOpen(p) == Awaits(p) \/ Cover(p)

NoneFails ==
  /\ startPc # "markFailed" /\ dispPc # "markFailed"
  /\ spent.fault = 0 /\ spent.queueFault = 0

\* A job is found stalled once for each crash at most.
Orphan(j) == jobState[j] = "active" /\ (h.pc = "idle" \/ h.job # j)
StallsCounted ==
  /\ spent.crash <= MaxCrash
  /\ \A j \in JobId : /\ stalls[j] <= spent.crash
                      /\ Orphan(j) => stalls[j] + 1 <= spent.crash

\* The runner works through the prompts of its job.
TodoOwned == h.pc \in {"register", "checkKey", "prompt"} => h.todo \subseteq jobPrompts[h.job]

\* No handler writes its verdict while recovery writes what it found.
SettlesAlone == recon.pc \in {"requeue", "expire", "seal"} => h.pc # "settle"

\* What an interrupted job's callback may still reopen has a job.
ZombieOwned == cb.zombie.step # "none" => Cover(cb.zombie.p)

\* A closed run leaves open only what has a job, and so does everyone who is
\* about to close it: the handler with its verdict and a recovery pass.
Ended ==
  runStatus \in Terminal /\ retryReq.pc = "idle" =>
    \A p \in Prompt : ckpt[p] \in Open =>
      IF h.pc = "settle" THEN \E j \in JobId : Carries(j, p) ELSE Cover(p)
VerdictTrue ==
  h.pc = "settle" /\ h.verdict \in Terminal =>
    \A p \in Prompt : ckpt[p] \in Open => KeptOpen(p)
CloseTrue ==
  recon.pc \in {"close", "seal"} =>
    \A p \in Prompt : ckpt[p] \in Open => KeptOpen(p)
ExpireTrue ==
  recon.pc \in {"look", "expire"} =>
    \A p \in Prompt : ckpt[p] \in Open => p \in recon.open \/ KeptOpen(p)

StrandInv ==
  /\ AskInv /\ SuffixFree /\ NoneFails /\ StallsCounted /\ TodoOwned /\ SettlesAlone /\ ZombieOwned
  /\ Ended /\ VerdictTrue /\ CloseTrue /\ ExpireTrue

\* The initial state has it.
LEMMA InitStrand == Init => StrandInv
<1> SUFFICES ASSUME Init PROVE StrandInv
  OBVIOUS
<1>1. NoneFails /\ TodoOwned /\ SettlesAlone /\ ZombieOwned
  BY DEF Init, NoneFails, TodoOwned, SettlesAlone, ZombieOwned, IdleHandler, NoCallback, NoRecon
<1>2. StallsCounted
  BY RunAssumption DEF Init, StallsCounted, Orphan
<1>3. Ended /\ VerdictTrue /\ CloseTrue /\ ExpireTrue
  BY DEF Init, Ended, VerdictTrue, CloseTrue, ExpireTrue, Terminal, IdleHandler, NoRecon
<1> QED
  BY <1>1, <1>2, <1>3, InitAsk, InitKeep DEF StrandInv, KeepInv

\* No call fails.
LEMMA NoneFailsKept ==
  ASSUME NoFaults, TypeOK, NoneFails, [Next]_vars
  PROVE  NoneFails'
<1> USE DEF NoneFails, NoFaults, TypeOK, RowsOK, QueueOK, HandlerOK, CallbackOK, RequestsOK, TimersOK,
       SpentOK, redisVars, webVars, dbVars, queueVars, timerVars
<1>1. CASE UNCHANGED vars \/ GrowStale \/ Expire
  BY <1>1 DEF vars, GrowStale, Quiet, NoCallback, Expire
<1>2. CASE Start \/ Dispatch
  BY <1>2 DEF Start, Dispatch, StartEnqueue, Enqueue, Base, StartMark, DispatchClaim, DispatchEnqueue,
       DispatchMark
<1>3. CASE \E j \in JobId : Pick(j) \/ Stalled(j)
  BY <1>3 DEF Pick, IdleHandler, Stalled
<1>4. CASE Resume \/ Unavailable \/ Register \/ CheckKey
  BY <1>4 DEF Resume, Unavailable, Register, CheckKey
<1>5. CASE \/ \E p \in Prompt : BeginAttempt(p)
           \/ \E b \in BOOLEAN : FailAttempt(b) \/ EndPrompts(b)
           \/ AnswerAttempt \/ SampleComplete \/ SeeAbort
  BY <1>5 DEF BeginAttempt, Prompting, Report, NoCallback, FailAttempt, EndPrompts, AnswerAttempt,
       SampleComplete, AnswerMayCome, SeeAbort
<1>6. CASE Blame \/ SweepRead \/ SweepWrite \/ Tally \/ Settle \/ Ack
  BY <1>6 DEF Blame, SweepRead, OpenPrompts, Open, SweepWrite, SetStatus, Tally, JobMayEnd, Settle, Ack,
       IdleHandler
<1>7. CASE Requeue \/ Reenqueue
  BY <1>7 DEF Requeue, Reenqueue, Use, Enqueue, NextSuffix
<1>8. CASE \E w \in Worker : Callback(w)
  BY <1>8 DEF Callback, AttemptRead, EndCallback, NoCallback, AttemptWrite, Touch, SampleIsolation,
       SampleReject, SamplePersist, AnswerMayLand
<1>9. CASE CancelLookup \/ Cancel \/ DeliverStop
  BY <1>9 DEF CancelLookup, Use, Cancel, CancelSetKey, CancelGetState, CancelRemove, CancelPublish,
       DeliverStop
<1>10. CASE RetrySelect \/ Retry
  BY <1>10 DEF Retry, RetrySelect, Use, Closed, RetryReopen, Touch, SetStatus, RetryRemove, RetryClear,
       RetryEnqueue, Enqueue, NextSuffix, RetryMark
<1>11. CASE Reconcile
  BY <1>11 DEF Reconcile, ReconcileSelect, NoRecon, ReconcileRead, OpenPrompts, Open, ReconcileClose,
       ReconcileLook, Live, ReconcileRequeue, SetStatus, ReconcileExpire, ReconcileSeal
<1>12. CASE Crash \/ Shutdown \/ Exit \/ Restart
  BY <1>12 DEF Crash, Use, Vanish, IdleHandler, NoCallback, NoRecon, Shutdown, Exit, Restart
<1>13. CASE Fault
  BY <1>13 DEF Fault, StartEnqueueFails, Use, DispatchEnqueueFails, RetryEnqueueFails, ReenqueueFails,
       JobMayEnd, HandlerThrows, IdleHandler, CheckKeyFails, CallbackFails, NoCallback,
       RetryBreaksOff
<1> HIDE DEF NoneFails, NoFaults, TypeOK, RowsOK, QueueOK, HandlerOK, CallbackOK, RequestsOK, TimersOK,
       SpentOK, redisVars, webVars, dbVars, queueVars, timerVars
<1> QED
  BY <1>1, <1>2, <1>3, <1>4, <1>5, <1>6, <1>7, <1>8, <1>9, <1>10, <1>11, <1>12, <1>13 DEF Next,
       Handler, Worker

\* A job that is added has not stalled.
LEMMA AddedNotStalled ==
  ASSUME TypeOK, StallsCounted, NEW i, NEW S \in SUBSET Prompt, Enqueue(i, S),
         spent'.crash = spent.crash, h'.job = h.job, h'.pc = "idle" => h.pc = "idle"
  PROVE  StallsCounted'
<1>1. spent.crash \in Nat
  BY DEF TypeOK, SpentOK
<1>2. ASSUME NEW j \in JobId PROVE stalls'[j] <= spent.crash /\ (Orphan(j)' => stalls'[j] + 1 <= spent.crash)
  <2>1. stalls[j] <= spent.crash /\ (Orphan(j) => stalls[j] + 1 <= spent.crash)
    BY DEF StallsCounted
  <2>2. CASE j = i /\ jobState[i] = "none"
    <3>1. stalls'[j] = 0 /\ jobState'[j] = "waiting"
      BY <2>2 DEF Enqueue, TypeOK, QueueOK
    <3> QED
      BY <1>1, <3>1 DEF Orphan
  <2>3. CASE ~(j = i /\ jobState[i] = "none")
    <3>1. stalls'[j] = stalls[j] /\ jobState'[j] = jobState[j]
      BY <2>3 DEF Enqueue, queueVars, TypeOK, QueueOK
    <3> QED
      BY <2>1, <3>1 DEF Orphan
  <2> QED
    BY <2>2, <2>3
<1> QED
  BY <1>2 DEF StallsCounted

\* Each stall is the work of a crash.
LEMMA StallsKept ==
  ASSUME spent'.cancel = 0, NoFaults, TypeOK, AskInv, CancelInv, NoneFails, StallsCounted, [Next]_vars
  PROVE  StallsCounted'
<1> USE RunAssumption DEF StallsCounted, Orphan, CancelInv, OwnsJob, NoFaults, NoneFails, AskInv,
     NobodyStops, JobId,
       Base, TypeOK, RowsOK, QueueOK, HandlerOK, CallbackOK, RequestsOK, TimersOK, SpentOK, redisVars,
       webVars, dbVars, queueVars, timerVars
<1>1. CASE UNCHANGED vars \/ GrowStale \/ Expire
  BY <1>1 DEF vars, GrowStale, Quiet, NoCallback, Expire
<1>2. CASE Start \/ Dispatch
  <2>1. CASE StartEnqueue
    BY <2>1, AddedNotStalled DEF StartEnqueue, Base
  <2>2. CASE DispatchEnqueue
    BY <2>2, AddedNotStalled DEF DispatchEnqueue, Base
  <2> QED
    BY <1>2, <2>1, <2>2 DEF Start, Dispatch, StartMark, DispatchClaim, DispatchMark
<1>3. CASE \E j \in JobId : Pick(j) \/ Stalled(j)
  <2>1. ASSUME NEW j \in JobId, Pick(j) PROVE StallsCounted'
    BY <2>1 DEF Pick, IdleHandler
  <2>2. ASSUME NEW j \in JobId, Stalled(j) PROVE StallsCounted'
    BY <2>2 DEF Stalled
  <2> QED
    BY <1>3, <2>1, <2>2
<1>4. CASE Resume \/ Unavailable \/ Register \/ CheckKey
  <2>1. CASE Resume
    BY <2>1 DEF Resume
  <2>2. CASE Unavailable
    BY <2>2 DEF Unavailable
  <2>3. CASE Register
    BY <2>3 DEF Register
  <2>4. CASE CheckKey
    BY <2>4 DEF CheckKey
  <2> QED
    BY <1>4, <2>1, <2>2, <2>3, <2>4
<1>5. CASE \/ \E p \in Prompt : BeginAttempt(p)
           \/ \E b \in BOOLEAN : FailAttempt(b) \/ EndPrompts(b)
           \/ AnswerAttempt \/ SampleComplete \/ SeeAbort
  <2>1. ASSUME NEW p \in Prompt, BeginAttempt(p) PROVE StallsCounted'
    BY <2>1 DEF BeginAttempt, Prompting, Report, NoCallback
  <2>2. ASSUME NEW b \in BOOLEAN, FailAttempt(b) PROVE StallsCounted'
    BY <2>2 DEF FailAttempt, Prompting, Report, NoCallback
  <2>3. ASSUME NEW b \in BOOLEAN, EndPrompts(b) PROVE StallsCounted'
    BY <2>3 DEF EndPrompts, Prompting, NoCallback
  <2>4. CASE AnswerAttempt
    BY <2>4 DEF AnswerAttempt, Prompting, Report, NoCallback
  <2>5. CASE SampleComplete
    BY <2>5 DEF SampleComplete, Prompting, NoCallback, AnswerMayCome
  <2>6. CASE SeeAbort
    BY <2>6 DEF SeeAbort, NoCallback
  <2> QED
    BY <1>5, <2>1, <2>2, <2>3, <2>4, <2>5, <2>6
<1>6. CASE Blame \/ SweepRead \/ SweepWrite \/ Tally \/ Settle \/ Ack
  <2>1. CASE Blame
    BY <2>1 DEF Blame
  <2>2. CASE SweepRead
    BY <2>2 DEF SweepRead, OpenPrompts, Open
  <2>3. CASE SweepWrite
    BY <2>3 DEF SweepWrite, SetStatus
  <2>4. CASE Tally
    BY <2>4 DEF Tally, JobMayEnd
  <2>5. CASE Settle
    BY <2>5 DEF Settle
  <2>6. CASE Ack
    BY <2>6 DEF Ack, IdleHandler
  <2> QED
    BY <1>6, <2>1, <2>2, <2>3, <2>4, <2>5, <2>6
<1>7. CASE Requeue \/ Reenqueue
  <2>1. CASE Reenqueue
    <3>1. Use("suffix") /\ Enqueue(NextSuffix, jobPrompts[h.job]) /\ h'.job = h.job /\ h'.pc = "ack"
      BY <2>1 DEF Reenqueue
    <3>2. spent'.crash = spent.crash /\ jobPrompts[h.job] \in SUBSET Prompt
      BY <3>1, UseCounts
    <3> QED
      BY <3>1, <3>2, AddedNotStalled
  <2> QED
    BY <1>7, <2>1 DEF Requeue
<1>8. CASE \E w \in Worker : Callback(w)
  <2>1. ASSUME NEW w \in Worker, AttemptRead(w) PROVE StallsCounted'
    BY <2>1 DEF AttemptRead, EndCallback, NoCallback
  <2>2. ASSUME NEW w \in Worker, AttemptWrite(w) PROVE StallsCounted'
    BY <2>2 DEF AttemptWrite, EndCallback, NoCallback, Touch
  <2>3. ASSUME NEW w \in Worker, SampleIsolation(w) PROVE StallsCounted'
    <3>1. UNCHANGED <<jobState, stalls, spent>> /\ h'.job = h.job /\ h'.pc = h.pc
      BY <2>3 DEF SampleIsolation
    <3> HIDE DEF TypeOK, AskInv, CancelInv
    <3> QED
      BY <3>1
  <2>4. ASSUME NEW w \in Worker, SampleReject(w) PROVE StallsCounted'
    BY <2>4 DEF SampleReject, EndCallback, NoCallback, Touch
  <2>5. ASSUME NEW w \in Worker, SamplePersist(w) PROVE StallsCounted'
    BY <2>5 DEF SamplePersist, EndCallback, NoCallback, Touch, AnswerMayLand
  <2> QED
    BY <1>8, <2>1, <2>2, <2>3, <2>4, <2>5 DEF Callback
<1>9. CASE CancelLookup \/ Cancel \/ DeliverStop
  BY <1>9 DEF CancelLookup, Use, Cancel, CancelSetKey, CancelGetState, CancelRemove, CancelPublish,
       DeliverStop
<1>10. CASE RetrySelect \/ Retry
  <2>1. CASE RetrySelect
    BY <2>1 DEF RetrySelect, Use, Closed
  <2>2. CASE RetryReopen
    BY <2>2 DEF RetryReopen, Touch, SetStatus
  <2>3. CASE RetryRemove
    BY <2>3 DEF RetryRemove
  <2>4. CASE RetryClear
    BY <2>4 DEF RetryClear
  <2>5. CASE RetryEnqueue
    <3>1. Use("suffix") /\ Enqueue(NextSuffix, retryReq.set) /\ h' = h
      BY <2>5 DEF RetryEnqueue
    <3>2. spent'.crash = spent.crash /\ retryReq.set \in SUBSET Prompt
      BY <3>1, UseCounts
    <3> QED
      BY <3>1, <3>2, AddedNotStalled
  <2>6. CASE RetryMark
    BY <2>6 DEF RetryMark
  <2> QED
    BY <1>10, <2>1, <2>2, <2>3, <2>4, <2>5, <2>6 DEF Retry
<1>11. CASE Reconcile
  BY <1>11 DEF Reconcile, ReconcileSelect, NoRecon, ReconcileRead, OpenPrompts, Open, ReconcileClose,
       ReconcileLook, Live, ReconcileRequeue, SetStatus, ReconcileExpire, ReconcileSeal
<1>12. CASE Crash \/ Shutdown \/ Exit \/ Restart
  <2>1. CASE Crash
    BY <2>1 DEF Crash, Use, Vanish, IdleHandler, NoCallback, NoRecon
  <2>2. CASE Shutdown
    BY <2>2 DEF Shutdown, Use
  <2>3. CASE Exit
    BY <2>3 DEF Exit, Vanish, IdleHandler, NoCallback, NoRecon
  <2>4. CASE Restart
    BY <2>4 DEF Restart
  <2> QED
    BY <1>12, <2>1, <2>2, <2>3, <2>4
<1>13. CASE Fault
  BY <1>13 DEF Fault, StartEnqueueFails, Use, DispatchEnqueueFails, RetryEnqueueFails, ReenqueueFails,
       JobMayEnd, HandlerThrows, IdleHandler, CheckKeyFails, CallbackFails, NoCallback,
       RetryBreaksOff
<1> HIDE DEF StallsCounted, Orphan, CancelInv, OwnsJob, NoFaults, NoneFails, AskInv, NobodyStops, JobId,
       Base, TypeOK, RowsOK, QueueOK, HandlerOK, CallbackOK, RequestsOK, TimersOK, SpentOK, redisVars,
       webVars, dbVars, queueVars, timerVars
<1> QED
  BY <1>1, <1>2, <1>3, <1>4, <1>5, <1>6, <1>7, <1>8, <1>9, <1>10, <1>11, <1>12, <1>13 DEF Next,
       Handler, Worker

\* What is still to be done is in the job's payload.
LEMMA TodoKept ==
  ASSUME TypeOK, CancelInv, TodoOwned, [Next]_vars
  PROVE  TodoOwned'
<1> USE DEF TodoOwned, CancelInv, OwnsJob, TypeOK, RowsOK, QueueOK, HandlerOK, CallbackOK, RequestsOK,
       TimersOK, SpentOK, redisVars, webVars, dbVars, queueVars, timerVars
<1>1. CASE UNCHANGED vars \/ GrowStale \/ Expire
  BY <1>1 DEF vars, GrowStale, Quiet, NoCallback, Expire
<1>2. CASE Start \/ Dispatch
  BY <1>2 DEF Start, Dispatch, StartEnqueue, Enqueue, Base, StartMark, DispatchClaim, DispatchEnqueue,
       DispatchMark
<1>3. CASE \E j \in JobId : Pick(j) \/ Stalled(j)
  <2>1. ASSUME NEW j \in JobId, Pick(j) PROVE TodoOwned'
    BY <2>1 DEF Pick, IdleHandler
  <2>2. ASSUME NEW j \in JobId, Stalled(j) PROVE TodoOwned'
    BY <2>2 DEF Stalled
  <2> QED
    BY <1>3, <2>1, <2>2
<1>4. CASE Resume \/ Unavailable \/ Register \/ CheckKey
  <2>1. CASE Resume
    BY <2>1 DEF Resume
  <2>2. CASE Unavailable
    BY <2>2 DEF Unavailable
  <2>3. CASE Register
    BY <2>3 DEF Register
  <2>4. CASE CheckKey
    BY <2>4 DEF CheckKey
  <2> QED
    BY <1>4, <2>1, <2>2, <2>3, <2>4
<1>5. CASE \/ \E p \in Prompt : BeginAttempt(p)
           \/ \E b \in BOOLEAN : FailAttempt(b) \/ EndPrompts(b)
           \/ AnswerAttempt \/ SampleComplete \/ SeeAbort
  <2>1. ASSUME NEW p \in Prompt, BeginAttempt(p) PROVE TodoOwned'
    BY <2>1 DEF BeginAttempt, Prompting, Report, NoCallback
  <2>2. ASSUME NEW b \in BOOLEAN, FailAttempt(b) PROVE TodoOwned'
    BY <2>2 DEF FailAttempt, Prompting, Report, NoCallback
  <2>3. ASSUME NEW b \in BOOLEAN, EndPrompts(b) PROVE TodoOwned'
    BY <2>3 DEF EndPrompts, Prompting, NoCallback
  <2>4. CASE AnswerAttempt
    BY <2>4 DEF AnswerAttempt, Prompting, Report, NoCallback
  <2>5. CASE SampleComplete
    BY <2>5 DEF SampleComplete, Prompting, NoCallback, AnswerMayCome
  <2>6. CASE SeeAbort
    BY <2>6 DEF SeeAbort, NoCallback
  <2> QED
    BY <1>5, <2>1, <2>2, <2>3, <2>4, <2>5, <2>6
<1>6. CASE Blame \/ SweepRead \/ SweepWrite \/ Tally \/ Settle \/ Ack
  <2>1. CASE Blame
    BY <2>1 DEF Blame
  <2>2. CASE SweepRead
    BY <2>2 DEF SweepRead, OpenPrompts, Open
  <2>3. CASE SweepWrite
    BY <2>3 DEF SweepWrite, SetStatus
  <2>4. CASE Tally
    BY <2>4 DEF Tally, JobMayEnd
  <2>5. CASE Settle
    BY <2>5 DEF Settle
  <2>6. CASE Ack
    BY <2>6 DEF Ack, IdleHandler
  <2> QED
    BY <1>6, <2>1, <2>2, <2>3, <2>4, <2>5, <2>6
<1>7. CASE Requeue \/ Reenqueue
  BY <1>7 DEF Requeue, Reenqueue, Use, Enqueue, NextSuffix
<1>8. CASE \E w \in Worker : Callback(w)
  BY <1>8 DEF Callback, AttemptRead, EndCallback, NoCallback, AttemptWrite, Touch, SampleIsolation,
       SampleReject, SamplePersist, AnswerMayLand
<1>9. CASE CancelLookup \/ Cancel \/ DeliverStop
  BY <1>9 DEF CancelLookup, Use, Cancel, CancelSetKey, CancelGetState, CancelRemove, CancelPublish,
       DeliverStop
<1>10. CASE RetrySelect \/ Retry
  BY <1>10 DEF Retry, RetrySelect, Use, Closed, RetryReopen, Touch, SetStatus, RetryRemove, RetryClear,
       RetryEnqueue, Enqueue, NextSuffix, RetryMark
<1>11. CASE Reconcile
  BY <1>11 DEF Reconcile, ReconcileSelect, NoRecon, ReconcileRead, OpenPrompts, Open, ReconcileClose,
       ReconcileLook, Live, ReconcileRequeue, SetStatus, ReconcileExpire, ReconcileSeal
<1>12. CASE Crash \/ Shutdown \/ Exit \/ Restart
  BY <1>12 DEF Crash, Use, Vanish, IdleHandler, NoCallback, NoRecon, Shutdown, Exit, Restart
<1>13. CASE Fault
  BY <1>13 DEF Fault, StartEnqueueFails, Use, DispatchEnqueueFails, RetryEnqueueFails, ReenqueueFails,
       JobMayEnd, HandlerThrows, IdleHandler, CheckKeyFails, CallbackFails, NoCallback,
       RetryBreaksOff
<1> HIDE DEF TodoOwned, CancelInv, OwnsJob, TypeOK, RowsOK, QueueOK, HandlerOK, CallbackOK, RequestsOK,
       TimersOK, SpentOK, redisVars, webVars, dbVars, queueVars, timerVars
<1> QED
  BY <1>1, <1>2, <1>3, <1>4, <1>5, <1>6, <1>7, <1>8, <1>9, <1>10, <1>11, <1>12, <1>13 DEF Next,
       Handler, Worker

\* No job ends while recovery looks.
LEMMA SettlesKept ==
  ASSUME NoFaults, TypeOK, CancelInv, SettlesAlone, [Next]_vars
  PROVE  SettlesAlone'
<1> USE DEF SettlesAlone, NoFaults, Live, CancelInv, OwnsJob, TypeOK, RowsOK, QueueOK, HandlerOK,
       CallbackOK, RequestsOK, TimersOK, SpentOK, redisVars, webVars, dbVars, queueVars, timerVars
<1>1. CASE UNCHANGED vars \/ GrowStale \/ Expire
  BY <1>1 DEF vars, GrowStale, Quiet, NoCallback, Expire
<1>2. CASE Start \/ Dispatch
  BY <1>2 DEF Start, Dispatch, StartEnqueue, Enqueue, Base, StartMark, DispatchClaim, DispatchEnqueue,
       DispatchMark
<1>3. CASE \E j \in JobId : Pick(j) \/ Stalled(j)
  <2>1. ASSUME NEW j \in JobId, Pick(j) PROVE SettlesAlone'
    BY <2>1 DEF Pick, IdleHandler
  <2>2. ASSUME NEW j \in JobId, Stalled(j) PROVE SettlesAlone'
    BY <2>2 DEF Stalled
  <2> QED
    BY <1>3, <2>1, <2>2
<1>4. CASE Resume \/ Unavailable \/ Register \/ CheckKey
  BY <1>4 DEF Resume, Unavailable, Register, CheckKey
<1>5. CASE \/ \E p \in Prompt : BeginAttempt(p)
           \/ \E b \in BOOLEAN : FailAttempt(b) \/ EndPrompts(b)
           \/ AnswerAttempt \/ SampleComplete \/ SeeAbort
  <2>1. ASSUME NEW p \in Prompt, BeginAttempt(p) PROVE SettlesAlone'
    BY <2>1 DEF BeginAttempt, Prompting, Report, NoCallback
  <2>2. ASSUME NEW b \in BOOLEAN, FailAttempt(b) PROVE SettlesAlone'
    BY <2>2 DEF FailAttempt, Prompting, Report, NoCallback
  <2>3. ASSUME NEW b \in BOOLEAN, EndPrompts(b) PROVE SettlesAlone'
    BY <2>3 DEF EndPrompts, Prompting, NoCallback
  <2>4. CASE AnswerAttempt
    BY <2>4 DEF AnswerAttempt, Prompting, Report, NoCallback
  <2>5. CASE SampleComplete
    BY <2>5 DEF SampleComplete, Prompting, NoCallback, AnswerMayCome
  <2>6. CASE SeeAbort
    BY <2>6 DEF SeeAbort, NoCallback
  <2> QED
    BY <1>5, <2>1, <2>2, <2>3, <2>4, <2>5, <2>6
<1>6. CASE Blame \/ SweepRead \/ SweepWrite \/ Tally \/ Settle \/ Ack
  <2>1. CASE Blame
    BY <2>1 DEF Blame
  <2>2. CASE SweepRead
    BY <2>2 DEF SweepRead, OpenPrompts, Open
  <2>3. CASE SweepWrite
    BY <2>3 DEF SweepWrite, SetStatus
  <2>4. CASE Tally
    BY <2>4 DEF Tally, JobMayEnd
  <2>5. CASE Settle
    BY <2>5 DEF Settle
  <2>6. CASE Ack
    BY <2>6 DEF Ack, IdleHandler
  <2> QED
    BY <1>6, <2>1, <2>2, <2>3, <2>4, <2>5, <2>6
<1>7. CASE Requeue \/ Reenqueue
  BY <1>7 DEF Requeue, Reenqueue, Use, Enqueue, NextSuffix
<1>8. CASE \E w \in Worker : Callback(w)
  BY <1>8 DEF Callback, AttemptRead, EndCallback, NoCallback, AttemptWrite, Touch, SampleIsolation,
       SampleReject, SamplePersist, AnswerMayLand
<1>9. CASE CancelLookup \/ Cancel \/ DeliverStop
  BY <1>9 DEF CancelLookup, Use, Cancel, CancelSetKey, CancelGetState, CancelRemove, CancelPublish,
       DeliverStop
<1>10. CASE RetrySelect \/ Retry
  BY <1>10 DEF Retry, RetrySelect, Use, Closed, RetryReopen, Touch, SetStatus, RetryRemove, RetryClear,
       RetryEnqueue, Enqueue, NextSuffix, RetryMark
<1>11. CASE Reconcile
  <2>1. CASE ReconcileSelect
    BY <2>1 DEF ReconcileSelect, NoRecon
  <2>2. CASE ReconcileRead
    BY <2>2 DEF ReconcileRead, OpenPrompts, Open
  <2>3. CASE ReconcileClose
    BY <2>3 DEF ReconcileClose, NoRecon
  <2>4. CASE ReconcileLook
    BY <2>4 DEF ReconcileLook, NoRecon
  <2>5. CASE ReconcileRequeue
    BY <2>5 DEF ReconcileRequeue, NoRecon, SetStatus
  <2>6. CASE ReconcileExpire
    BY <2>6 DEF ReconcileExpire, SetStatus
  <2>7. CASE ReconcileSeal
    BY <2>7 DEF ReconcileSeal, NoRecon
  <2> QED
    BY <1>11, <2>1, <2>2, <2>3, <2>4, <2>5, <2>6, <2>7 DEF Reconcile
<1>12. CASE Crash \/ Shutdown \/ Exit \/ Restart
  BY <1>12 DEF Crash, Use, Vanish, IdleHandler, NoCallback, NoRecon, Shutdown, Exit, Restart
<1>13. CASE Fault
  BY <1>13 DEF Fault, StartEnqueueFails, Use, DispatchEnqueueFails, RetryEnqueueFails, ReenqueueFails,
       JobMayEnd, HandlerThrows, IdleHandler, CheckKeyFails, CallbackFails, NoCallback,
       RetryBreaksOff
<1> HIDE DEF SettlesAlone, NoFaults, Live, CancelInv, OwnsJob, TypeOK, RowsOK, QueueOK, HandlerOK,
       CallbackOK, RequestsOK, TimersOK, SpentOK, redisVars, webVars, dbVars, queueVars, timerVars
<1> QED
  BY <1>1, <1>2, <1>3, <1>4, <1>5, <1>6, <1>7, <1>8, <1>9, <1>10, <1>11, <1>12, <1>13 DEF Next,
       Handler, Worker

\* A sample keeps its job until the job's last read: a crash or a shutdown returns the
\* job or replaces it.
LEMMA CoverKept ==
  ASSUME spent'.cancel = 0, NoFaults, TypeOK, AskInv, CancelInv, SuffixFree, NoneFails,
         StallsCounted, NEW q \in Prompt, Cover(q), [Next]_vars
  PROVE  Tally \/ Cover(q)'
<1> USE RunAssumption DEF Cover, Carries, Leaving, Live, CancelInv, OwnsJob, NoFaults, NoneFails,
     AskInv, NobodyStops,
       RestartKnown, StallsCounted, Orphan, TypeOK, RowsOK, QueueOK, HandlerOK, CallbackOK,
       RequestsOK, TimersOK, SpentOK, redisVars, webVars, dbVars, queueVars, timerVars
<1>1. CASE UNCHANGED vars \/ GrowStale \/ Expire
  BY <1>1 DEF vars, GrowStale, Quiet, NoCallback, Expire
<1>2. CASE Start \/ Dispatch
  BY <1>2 DEF Start, Dispatch, StartEnqueue, Enqueue, Base, StartMark, DispatchClaim, DispatchEnqueue,
       DispatchMark
<1>3. CASE \E j \in JobId : Pick(j) \/ Stalled(j)
  <2>1. ASSUME NEW j \in JobId, Pick(j) PROVE Tally \/ Cover(q)'
    BY <2>1 DEF Pick, IdleHandler
  <2>2. ASSUME NEW j \in JobId, Stalled(j) PROVE Tally \/ Cover(q)'
    BY <2>2 DEF Stalled
  <2> QED
    BY <1>3, <2>1, <2>2
<1>4. CASE Resume \/ Unavailable \/ Register \/ CheckKey
  <2>1. CASE Resume
    BY <2>1 DEF Resume
  <2>2. CASE Unavailable
    BY <2>2 DEF Unavailable
  <2>3. CASE Register
    BY <2>3 DEF Register
  <2>4. CASE CheckKey
    BY <2>4 DEF CheckKey
  <2> QED
    BY <1>4, <2>1, <2>2, <2>3, <2>4
<1>5. CASE \/ \E p \in Prompt : BeginAttempt(p)
           \/ \E b \in BOOLEAN : FailAttempt(b) \/ EndPrompts(b)
           \/ AnswerAttempt \/ SampleComplete \/ SeeAbort
  <2>1. ASSUME NEW p \in Prompt, BeginAttempt(p) PROVE Tally \/ Cover(q)'
    BY <2>1 DEF BeginAttempt, Prompting, Report, NoCallback
  <2>2. ASSUME NEW b \in BOOLEAN, FailAttempt(b) PROVE Tally \/ Cover(q)'
    BY <2>2 DEF FailAttempt, Prompting, Report, NoCallback
  <2>3. ASSUME NEW b \in BOOLEAN, EndPrompts(b) PROVE Tally \/ Cover(q)'
    BY <2>3 DEF EndPrompts, Prompting, NoCallback
  <2>4. CASE AnswerAttempt
    BY <2>4 DEF AnswerAttempt, Prompting, Report, NoCallback
  <2>5. CASE SampleComplete
    BY <2>5 DEF SampleComplete, Prompting, NoCallback, AnswerMayCome
  <2>6. CASE SeeAbort
    BY <2>6 DEF SeeAbort, NoCallback
  <2> QED
    BY <1>5, <2>1, <2>2, <2>3, <2>4, <2>5, <2>6
<1>6. CASE Blame \/ SweepRead \/ SweepWrite \/ Tally \/ Settle \/ Ack
  <2>1. CASE Blame
    BY <2>1 DEF Blame
  <2>2. CASE SweepRead
    BY <2>2 DEF SweepRead, OpenPrompts, Open
  <2>3. CASE SweepWrite
    BY <2>3 DEF SweepWrite, SetStatus
  <2>4. CASE Tally
    BY <2>4 DEF Tally, JobMayEnd
  <2>5. CASE Settle
    BY <2>5 DEF Settle
  <2>6. CASE Ack
    BY <2>6 DEF Ack, IdleHandler
  <2> QED
    BY <1>6, <2>1, <2>2, <2>3, <2>4, <2>5, <2>6
<1>7. CASE Requeue \/ Reenqueue
  <2>1. CASE Reenqueue
    <3>1. /\ Use("suffix") /\ Enqueue(NextSuffix, jobPrompts[h.job]) /\ Restarting /\ ~Restarting'
          /\ retryReq' = retryReq /\ h.pc = "reenqueue" /\ h'.pc = "ack" /\ h'.job = h.job
      BY <2>1 DEF Reenqueue, Restarting
    <3>2. PICK j \in JobId : Carries(j, q) /\ ~Leaving(j)
      OBVIOUS
    <3>3. /\ NextSuffix \in JobId /\ jobState[NextSuffix] = "none"
          /\ \A i \in JobId : jobState'[i] = IF i = NextSuffix THEN "waiting" ELSE jobState[i]
          /\ \A i \in JobId : jobPrompts'[i] = IF i = NextSuffix THEN jobPrompts[h.job] ELSE jobPrompts[i]
      BY <3>1, SuffixTaken DEF RetryPending
    <3>4. CASE j = h.job
      <4>1. NextSuffix # h.job
        BY <3>1, <3>3
      <4> QED
        BY <3>1, <3>2, <3>3, <3>4, <4>1
    <3>5. CASE j # h.job
      BY <3>1, <3>2, <3>3, <3>5
    <3> QED
      BY <3>4, <3>5
  <2> QED
    BY <1>7, <2>1 DEF Requeue
<1>8. CASE \E w \in Worker : Callback(w)
  BY <1>8 DEF Callback, AttemptRead, EndCallback, NoCallback, AttemptWrite, Touch, SampleIsolation,
       SampleReject, SamplePersist, AnswerMayLand
<1>9. CASE CancelLookup \/ Cancel \/ DeliverStop
  BY <1>9 DEF CancelLookup, Use, Cancel, CancelSetKey, CancelGetState, CancelRemove, CancelPublish,
       DeliverStop
<1>10. CASE RetrySelect \/ Retry
  <2>1. CASE RetryEnqueue
    <3>1. /\ Use("suffix") /\ Enqueue(NextSuffix, retryReq.set) /\ RetryPending /\ ~RetryPending' /\ h' = h
      BY <2>1 DEF RetryEnqueue, RetryPending
    <3>2. PICK j \in JobId : Carries(j, q) /\ ~Leaving(j)
      OBVIOUS
    <3>3. /\ NextSuffix \in JobId /\ jobState[NextSuffix] = "none"
          /\ \A i \in JobId : jobState'[i] = IF i = NextSuffix THEN "waiting" ELSE jobState[i]
          /\ \A i \in JobId : jobPrompts'[i] = IF i = NextSuffix THEN retryReq.set ELSE jobPrompts[i]
      BY <3>1, SuffixTaken DEF Restarting
    <3> QED
      BY <3>1, <3>2, <3>3
  <2> QED
    BY <1>10, <2>1 DEF Retry, RetrySelect, Use, Closed, RetryReopen, Touch, SetStatus, RetryRemove,
         RetryClear,
       RetryMark
<1>11. CASE Reconcile
  BY <1>11 DEF Reconcile, ReconcileSelect, NoRecon, ReconcileRead, OpenPrompts, Open, ReconcileClose,
       ReconcileLook, ReconcileRequeue, SetStatus, ReconcileExpire, ReconcileSeal
<1>12. CASE Crash \/ Shutdown \/ Exit \/ Restart
  BY <1>12 DEF Crash, Use, Vanish, IdleHandler, NoCallback, NoRecon, Shutdown, Exit, Restart
<1>13. CASE Fault
  BY <1>13 DEF Fault, StartEnqueueFails, Use, DispatchEnqueueFails, RetryEnqueueFails, ReenqueueFails,
       JobMayEnd, HandlerThrows, IdleHandler, CheckKeyFails, CallbackFails, NoCallback,
       RetryBreaksOff
<1> HIDE DEF Cover, Carries, Leaving, Live, CancelInv, OwnsJob, NoFaults, NoneFails, AskInv, NobodyStops,
       RestartKnown, StallsCounted, Orphan, TypeOK, RowsOK, QueueOK, HandlerOK, CallbackOK,
       RequestsOK, TimersOK, SpentOK, redisVars, webVars, dbVars, queueVars, timerVars
<1> QED
  BY <1>1, <1>2, <1>3, <1>4, <1>5, <1>6, <1>7, <1>8, <1>9, <1>10, <1>11, <1>12, <1>13 DEF Next,
       Handler, Worker

\* What a retry has reopened keeps waiting until its job is there.
LEMMA AwaitsKept ==
  ASSUME NoFaults, TypeOK, CancelInv, SuffixFree, NoneFails, NEW q \in Prompt, Awaits(q), [Next]_vars
  PROVE  Awaits(q)' \/ Cover(q)'
<1> USE RunAssumption DEF Awaits, RetryPending, NoFaults, NoneFails, TypeOK, RowsOK, QueueOK,
     HandlerOK, CallbackOK,
       RequestsOK, TimersOK, SpentOK, redisVars, webVars, dbVars, queueVars, timerVars
<1>1. CASE UNCHANGED vars \/ GrowStale \/ Expire
  BY <1>1 DEF vars, GrowStale, Quiet, NoCallback, Expire
<1>2. CASE Start \/ Dispatch
  BY <1>2 DEF Start, Dispatch, StartEnqueue, Enqueue, Base, StartMark, DispatchClaim, DispatchEnqueue,
       DispatchMark
<1>3. CASE \E j \in JobId : Pick(j) \/ Stalled(j)
  BY <1>3 DEF Pick, IdleHandler, Stalled
<1>4. CASE Resume \/ Unavailable \/ Register \/ CheckKey
  BY <1>4 DEF Resume, Unavailable, Register, CheckKey
<1>5. CASE \/ \E p \in Prompt : BeginAttempt(p)
           \/ \E b \in BOOLEAN : FailAttempt(b) \/ EndPrompts(b)
           \/ AnswerAttempt \/ SampleComplete \/ SeeAbort
  BY <1>5 DEF BeginAttempt, Prompting, Report, NoCallback, FailAttempt, EndPrompts, AnswerAttempt,
       SampleComplete, AnswerMayCome, SeeAbort
<1>6. CASE Blame \/ SweepRead \/ SweepWrite \/ Tally \/ Settle \/ Ack
  BY <1>6 DEF Blame, SweepRead, OpenPrompts, Open, SweepWrite, SetStatus, Tally, JobMayEnd, Settle, Ack,
       IdleHandler
<1>7. CASE Requeue \/ Reenqueue
  BY <1>7 DEF Requeue, Reenqueue, Use, Enqueue, NextSuffix
<1>8. CASE \E w \in Worker : Callback(w)
  BY <1>8 DEF Callback, AttemptRead, EndCallback, NoCallback, AttemptWrite, Touch, SampleIsolation,
       SampleReject, SamplePersist, AnswerMayLand
<1>9. CASE CancelLookup \/ Cancel \/ DeliverStop
  BY <1>9 DEF CancelLookup, Use, Cancel, CancelSetKey, CancelGetState, CancelRemove, CancelPublish,
       DeliverStop
<1>10. CASE RetrySelect \/ Retry
  <2>1. CASE RetryEnqueue
    <3>1. /\ Use("suffix") /\ Enqueue(NextSuffix, retryReq.set) /\ RetryPending /\ ~RetryPending' /\ h' = h
      BY <2>1 DEF RetryEnqueue
    <3>2. PICK i \in JobId : /\ jobState[i] = "none" /\ jobState'[i] = "waiting" /\ jobPrompts'[i] = retryReq.set
      BY <3>1, SuffixTaken DEF Restarting
    <3>3. Carries(i, q)'
      BY <3>2 DEF Carries, Live
    <3>4. ~Leaving(i)'
      BY <3>1, <3>2 DEF Leaving, CancelInv, OwnsJob
    <3> QED
      BY <3>3, <3>4 DEF Cover
  <2> QED
    BY <1>10, <2>1 DEF Retry, RetrySelect, Use, Closed, RetryReopen, Touch, SetStatus, RetryRemove,
         RetryClear,
       RetryMark
<1>11. CASE Reconcile
  BY <1>11 DEF Reconcile, ReconcileSelect, NoRecon, ReconcileRead, OpenPrompts, Open, ReconcileClose,
       ReconcileLook, Live, ReconcileRequeue, SetStatus, ReconcileExpire, ReconcileSeal
<1>12. CASE Crash \/ Shutdown \/ Exit \/ Restart
  BY <1>12 DEF Crash, Use, Vanish, IdleHandler, NoCallback, NoRecon, Shutdown, Exit, Restart
<1>13. CASE Fault
  BY <1>13 DEF Fault, StartEnqueueFails, Use, DispatchEnqueueFails, RetryEnqueueFails, ReenqueueFails,
       JobMayEnd, HandlerThrows, IdleHandler, CheckKeyFails, CallbackFails, NoCallback,
       RetryBreaksOff
<1> HIDE DEF Awaits, RetryPending, NoFaults, NoneFails, TypeOK, RowsOK, QueueOK, HandlerOK, CallbackOK,
       RequestsOK, TimersOK, SpentOK, redisVars, webVars, dbVars, queueVars, timerVars
<1> QED
  BY <1>1, <1>2, <1>3, <1>4, <1>5, <1>6, <1>7, <1>8, <1>9, <1>10, <1>11, <1>12, <1>13 DEF Next,
       Handler, Worker

\* A sample is opened by the job that carries it, by a retry, or by recovery.
LEMMA OpenedKept ==
  ASSUME spent'.cancel = 0, NoFaults, TypeOK, AskInv, CancelInv, NoneFails, TodoOwned, ZombieOwned,
         NEW q \in Prompt, ckpt[q] \notin Open, ckpt'[q] \in Open, [Next]_vars
  PROVE  ReconcileRequeue \/ Awaits(q)' \/ Cover(q)'
<1> USE DEF Cover, Carries, Leaving, Live, Awaits, RetryPending, CancelInv, OwnsJob, NoFaults, NoneFails,
       AskInv, NobodyStops, RestartKnown, EventKnown, LiveKnown, ZombieKnown, TodoOwned, ZombieOwned,
       Worker, Answering, Open, TypeOK, RowsOK, QueueOK, HandlerOK, CallbackOK, RequestsOK, TimersOK,
       SpentOK, redisVars, webVars, dbVars, queueVars, timerVars
<1>1. CASE UNCHANGED vars \/ GrowStale \/ Expire
  BY <1>1 DEF vars, GrowStale, Quiet, NoCallback, Expire
<1>2. CASE Start \/ Dispatch
  BY <1>2 DEF Start, Dispatch, StartEnqueue, Enqueue, Base, StartMark, DispatchClaim, DispatchEnqueue,
       DispatchMark
<1>3. CASE \E j \in JobId : Pick(j) \/ Stalled(j)
  BY <1>3 DEF Pick, IdleHandler, Stalled
<1>4. CASE Resume \/ Unavailable \/ Register \/ CheckKey
  BY <1>4 DEF Resume, Unavailable, Register, CheckKey
<1>5. CASE \/ \E p \in Prompt : BeginAttempt(p)
           \/ \E b \in BOOLEAN : FailAttempt(b) \/ EndPrompts(b)
           \/ AnswerAttempt \/ SampleComplete \/ SeeAbort
  BY <1>5 DEF BeginAttempt, Prompting, Report, NoCallback, FailAttempt, EndPrompts, AnswerAttempt,
       SampleComplete, AnswerMayCome, SeeAbort
<1>6. CASE Blame \/ SweepRead \/ SweepWrite \/ Tally \/ Settle \/ Ack
  BY <1>6 DEF Blame, SweepRead, OpenPrompts, SweepWrite, SetStatus, Tally, JobMayEnd, Settle, Ack,
       IdleHandler
<1>7. CASE Requeue \/ Reenqueue
  BY <1>7 DEF Requeue, Reenqueue, Use, Enqueue, NextSuffix
<1>8. CASE \E w \in Worker : Callback(w)
  BY <1>8 DEF Callback, AttemptRead, EndCallback, NoCallback, AttemptWrite, Touch, SampleIsolation,
       SampleReject, SamplePersist, AnswerMayLand
<1>9. CASE CancelLookup \/ Cancel \/ DeliverStop
  BY <1>9 DEF CancelLookup, Use, Cancel, CancelSetKey, CancelGetState, CancelRemove, CancelPublish,
       DeliverStop
<1>10. CASE RetrySelect \/ Retry
  BY <1>10 DEF Retry, RetrySelect, Use, Closed, RetryReopen, Touch, SetStatus, RetryRemove, RetryClear,
       RetryEnqueue, Enqueue, NextSuffix, RetryMark
<1>11. CASE Reconcile
  BY <1>11 DEF Reconcile, ReconcileSelect, NoRecon, ReconcileRead, OpenPrompts, ReconcileClose, ReconcileLook,
       ReconcileRequeue, SetStatus, ReconcileExpire, ReconcileSeal
<1>12. CASE Crash \/ Shutdown \/ Exit \/ Restart
  BY <1>12 DEF Crash, Use, Vanish, IdleHandler, NoCallback, NoRecon, Shutdown, Exit, Restart
<1>13. CASE Fault
  BY <1>13 DEF Fault, StartEnqueueFails, Use, DispatchEnqueueFails, RetryEnqueueFails, ReenqueueFails,
       JobMayEnd, HandlerThrows, IdleHandler, CheckKeyFails, CallbackFails, NoCallback,
       RetryBreaksOff
<1> HIDE DEF Cover, Carries, Leaving, Live, Awaits, RetryPending, CancelInv, OwnsJob, NoFaults, NoneFails,
       AskInv, NobodyStops, RestartKnown, EventKnown, LiveKnown, ZombieKnown, TodoOwned, ZombieOwned,
       Answering, Open, TypeOK, RowsOK, QueueOK, HandlerOK, CallbackOK, RequestsOK, TimersOK, SpentOK,
       redisVars, webVars, dbVars, queueVars, timerVars
<1> QED
  BY <1>1, <1>2, <1>3, <1>4, <1>5, <1>6, <1>7, <1>8, <1>9, <1>10, <1>11, <1>12, <1>13 DEF Next,
       Handler, Worker

\* Who comes to be about to close the run, who closes it, and who stops before.
Closers ==
  /\ h'.pc = "settle" => Tally \/ (h.pc = "settle" /\ h'.verdict = h.verdict)
  /\ h.pc = "settle" => Settle \/ h'.pc = "settle" \/ h'.pc = "idle"
  /\ recon'.pc \in {"close", "seal"} => ReconcileRead \/ ReconcileExpire \/ recon.pc \in {"close", "seal"}
  /\ recon'.pc \in {"look", "expire"} =>
       ReconcileRead \/ (recon.pc \in {"look", "expire"} /\ recon'.open = recon.open)
  /\ runStatus' \in Terminal => Settle \/ ReconcileClose \/ ReconcileSeal \/ runStatus \in Terminal
  /\ retryReq'.pc = "idle" => runStatus' = "running" \/ retryReq.pc = "idle"
  /\ cb'.zombie.step # "none" => SeeAbort \/ (cb.zombie.step # "none" /\ cb'.zombie.p = cb.zombie.p)

\* Every step is one of theirs or leaves them where they are.
LEMMA CloserSteps ==
  ASSUME NoFaults, TypeOK, AskInv, NoneFails, [Next]_vars
  PROVE  Closers
<1> USE DEF Closers, Terminal, NoFaults, NoneFails, AskInv, ZombieKnown, Worker, TypeOK, RowsOK, QueueOK,
       HandlerOK, CallbackOK, RequestsOK, TimersOK, SpentOK, redisVars, webVars, dbVars, queueVars,
       timerVars
<1>1. CASE UNCHANGED vars \/ GrowStale \/ Expire
  BY <1>1 DEF vars, GrowStale, Quiet, NoCallback, Expire
<1>2. CASE Start \/ Dispatch
  BY <1>2 DEF Start, Dispatch, StartEnqueue, Enqueue, Base, StartMark, DispatchClaim, DispatchEnqueue,
       DispatchMark
<1>3. CASE \E j \in JobId : Pick(j) \/ Stalled(j)
  <2>1. ASSUME NEW j \in JobId, Pick(j) PROVE Closers
    BY <2>1 DEF Pick, IdleHandler
  <2>2. ASSUME NEW j \in JobId, Stalled(j) PROVE Closers
    BY <2>2 DEF Stalled
  <2> QED
    BY <1>3, <2>1, <2>2
<1>4. CASE Resume \/ Unavailable \/ Register \/ CheckKey
  <2>1. CASE Resume
    BY <2>1 DEF Resume
  <2>2. CASE Unavailable
    BY <2>2 DEF Unavailable
  <2>3. CASE Register
    BY <2>3 DEF Register
  <2>4. CASE CheckKey
    BY <2>4 DEF CheckKey
  <2> QED
    BY <1>4, <2>1, <2>2, <2>3, <2>4
<1>5. CASE \/ \E p \in Prompt : BeginAttempt(p)
           \/ \E b \in BOOLEAN : FailAttempt(b) \/ EndPrompts(b)
           \/ AnswerAttempt \/ SampleComplete \/ SeeAbort
  <2>1. ASSUME NEW p \in Prompt, BeginAttempt(p) PROVE Closers
    BY <2>1 DEF BeginAttempt, Prompting, Report, NoCallback
  <2>2. ASSUME NEW b \in BOOLEAN, FailAttempt(b) PROVE Closers
    BY <2>2 DEF FailAttempt, Prompting, Report, NoCallback
  <2>3. ASSUME NEW b \in BOOLEAN, EndPrompts(b) PROVE Closers
    BY <2>3 DEF EndPrompts, Prompting, NoCallback
  <2>4. CASE AnswerAttempt
    BY <2>4 DEF AnswerAttempt, Prompting, Report, NoCallback
  <2>5. CASE SampleComplete
    BY <2>5 DEF SampleComplete, Prompting, NoCallback, AnswerMayCome
  <2>6. CASE SeeAbort
    <3>1. h.pc = "prompt" /\ h'.pc # "settle" /\ UNCHANGED <<retryReq, recon, runStatus>>
      BY <2>6 DEF SeeAbort
    <3> QED
      BY <2>6, <3>1
  <2> QED
    BY <1>5, <2>1, <2>2, <2>3, <2>4, <2>5, <2>6
<1>6. CASE Blame \/ SweepRead \/ SweepWrite \/ Tally \/ Settle \/ Ack
  <2>1. CASE Blame
    BY <2>1 DEF Blame
  <2>2. CASE SweepRead
    BY <2>2 DEF SweepRead, OpenPrompts, Open
  <2>3. CASE SweepWrite
    BY <2>3 DEF SweepWrite, SetStatus
  <2>4. CASE Tally
    <3>1. h.pc # "settle" /\ UNCHANGED <<retryReq, recon, runStatus, cb>>
      BY <2>4 DEF Tally
    <3> QED
      BY <2>4, <3>1
  <2>5. CASE Settle
    BY <2>5 DEF Settle
  <2>6. CASE Ack
    BY <2>6 DEF Ack, IdleHandler
  <2> QED
    BY <1>6, <2>1, <2>2, <2>3, <2>4, <2>5, <2>6
<1>7. CASE Requeue \/ Reenqueue
  BY <1>7 DEF Requeue, Reenqueue, Use, Enqueue, NextSuffix
<1>8. CASE \E w \in Worker : Callback(w)
  BY <1>8 DEF Callback, AttemptRead, EndCallback, NoCallback, AttemptWrite, Touch, SampleIsolation,
       SampleReject, SamplePersist, AnswerMayLand
<1>9. CASE CancelLookup \/ Cancel \/ DeliverStop
  BY <1>9 DEF CancelLookup, Use, Cancel, CancelSetKey, CancelGetState, CancelRemove, CancelPublish,
       DeliverStop
<1>10. CASE RetrySelect \/ Retry
  BY <1>10 DEF Retry, RetrySelect, Use, Closed, RetryReopen, Touch, SetStatus, RetryRemove, RetryClear,
       RetryEnqueue, Enqueue, NextSuffix, RetryMark
<1>11. CASE Reconcile
  <2>1. CASE ReconcileSelect
    BY <2>1 DEF ReconcileSelect, NoRecon
  <2>2. CASE ReconcileRead
    <3>1. UNCHANGED <<h, retryReq, runStatus, cb>>
      BY <2>2 DEF ReconcileRead
    <3> QED
      BY <2>2, <3>1
  <2>3. CASE ReconcileClose
    BY <2>3 DEF ReconcileClose, NoRecon
  <2>4. CASE ReconcileLook
    BY <2>4 DEF ReconcileLook, NoRecon, Live
  <2>5. CASE ReconcileRequeue
    BY <2>5 DEF ReconcileRequeue, NoRecon, SetStatus
  <2>6. CASE ReconcileExpire
    BY <2>6 DEF ReconcileExpire, SetStatus
  <2>7. CASE ReconcileSeal
    BY <2>7 DEF ReconcileSeal, NoRecon
  <2> QED
    BY <1>11, <2>1, <2>2, <2>3, <2>4, <2>5, <2>6, <2>7 DEF Reconcile
<1>12. CASE Crash \/ Shutdown \/ Exit \/ Restart
  BY <1>12 DEF Crash, Use, Vanish, IdleHandler, NoCallback, NoRecon, Shutdown, Exit, Restart
<1>13. CASE Fault
  BY <1>13 DEF Fault, StartEnqueueFails, Use, DispatchEnqueueFails, RetryEnqueueFails, ReenqueueFails,
       JobMayEnd, HandlerThrows, IdleHandler, CheckKeyFails, CallbackFails, NoCallback,
       RetryBreaksOff
<1> HIDE DEF Closers, Terminal, NoFaults, NoneFails, AskInv, ZombieKnown, TypeOK, RowsOK, QueueOK,
       HandlerOK, CallbackOK, RequestsOK, TimersOK, SpentOK, redisVars, webVars, dbVars, queueVars,
       timerVars
<1> QED
  BY <1>1, <1>2, <1>3, <1>4, <1>5, <1>6, <1>7, <1>8, <1>9, <1>10, <1>11, <1>12, <1>13 DEF Next,
       Handler, Worker

\* While a verdict is written no job ends.
LEMMA CarriedKept ==
  ASSUME spent'.cancel = 0, NoFaults, TypeOK, AskInv, CancelInv, NoneFails, StallsCounted,
         h.pc = "settle", NEW i \in JobId, NEW q \in Prompt, Carries(i, q), [Next]_vars
  PROVE  Carries(i, q)'
<1> USE RunAssumption DEF Carries, Live, CancelInv, OwnsJob, NoFaults, NoneFails, AskInv,
     NobodyStops, RestartKnown,
       StallsCounted, Orphan, TypeOK, RowsOK, QueueOK, HandlerOK, CallbackOK, RequestsOK, TimersOK,
       SpentOK, redisVars, webVars, dbVars, queueVars, timerVars
<1>1. CASE UNCHANGED vars \/ GrowStale \/ Expire
  BY <1>1 DEF vars, GrowStale, Quiet, NoCallback, Expire
<1>2. CASE Start \/ Dispatch
  BY <1>2 DEF Start, Dispatch, StartEnqueue, Enqueue, Base, StartMark, DispatchClaim, DispatchEnqueue,
       DispatchMark
<1>3. CASE \E j \in JobId : Pick(j) \/ Stalled(j)
  BY <1>3 DEF Pick, IdleHandler, Stalled
<1>4. CASE Resume \/ Unavailable \/ Register \/ CheckKey
  BY <1>4 DEF Resume, Unavailable, Register, CheckKey
<1>5. CASE \/ \E p \in Prompt : BeginAttempt(p)
           \/ \E b \in BOOLEAN : FailAttempt(b) \/ EndPrompts(b)
           \/ AnswerAttempt \/ SampleComplete \/ SeeAbort
  BY <1>5 DEF BeginAttempt, Prompting, Report, NoCallback, FailAttempt, EndPrompts, AnswerAttempt,
       SampleComplete, AnswerMayCome, SeeAbort
<1>6. CASE Blame \/ SweepRead \/ SweepWrite \/ Tally \/ Settle \/ Ack
  BY <1>6 DEF Blame, SweepRead, OpenPrompts, Open, SweepWrite, SetStatus, Tally, JobMayEnd, Settle, Ack,
       IdleHandler
<1>7. CASE Requeue \/ Reenqueue
  BY <1>7 DEF Requeue, Reenqueue, Use, Enqueue, NextSuffix
<1>8. CASE \E w \in Worker : Callback(w)
  BY <1>8 DEF Callback, AttemptRead, EndCallback, NoCallback, AttemptWrite, Touch, SampleIsolation,
       SampleReject, SamplePersist, AnswerMayLand
<1>9. CASE CancelLookup \/ Cancel \/ DeliverStop
  BY <1>9 DEF CancelLookup, Use, Cancel, CancelSetKey, CancelGetState, CancelRemove, CancelPublish,
       DeliverStop
<1>10. CASE RetrySelect \/ Retry
  BY <1>10 DEF Retry, RetrySelect, Use, Closed, RetryReopen, Touch, SetStatus, RetryRemove, RetryClear,
       RetryEnqueue, Enqueue, NextSuffix, RetryMark
<1>11. CASE Reconcile
  BY <1>11 DEF Reconcile, ReconcileSelect, NoRecon, ReconcileRead, OpenPrompts, Open, ReconcileClose,
       ReconcileLook, ReconcileRequeue, SetStatus, ReconcileExpire, ReconcileSeal
<1>12. CASE Crash \/ Shutdown \/ Exit \/ Restart
  BY <1>12 DEF Crash, Use, Vanish, IdleHandler, NoCallback, NoRecon, Shutdown, Exit, Restart
<1>13. CASE Fault
  BY <1>13 DEF Fault, StartEnqueueFails, Use, DispatchEnqueueFails, RetryEnqueueFails, ReenqueueFails,
       JobMayEnd, HandlerThrows, IdleHandler, CheckKeyFails, CallbackFails, NoCallback,
       RetryBreaksOff
<1> HIDE DEF Carries, Live, CancelInv, OwnsJob, NoFaults, NoneFails, AskInv, NobodyStops, RestartKnown,
       StallsCounted, Orphan, TypeOK, RowsOK, QueueOK, HandlerOK, CallbackOK, RequestsOK, TimersOK,
       SpentOK, redisVars, webVars, dbVars, queueVars, timerVars
<1> QED
  BY <1>1, <1>2, <1>3, <1>4, <1>5, <1>6, <1>7, <1>8, <1>9, <1>10, <1>11, <1>12, <1>13 DEF Next,
       Handler, Worker

\* What is kept while open stays kept, whoever opens it.
LEMMA KeptStays ==
  ASSUME spent'.cancel = 0, NoFaults, TypeOK, CancelInv, StrandInv, [Next]_vars, NEW q \in Prompt,
         ckpt[q] \in Open => KeptOpen(q), ckpt'[q] \in Open, ~Tally, ~ReconcileRequeue
  PROVE  KeptOpen(q)'
<1>1. CASE ckpt[q] \notin Open
  BY <1>1, OpenedKept DEF StrandInv, KeptOpen
<1>2. CASE Awaits(q)
  BY <1>2, AwaitsKept DEF StrandInv, KeptOpen
<1>3. CASE Cover(q)
  BY <1>3, CoverKept DEF StrandInv, KeptOpen
<1> QED
  BY <1>1, <1>2, <1>3 DEF KeptOpen

\* A callback is left behind with the job it came from, or that job's successor.
LEMMA ZombieKept ==
  ASSUME spent'.cancel = 0, NoFaults, TypeOK, CancelInv, StrandInv, [Next]_vars
  PROVE  ZombieOwned'
<1> SUFFICES ASSUME cb'.zombie.step # "none" PROVE Cover(cb.zombie.p)'
  BY DEF ZombieOwned
<1>1. CASE SeeAbort
  <2>1. /\ h.pc = "prompt" /\ h'.pc = "requeue" /\ cb'.zombie = cb.live
        /\ UNCHANGED <<jobState, jobPrompts>>
    BY <1>1 DEF SeeAbort, queueVars, StrandInv, AskInv, NobodyStops, TypeOK, HandlerOK, CallbackOK
  <2>2. cb.live.p \in jobPrompts[h.job] /\ jobState[h.job] = "active" /\ h.job \in JobId
    BY <2>1 DEF StrandInv, AskInv, LiveKnown, TodoOwned, CancelInv, OwnsJob, TypeOK, HandlerOK
  <2> QED
    BY <2>1, <2>2 DEF Cover, Carries, Leaving, Live
<1>2. CASE ~SeeAbort
  <2>1. cb.zombie.step # "none" /\ cb'.zombie.p = cb.zombie.p
    BY <1>2, CloserSteps DEF StrandInv, Closers
  <2>2. cb.zombie.p \in Prompt /\ Cover(cb.zombie.p) /\ ~Tally
    BY <2>1 DEF StrandInv, ZombieOwned, AskInv, ZombieKnown, Tally
  <2>3. PICK q \in Prompt : q = cb.zombie.p /\ Cover(q)
    BY <2>2
  <2>4. Cover(q)'
    BY <2>2, <2>3, CoverKept DEF StrandInv
  <2> QED
    BY <2>1, <2>3, <2>4
<1> QED
  BY <1>1, <1>2

\* A handler's verdict closes the run only over samples that are settled or have
\* another job.
LEMMA VerdictKept ==
  ASSUME spent'.cancel = 0, NoFaults, TypeOK, CancelInv, StrandInv, [Next]_vars
  PROVE  VerdictTrue'
<1> SUFFICES ASSUME h'.pc = "settle", h'.verdict \in Terminal, NEW q \in Prompt, ckpt'[q] \in Open
             PROVE  KeptOpen(q)'
  BY DEF VerdictTrue
<1>1. CASE Tally
  <2>1. h'.verdict = RunVerdict(ckpt) /\ ckpt' = ckpt
    BY <1>1 DEF Tally, dbVars, TypeOK, HandlerOK
  <2>2. q \in OpenPrompts(ckpt)
    BY <2>1 DEF OpenPrompts
  <2> QED
    BY <2>1, <2>2 DEF RunVerdict, Terminal
<1>2. CASE ~Tally
  <2>1. h.pc = "settle" /\ h'.verdict = h.verdict
    BY <1>2, CloserSteps DEF StrandInv, Closers
  <2>2. ~ReconcileRequeue
    BY <2>1 DEF ReconcileRequeue, StrandInv, SettlesAlone
  <2> QED
    BY <1>2, <2>1, <2>2, KeptStays DEF StrandInv, VerdictTrue
<1> QED
  BY <1>1, <1>2

\* So does recovery, whether it found nothing open or has closed what it found.
LEMMA CloseKept ==
  ASSUME spent'.cancel = 0, NoFaults, TypeOK, CancelInv, StrandInv, [Next]_vars
  PROVE  CloseTrue'
<1> SUFFICES ASSUME recon'.pc \in {"close", "seal"}, NEW q \in Prompt, ckpt'[q] \in Open
             PROVE  KeptOpen(q)'
  BY DEF CloseTrue
<1>1. CASE ReconcileRead
  <2>1. ckpt' = ckpt /\ OpenPrompts(ckpt) = {}
    BY <1>1 DEF ReconcileRead, dbVars, TypeOK, TimersOK
  <2> QED
    BY <2>1 DEF OpenPrompts
<1>2. CASE ReconcileExpire
  <2>1. recon.pc = "expire" /\ ckpt' = SetStatus(recon.open, "failed")
        /\ UNCHANGED <<queueVars, h, retryReq>>
    BY <1>2 DEF ReconcileExpire, webVars
  <2>2. q \notin recon.open /\ ckpt[q] \in Open
    BY <2>1 DEF SetStatus, Open
  <2>3. KeptOpen(q)
    BY <2>1, <2>2 DEF StrandInv, ExpireTrue
  <2> QED
    BY <2>1, <2>3 DEF KeptOpen, Awaits, RetryPending, Cover, Carries, Leaving, queueVars
<1>3. CASE recon.pc \in {"close", "seal"}
  <2>1. ~Tally /\ ~ReconcileRequeue
    BY <1>3 DEF Tally, JobMayEnd, NoFaults, ReconcileRequeue
  <2> QED
    BY <1>3, <2>1, KeptStays DEF StrandInv, CloseTrue
<1> QED
  BY <1>1, <1>2, <1>3, CloserSteps DEF StrandInv, Closers

\* What is opened after recovery has read the checkpoints has a job.
LEMMA ExpireKept ==
  ASSUME spent'.cancel = 0, NoFaults, TypeOK, CancelInv, StrandInv, [Next]_vars
  PROVE  ExpireTrue'
<1> SUFFICES ASSUME recon'.pc \in {"look", "expire"}, NEW q \in Prompt, ckpt'[q] \in Open,
                    q \notin recon'.open
             PROVE  KeptOpen(q)'
  BY DEF ExpireTrue
<1>1. CASE ReconcileRead
  <2>1. ckpt' = ckpt /\ recon'.open = OpenPrompts(ckpt)
    BY <1>1 DEF ReconcileRead, dbVars, TypeOK, TimersOK
  <2> QED
    BY <2>1 DEF OpenPrompts
<1>2. CASE recon.pc \in {"look", "expire"} /\ recon'.open = recon.open
  <2>1. ~Tally /\ ~ReconcileRequeue
    BY <1>2 DEF Tally, JobMayEnd, NoFaults, ReconcileRequeue
  <2> QED
    BY <1>2, <2>1, KeptStays DEF StrandInv, ExpireTrue
<1> QED
  BY <1>1, <1>2, CloserSteps DEF StrandInv, Closers

\* A run is closed over settled samples, and those opened later have a job.
LEMMA EndedKept ==
  ASSUME spent'.cancel = 0, NoFaults, TypeOK, CancelInv, StrandInv, [Next]_vars
  PROVE  Ended'
<1> SUFFICES ASSUME runStatus' \in Terminal, retryReq'.pc = "idle", NEW q \in Prompt, ckpt'[q] \in Open
             PROVE  (IF h.pc = "settle" THEN \E j \in JobId : Carries(j, q) ELSE Cover(q))'
  BY DEF Ended
<1>1. retryReq.pc = "idle" /\ ~Awaits(q) /\ ~Awaits(q)'
  BY CloserSteps DEF StrandInv, Closers, Terminal, Awaits, RetryPending
<1>2. Cover(q)' => \E j \in JobId : Carries(j, q)'
  BY DEF Cover
<1>3. ~ReconcileRequeue
  BY DEF ReconcileRequeue, Terminal
<1>4. CASE Tally
  <2>1. /\ UNCHANGED <<ckpt, runStatus, jobState, jobPrompts>>
        /\ h.pc = "tally" /\ h'.pc = "settle"
    BY <1>4 DEF Tally, dbVars, queueVars, TypeOK, HandlerOK
  <2>2. Cover(q)
    BY <1>1, <2>1 DEF StrandInv, Ended
  <2> QED
    BY <2>1, <2>2 DEF Cover, Carries
<1>5. CASE Settle \/ ReconcileClose \/ ReconcileSeal
  <2>1. ckpt' = ckpt /\ ~Tally
    BY <1>5 DEF Settle, ReconcileClose, ReconcileSeal, Tally, JobMayEnd, NoFaults
  <2>2. KeptOpen(q)
    BY <1>5, <2>1 DEF Settle, ReconcileClose, ReconcileSeal, StrandInv, VerdictTrue, CloseTrue
  <2>3. Cover(q)'
    BY <1>1, <1>3, <2>1, <2>2, KeptStays DEF KeptOpen
  <2> QED
    BY <1>2, <2>3
<1>6. CASE runStatus \in Terminal /\ ~Tally /\ ~Settle
  <2>1. CASE ckpt[q] \notin Open \/ Cover(q)
    <3>1. Cover(q)'
      BY <1>1, <1>3, <1>6, <2>1, KeptStays DEF KeptOpen
    <3> QED
      BY <1>2, <3>1
  <2>2. CASE ckpt[q] \in Open /\ ~Cover(q)
    <3>1. h.pc = "settle" /\ \E j \in JobId : Carries(j, q)
      BY <1>1, <1>6, <2>2 DEF StrandInv, Ended
    <3>2. PICK j \in JobId : Carries(j, q)
      BY <3>1
    <3>3. Carries(j, q)'
      BY <3>1, <3>2, CarriedKept DEF StrandInv
    <3>4. h'.pc \in {"settle", "idle"}
      BY <1>6, <3>1, CloserSteps DEF StrandInv, Closers
    <3> QED
      BY <3>3, <3>4 DEF Cover, Leaving
  <2> QED
    BY <2>1, <2>2
<1> QED
  BY <1>4, <1>5, <1>6, CloserSteps DEF StrandInv, Closers

\* Every step keeps the invariant, unless it is a cancel request.
LEMMA NextStrand ==
  ASSUME spent'.cancel = 0, NoFaults, TypeOK, CancelInv, StrandInv, [Next]_vars
  PROVE  StrandInv'
<1>1. AskInv' /\ SuffixFree' /\ NoneFails'
  BY NextAsk, SuffixKept, NoneFailsKept DEF StrandInv
<1>2. StallsCounted' /\ TodoOwned' /\ SettlesAlone'
  BY StallsKept, TodoKept, SettlesKept DEF StrandInv
<1>3. ZombieOwned' /\ Ended' /\ VerdictTrue' /\ CloseTrue' /\ ExpireTrue'
  BY ZombieKept, EndedKept, VerdictKept, CloseKept, ExpireKept
<1> QED
  BY <1>1, <1>2, <1>3 DEF StrandInv

\* Unless the user has cancelled the provider, no open sample is stranded: a live
\* job carries it, a retry is under way, or dispatch and recovery still look at
\* the run.  It holds for any number of prompts, shutdowns, retries and cancel
\* requests, and as many crashes as a job survives, when no call fails and no
\* job overtakes a recovery pass.
THEOREM NoneStranded ==
  ASSUME NoFaults
  PROVE  Spec => []NotStranded
<1> DEFINE Inv == TypeOK /\ CancelInv /\ (spent.cancel = 0 => StrandInv)
<1>1. Init => Inv
  BY InitTyped, InitCancel, InitStrand
<1>2. Inv /\ [Next]_vars => Inv'
  BY NextTyped, NextCancel, NextStrand, CancelsCounted
<1>3. Inv => NotStranded
  <2> SUFFICES ASSUME TypeOK, StrandInv, retryReq.pc = "idle", NEW p \in OpenPrompts(ckpt),
                      runStatus \notin {"queued", "waiting_runner", "running"}
               PROVE  \E j \in JobId : jobState[j] \in Live /\ p \in jobPrompts[j]
    BY DEF NotStranded
  <2>1. p \in Prompt /\ ckpt[p] \in Open /\ runStatus \in Terminal
    BY DEF OpenPrompts, TypeOK, RowsOK, RunStatus, Terminal
  <2>2. \E j \in JobId : Carries(j, p)
    BY <2>1 DEF StrandInv, Ended, Cover
  <2> QED
    BY <2>2 DEF Carries
<1> QED
  BY <1>1, <1>2, <1>3, PTL DEF Spec
=============================================================================
