------------------------ MODULE ConcurrencyGate_proofs ------------------------
(***************************************************************************)
(* For every finite set of callers and every limit: the gate never lets    *)
(* more tasks in than its limit, never leaves a waiter parked beside a     *)
(* free slot, and hands slots over in arrival order.                       *)
(***************************************************************************)
EXTENDS ConcurrencyGate, SequenceTheorems, FiniteSetTheorems, TLAPS

\* The set of slot holders is a finite set, in every state.
LEMMA HoldersFinite == IsFiniteSet(Holders)
  BY GateAssumption, FS_Subset DEF Holders

\* The initial state satisfies the invariant.
LEMMA GateInitInv == GateInit => GateInv
<1> SUFFICES ASSUME GateInit PROVE GateInv
  OBVIOUS
<1>1. GateTypeOK
  BY DEF GateInit, GateTypeOK, TaskState
<1>2. Holders = {}
  BY DEF GateInit, Holders
<1>3. CounterExact
  BY <1>2, FS_EmptySet DEF GateInit, CounterExact
<1>4. WaitersDistinct /\ WaitersParked
  BY DEF GateInit, WaitersDistinct, WaitersParked
<1> QED
  BY <1>1, <1>3, <1>4, GateAssumption DEF GateInit, GateInv

\* A free slot is taken: the counter and the set of holders grow together.
LEMMA AcquireFreeInv ==
  ASSUME GateInv, NEW t \in Task, AcquireFree(t)
  PROVE  GateInv'
<1> USE DEF GateInv
<1>1. GateTypeOK'
  BY DEF AcquireFree, GateTypeOK, TaskState
<1>2. WaitersDistinct' /\ WaitersParked'
  BY DEF AcquireFree, GateTypeOK, TaskState, WaitersDistinct, WaitersParked
<1>3. Holders' = Holders \cup {t} /\ t \notin Holders
  BY DEF AcquireFree, GateTypeOK, Holders
<1>4. CounterExact'
  BY <1>3, HoldersFinite, FS_AddElement DEF AcquireFree, GateTypeOK, CounterExact
<1>5. activeCount' <= Limit /\ (waiters' # <<>> => activeCount' = Limit)
  BY GateAssumption DEF AcquireFree, GateTypeOK
<1> QED
  BY <1>1, <1>2, <1>4, <1>5

\* No slot: the caller is appended, which keeps the list without repetition
\* because the caller was not parked before.
LEMMA AcquireWaitInv ==
  ASSUME GateInv, NEW t \in Task, AcquireWait(t)
  PROVE  GateInv'
<1> USE DEF GateInv
<1> DEFINE n == Len(waiters)
<1>1. /\ waiters \in Seq(Task) /\ n \in Nat
      /\ waiters' \in Seq(Task) /\ Len(waiters') = n + 1
      /\ \A i \in 1 .. n : waiters'[i] = waiters[i]
      /\ waiters'[n + 1] = t
  BY AppendProperties, LenProperties DEF AcquireWait, GateTypeOK
<1>2. GateTypeOK'
  BY <1>1 DEF AcquireWait, GateTypeOK, TaskState
<1>3. \A i \in 1 .. n : waiters[i] # t
  BY DEF AcquireWait, WaitersParked
<1>4. WaitersDistinct'
  BY <1>1, <1>3 DEF WaitersDistinct
<1>5. WaitersParked'
  <2> SUFFICES ASSUME NEW u \in Task
               PROVE  state'[u] = "waiting"
                        <=> \E i \in 1 .. n + 1 : waiters'[i] = u
    BY <1>1 DEF WaitersParked
  <2>1. CASE u = t
    BY <1>1, <2>1 DEF AcquireWait, GateTypeOK
  <2>2. CASE u # t
    BY <1>1, <2>2 DEF AcquireWait, GateTypeOK, WaitersParked
  <2> QED BY <2>1, <2>2
<1>6. Holders' = Holders
  BY DEF AcquireWait, GateTypeOK, Holders
<1>7. CounterExact'
  BY <1>6 DEF AcquireWait, CounterExact
<1>8. activeCount' <= Limit /\ activeCount' = Limit
  BY GateAssumption DEF AcquireWait, GateTypeOK
<1> QED
  BY <1>2, <1>4, <1>5, <1>7, <1>8

\* The hand-over: one holder leaves, the oldest waiter takes its place, and
\* the counter rightly stays.
LEMMA HandOverInv ==
  ASSUME GateInv, NEW t \in Task, ReleaseHandOver(t)
  PROVE  GateInv'
<1> USE DEF GateInv
<1> DEFINE n == Len(waiters)
           h == Head(waiters)
<1>1. /\ waiters \in Seq(Task) /\ n \in Nat /\ n > 0
      /\ h \in Task /\ h = waiters[1]
      /\ waiters' \in Seq(Task) /\ Len(waiters') = n - 1
      /\ \A i \in 1 .. n - 1 : waiters'[i] = waiters[i + 1]
  BY HeadTailProperties, EmptySeq, LenProperties DEF ReleaseHandOver, GateTypeOK
<1>2. GateTypeOK'
  BY <1>1 DEF ReleaseHandOver, GateTypeOK, TaskState
<1>3. WaitersDistinct'
  BY <1>1 DEF WaitersDistinct
<1>4. state[h] = "waiting" /\ h # t
  BY <1>1 DEF WaitersParked, ReleaseHandOver
<1>5. \A i \in 2 .. n : waiters[i] # h
  BY <1>1 DEF WaitersDistinct
<1>6. WaitersParked'
  <2> SUFFICES ASSUME NEW u \in Task
               PROVE  state'[u] = "waiting"
                        <=> \E i \in 1 .. n - 1 : waiters'[i] = u
    BY <1>1 DEF WaitersParked
  <2>1. CASE u = h
    BY <1>1, <1>4, <1>5, <2>1 DEF ReleaseHandOver, GateTypeOK
  <2>2. CASE u # h
    <3>1. state'[u] = "waiting" <=> state[u] = "waiting"
      BY <2>2 DEF ReleaseHandOver, GateTypeOK
    <3>2. state[u] = "waiting" <=> \E i \in 1 .. n : waiters[i] = u
      BY DEF WaitersParked
    <3>3. ASSUME NEW i \in 1 .. n, waiters[i] = u
          PROVE  \E j \in 1 .. n - 1 : waiters'[j] = u
      <4>1. i # 1
        BY <1>1, <2>2, <3>3
      <4>2. i - 1 \in 1 .. n - 1 /\ waiters'[i - 1] = u
        BY <1>1, <3>3, <4>1
      <4> QED BY <4>2
    <3>4. ASSUME NEW j \in 1 .. n - 1, waiters'[j] = u
          PROVE  \E i \in 1 .. n : waiters[i] = u
      <4>1. j + 1 \in 1 .. n /\ waiters[j + 1] = u
        BY <1>1, <3>4
      <4> QED BY <4>1
    <3> QED BY <3>1, <3>2, <3>3, <3>4
  <2> QED BY <2>1, <2>2
<1>7. Holders' = (Holders \ {t}) \cup {h} /\ t \in Holders /\ h \notin Holders
  BY <1>1, <1>4 DEF ReleaseHandOver, GateTypeOK, Holders
<1>8. /\ Cardinality(Holders \ {t}) = Cardinality(Holders) - 1
      /\ IsFiniteSet(Holders \ {t})
  BY <1>7, HoldersFinite, FS_RemoveElement
<1>9. Cardinality(Holders') = Cardinality(Holders)
  <2> DEFINE S == Holders \ {t}
  <2>1. Cardinality(S \cup {h}) = Cardinality(S) + 1
    BY <1>7, <1>8, FS_AddElement
  <2>2. Cardinality(Holders) \in Nat
    BY HoldersFinite, FS_CardinalityType
  <2> QED BY <1>7, <1>8, <2>1, <2>2
<1>10. CounterExact'
  BY <1>9 DEF ReleaseHandOver, CounterExact
<1>11. activeCount' <= Limit /\ activeCount' = Limit
  BY DEF ReleaseHandOver
<1> QED
  BY <1>2, <1>3, <1>6, <1>10, <1>11

\* Without a waiter the slot is counted down; the clamp at zero never bites.
LEMMA ReleaseFreeInv ==
  ASSUME GateInv, NEW t \in Task, ReleaseFree(t)
  PROVE  GateInv'
<1> USE DEF GateInv
<1>1. Holders' = Holders \ {t} /\ t \in Holders
  BY DEF ReleaseFree, GateTypeOK, Holders
<1>2. /\ Cardinality(Holders') = Cardinality(Holders) - 1
      /\ Cardinality(Holders) \in Nat /\ Cardinality(Holders') \in Nat
  BY <1>1, HoldersFinite, FS_RemoveElement, FS_CardinalityType
<1>3. activeCount > 0 /\ activeCount' = activeCount - 1
  BY <1>2 DEF ReleaseFree, CounterExact
<1>4. GateTypeOK'
  BY <1>3 DEF ReleaseFree, GateTypeOK, TaskState
<1>5. WaitersDistinct' /\ WaitersParked'
  BY DEF ReleaseFree, GateTypeOK, WaitersDistinct, WaitersParked
<1>6. CounterExact'
  BY <1>2, <1>3 DEF CounterExact
<1>7. activeCount' <= Limit /\ waiters' = <<>>
  BY <1>3, GateAssumption DEF ReleaseFree, GateTypeOK
<1> QED
  BY <1>4, <1>5, <1>6, <1>7

\* Neither the jitter nor the start of the body touches a slot.
LEMMA QuietStepInv ==
  ASSUME GateInv, NEW t \in Task, Delay(t) \/ Start(t)
  PROVE  GateInv'
<1> USE DEF GateInv
<1>1. GateTypeOK'
  BY DEF Delay, Start, GateTypeOK, TaskState
<1>2. WaitersDistinct' /\ WaitersParked'
  BY DEF Delay, Start, GateTypeOK, WaitersDistinct, WaitersParked
<1>3. Holders' = Holders
  BY DEF Delay, Start, GateTypeOK, Holders
<1> QED
  BY <1>1, <1>2, <1>3 DEF Delay, Start, CounterExact

LEMMA GateNextInv == GateInv /\ [GateNext]_gateVars => GateInv'
<1> SUFFICES ASSUME GateInv, [GateNext]_gateVars PROVE GateInv'
  OBVIOUS
<1>1. CASE UNCHANGED gateVars
  BY <1>1 DEF GateInv, GateTypeOK, WaitersDistinct, WaitersParked, CounterExact,
              Holders, gateVars
<1>2. ASSUME NEW t \in Task, GateStep(t) PROVE GateInv'
  BY <1>2, AcquireFreeInv, AcquireWaitInv, HandOverInv, ReleaseFreeInv,
     QuietStepInv DEF GateStep
<1> QED
  BY <1>1, <1>2 DEF GateNext

THEOREM GateInvariant == GateSpec => []GateInv
  BY GateInitInv, GateNextInv, PTL DEF GateSpec

\* The collector never runs more provider jobs, or analyses, than its gate
\* was created for (concurrency.ts, acquire and release).
THEOREM GateLimit == GateSpec => []LimitRespected
<1>1. GateInv => LimitRespected
  BY DEF GateInv, CounterExact, LimitRespected
<1> QED
  BY <1>1, GateInvariant, PTL

\* A release never leaves a parked caller behind beside a free slot.
THEOREM GateNoLostWakeup == GateSpec => []NoLostWakeup
<1>1. GateInv => NoLostWakeup
  BY DEF GateInv, CounterExact, NoLostWakeup
<1> QED
  BY <1>1, GateInvariant, PTL

\* A newcomer never overtakes a parked caller, and the oldest goes first.
THEOREM GateFirstComeFirstServed == GateSpec => NoOvertaking
<1>1. GateInv /\ [GateNext]_gateVars => [GrantInOrder]_gateVars
  <2> SUFFICES ASSUME GateInv, NEW u \in Task, GateStep(u),
                      NEW t \in Task, state[t] # "granted", state'[t] = "granted",
                      waiters # <<>>
               PROVE  t = Head(waiters)
    BY DEF GateNext, GrantInOrder
  <2>1. CASE Delay(u)
    BY <2>1 DEF Delay, GateInv, GateTypeOK
  <2>2. CASE AcquireFree(u)
    BY <2>2, GateAssumption DEF AcquireFree, GateInv
  <2>3. CASE AcquireWait(u)
    BY <2>3 DEF AcquireWait, GateInv, GateTypeOK
  <2>4. CASE Start(u)
    BY <2>4 DEF Start, GateInv, GateTypeOK
  <2>5. CASE ReleaseHandOver(u)
    BY <2>5 DEF ReleaseHandOver, GateInv, GateTypeOK
  <2>6. CASE ReleaseFree(u)
    BY <2>6 DEF ReleaseFree
  <2> QED BY <2>1, <2>2, <2>3, <2>4, <2>5, <2>6 DEF GateStep
<1> QED
  BY <1>1, GateInvariant, PTL DEF GateSpec, NoOvertaking

-----------------------------------------------------------------------------
(* The gate implements the pool of slots (SlotPool).                       *)

\* The pool counts as the gate does.
LEMMA PoolCounts == \A S : Pool!Cardinality(S) = Cardinality(S)
  BY DEF Pool!Cardinality, Cardinality

\* Who is outside for the pool is neither past acquire nor in the list.
LEMMA OutsidePool ==
  ASSUME GateInv, NEW t \in Task, state[t] \in {"idle", "jitter"}
  PROVE  Pool!Outside(t)
  BY DEF Pool!Outside, Holders, GateInv, WaitersParked

\* Every step of the gate is a step of the pool, or none.
LEMMA GateStepImplements ==
  ASSUME GateInv, NEW t \in Task, GateStep(t)
  PROVE  Pool!Next \/ UNCHANGED <<Holders, waiters>>
<1>1. state \in [Task -> TaskState]
  BY DEF GateInv, GateTypeOK
<1>2. CASE Delay(t) \/ Start(t)
  <2>1. \A u \in Task : state'[u] \in {"granted", "running"}
                       <=> state[u] \in {"granted", "running"}
    BY <1>1, <1>2 DEF Delay, Start
  <2> QED
    BY <1>2, <2>1 DEF Holders, Delay, Start
<1>3. CASE AcquireFree(t)
  <2>1. Pool!Outside(t)
    BY <1>3, OutsidePool DEF AcquireFree
  <2>2. Cardinality(Holders) < Limit
    BY <1>3 DEF AcquireFree, GateInv, CounterExact
  <2>3. waiters = <<>> /\ waiters' = waiters
    BY <1>3, GateAssumption DEF AcquireFree, GateInv, GateTypeOK
  <2>4. Holders' = Holders \cup {t}
    BY <1>1, <1>3 DEF AcquireFree, Holders
  <2>5. Pool!Enter(t)
    BY <2>1, <2>2, <2>3, <2>4, PoolCounts DEF Pool!Enter
  <2> QED
    BY <2>5 DEF Pool!Next
<1>4. CASE AcquireWait(t)
  <2>1. Pool!Outside(t)
    BY <1>4, OutsidePool DEF AcquireWait
  <2>2. Cardinality(Holders) = Limit
    BY <1>4, GateAssumption DEF AcquireWait, GateInv, GateTypeOK, CounterExact
  <2>3. Holders' = Holders /\ waiters' = Append(waiters, t)
    BY <1>1, <1>4 DEF AcquireWait, Holders
  <2>4. Pool!Queue(t)
    BY <2>1, <2>2, <2>3, PoolCounts DEF Pool!Queue
  <2> QED
    BY <2>4 DEF Pool!Next
<1>5. CASE ReleaseHandOver(t)
  <2> DEFINE h == Head(waiters)
  <2>1. h \in Task /\ state[h] = "waiting" /\ h # t
    <3>1. waiters \in Seq(Task) /\ Len(waiters) \in Nat /\ Len(waiters) > 0
          /\ h \in Task /\ h = waiters[1]
      BY <1>5, HeadTailProperties, EmptySeq, LenProperties
      DEF ReleaseHandOver, GateInv, GateTypeOK
    <3> QED
      BY <1>5, <3>1 DEF GateInv, WaitersParked, ReleaseHandOver
  <2>2. /\ t \in Holders /\ waiters # <<>> /\ waiters' = Tail(waiters)
        /\ state' = [state EXCEPT ![t] = "idle", ![h] = "granted"]
    BY <1>5 DEF ReleaseHandOver, Holders
  <2> HIDE DEF h
  <2>3. Holders' = (Holders \ {t}) \cup {h}
    BY <1>1, <2>1, <2>2 DEF Holders
  <2>4. Pool!HandOver(t)
    BY <2>2, <2>3 DEF Pool!HandOver, h
  <2> QED
    BY <2>4 DEF Pool!Next
<1>6. CASE ReleaseFree(t)
  <2>1. t \in Holders /\ waiters = <<>> /\ waiters' = waiters
    BY <1>6 DEF ReleaseFree, Holders
  <2>2. Holders' = Holders \ {t}
    BY <1>1, <1>6 DEF ReleaseFree, Holders
  <2>3. Pool!Leave(t)
    BY <2>1, <2>2 DEF Pool!Leave
  <2> QED
    BY <2>3 DEF Pool!Next
<1> QED
  BY <1>2, <1>3, <1>4, <1>5, <1>6 DEF GateStep

\* createConcurrencyGate is the pool of slots its callers are promised, for any
\* callers and any limit: a caller that finds a free slot takes it at once, one
\* that finds none joins the end of the queue, and a slot that is given back
\* passes in the same step to the caller that has queued longest
\* (concurrency.ts).
THEOREM GateImplementsPool == GateSpec => ImplementsPool
<1>1. GateInit => Pool!Init
  BY DEF GateInit, Pool!Init, Holders
<1>2. GateInv /\ [GateNext]_gateVars => [Pool!Next]_<<Holders, waiters>>
  <2>1. UNCHANGED gateVars => UNCHANGED <<Holders, waiters>>
    BY DEF gateVars, Holders
  <2> QED
    BY <2>1, GateStepImplements DEF GateNext
<1> QED
  BY <1>1, <1>2, GateInvariant, PTL DEF GateSpec, ImplementsPool, Pool!Spec, Pool!poolVars
=============================================================================
