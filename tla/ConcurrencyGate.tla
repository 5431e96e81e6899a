--------------------------- MODULE ConcurrencyGate ---------------------------
(***************************************************************************)
(* createConcurrencyGate (apps/agent/src/worker/concurrency.ts), the       *)
(* semaphore of the collector.  The provider lane and the analysis lane    *)
(* each own one gate.  A task is a caller of gate.run; runWithProvider-    *)
(* ExecutionGate (executionGate.ts) delays it by a random start-up jitter  *)
(* before the call.                                                        *)
(*                                                                         *)
(* JavaScript runs a callback to its next await without interruption, so   *)
(* each of acquire, the resumption of a waiter, and release is one step.   *)
(* Between release handing a slot to a waiter and the waiter's code        *)
(* running there is a microtask: the waiter is "granted" in between.       *)
(***************************************************************************)
EXTENDS Naturals, Sequences, FiniteSets

CONSTANTS Task,   \* callers of gate.run
          Limit   \* the gate's limit

ASSUME GateAssumption ==
  /\ IsFiniteSet(Task)
  /\ Limit \in Nat \ {0}   \* createConcurrencyGate throws for anything else

VARIABLES activeCount,  \* the counter of the closure
          waiters,      \* the resolve callbacks, oldest first
          state         \* where each task stands

gateVars == <<activeCount, waiters, state>>

TaskState == {"idle", "jitter", "waiting", "granted", "running"}

Holders == {t \in Task : state[t] \in {"granted", "running"}}

GateInit ==
  /\ activeCount = 0
  /\ waiters = <<>>
  /\ state = [t \in Task |-> "idle"]

\* The random delay before a provider job asks for its slot.
Delay(t) ==
  /\ state[t] = "idle"
  /\ state' = [state EXCEPT ![t] = "jitter"]
  /\ UNCHANGED <<activeCount, waiters>>

\* acquire finds a free slot.
AcquireFree(t) ==
  /\ state[t] \in {"idle", "jitter"}
  /\ activeCount < Limit
  /\ activeCount' = activeCount + 1
  /\ state' = [state EXCEPT ![t] = "granted"]
  /\ UNCHANGED waiters

\* acquire finds none and parks the caller's resolve.
AcquireWait(t) ==
  /\ state[t] \in {"idle", "jitter"}
  /\ activeCount >= Limit
  /\ waiters' = Append(waiters, t)
  /\ state' = [state EXCEPT ![t] = "waiting"]
  /\ UNCHANGED activeCount

\* The microtask after acquire: the task body starts.
Start(t) ==
  /\ state[t] = "granted"
  /\ state' = [state EXCEPT ![t] = "running"]
  /\ UNCHANGED <<activeCount, waiters>>

\* Faulty variants of the hand-over.  NewestFirst: pop instead of shift.
\* Unresolved: the callback is dropped without being called.  Forgotten: the
\* waiter stays parked.
HandOverNewestFirst(t) ==
  /\ state[t] = "running"
  /\ waiters # <<>>
  /\ waiters' = SubSeq(waiters, 1, Len(waiters) - 1)
  /\ state' = [state EXCEPT ![t] = "idle", ![waiters[Len(waiters)]] = "granted"]
  /\ UNCHANGED activeCount

HandOverUnresolved(t) ==
  /\ state[t] = "running"
  /\ waiters # <<>>
  /\ waiters' = Tail(waiters)
  /\ state' = [state EXCEPT ![t] = "idle"]
  /\ UNCHANGED activeCount

HandOverForgotten(t) ==
  /\ state[t] = "running"
  /\ waiters # <<>>
  /\ activeCount' = activeCount - 1
  /\ state' = [state EXCEPT ![t] = "idle"]
  /\ UNCHANGED waiters

\* release with a waiter: the slot is handed over, the counter stays.
ReleaseHandOver(t) ==
  /\ state[t] = "running"
  /\ waiters # <<>>
  /\ waiters' = Tail(waiters)
  /\ state' = [state EXCEPT ![t] = "idle", ![Head(waiters)] = "granted"]
  /\ UNCHANGED activeCount

\* release without one.  The body may have thrown: finally releases too.
ReleaseFree(t) ==
  /\ state[t] = "running"
  /\ waiters = <<>>
  /\ activeCount' = IF activeCount > 0 THEN activeCount - 1 ELSE 0
  /\ state' = [state EXCEPT ![t] = "idle"]
  /\ UNCHANGED waiters

Release(t) == ReleaseHandOver(t) \/ ReleaseFree(t)

GateStep(t) ==
  \/ Delay(t)
  \/ AcquireFree(t)
  \/ AcquireWait(t)
  \/ Start(t)
  \/ ReleaseHandOver(t)
  \/ ReleaseFree(t)

GateNext == \E t \in Task : GateStep(t)

GateSpec == GateInit /\ [][GateNext]_gateVars

\* Microtasks always run, and every task body ends: provider attempts and
\* analyses are bounded by their own timeouts.
GateFairness == \A t \in Task : WF_gateVars(Start(t)) /\ WF_gateVars(Release(t))

FairGateSpec == GateSpec /\ GateFairness

-----------------------------------------------------------------------------
GateTypeOK ==
  /\ activeCount \in Nat
  /\ waiters \in Seq(Task)
  /\ state \in [Task -> TaskState]

\* The tasks past acquire never exceed the limit: the counter alone does not
\* say so, it is the hand-over without counting that could break it.
LimitRespected == Cardinality(Holders) <= Limit

\* A task is parked only while every slot is taken: a release never leaves a
\* waiter behind next to a free slot.
NoLostWakeup ==
  waiters # <<>> => activeCount = Limit /\ Cardinality(Holders) = Limit

\* The inductive invariant behind both: the waiter list holds the parked
\* tasks once each, the counter is exact, and a list that is not empty means
\* that the counter is at the limit.
WaitersDistinct ==
  \A i, j \in 1 .. Len(waiters) : waiters[i] = waiters[j] => i = j

WaitersParked ==
  \A t \in Task :
    state[t] = "waiting" <=> \E i \in 1 .. Len(waiters) : waiters[i] = t

CounterExact == activeCount = Cardinality(Holders)

GateInv ==
  /\ GateTypeOK
  /\ WaitersDistinct
  /\ WaitersParked
  /\ CounterExact
  /\ activeCount <= Limit
  /\ waiters # <<>> => activeCount = Limit

\* A caller that arrives never gets a slot ahead of one that waits, and a
\* slot passed on goes to the caller that has waited longest.
GrantInOrder ==
  \A t \in Task :
    state[t] # "granted" /\ state'[t] = "granted"
      => waiters = <<>> \/ t = Head(waiters)

NoOvertaking == [][GrantInOrder]_gateVars

\* Every parked caller eventually runs.
WaiterRuns == \A t \in Task : state[t] = "waiting" ~> state[t] = "running"

\* createConcurrencyGate is a pool of slots given out in the order of arrival:
\* the holders of its slots, granted or running, and its waiters are those of
\* the pool (concurrency.ts:8-50).
Pool == INSTANCE SlotPool WITH inside <- Holders, queue <- waiters

ImplementsPool == Pool!Spec
=============================================================================
