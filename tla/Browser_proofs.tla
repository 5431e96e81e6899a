---------------------------- MODULE Browser_proofs ----------------------------
(***************************************************************************)
(* What stands between the collector and a provider's page, for every      *)
(* value of the constants: a provider has one browser, its lease is exact, *)
(* an ensured runtime is whole, and a launched browser has the login that  *)
(* was saved.  Each part has an inductive invariant of its own; as they    *)
(* share no state, the types of all of them hold together.                 *)
(***************************************************************************)
EXTENDS MCBrowser, FiniteSetTheorems, TLAPS

-----------------------------------------------------------------------------
(* The browser runtime (RuntimeInstall).                                   *)

\* The steps of a process, and what is kept of each.
CommandStep == Holding \cup CommandEnded \cup {"look", "lock", "steal", "check"}
CommandType == [step : CommandStep, waited : 0 .. Stale, saw : SUBSET Command]
LockType == [by : {{}} \cup {{c} : c \in Command}, age : 0 .. Stale]

\* A process is at one of these steps.
At(c, steps) == command[c].step \in steps

\* Who works under the lock has made it, unless somebody was robbed of it.
LockHeld == \A c \in Command : At(c, Holding) => lock.by = {c}

\* Who rebuilds found no whole runtime, and who is done found one.
Whole ==
  /\ \A c \in Command : At(c, {"clear", "build", "fetch"}) => runtime # "ok"
  /\ \A c \in Command : At(c, {"ready"}) => runtime = "ok"

\* The inductive invariant of the runtime.
RuntimeInv == RuntimeTypeOK /\ (robbed = {} => LockHeld /\ Whole)

\* It holds before anybody looks.
LEMMA RuntimeInitInv == RuntimeInit => RuntimeInv
<1> USE RuntimeAssumption
<1> SUFFICES ASSUME RuntimeInit PROVE RuntimeInv
  OBVIOUS
<1>1. \A c \in Command : command[c] = Idle /\ command[c].step = "look"
  BY DEF RuntimeInit, Idle
<1>2. command \in [Command -> CommandType]
  BY DEF RuntimeInit, Idle, CommandType, CommandStep
<1>3. RuntimeTypeOK
  BY <1>2 DEF RuntimeInit, RuntimeTypeOK, CommandType, CommandStep, RuntimeStates, NoLock
<1> QED
  BY <1>1, <1>3 DEF RuntimeInit, RuntimeInv, LockHeld, Whole, At, Holding

\* The types in the parts that change.
LEMMA RuntimeTyped ==
  ASSUME RuntimeTypeOK
  PROVE  /\ runtime \in RuntimeStates /\ lock \in LockType
         /\ command \in [Command -> CommandType] /\ killed \in 0 .. MaxKill
         /\ robbed \subseteq {"slow", "anew"}
         /\ \A c \in Command : command[c].step \in CommandStep
  BY DEF RuntimeTypeOK, CommandType, CommandStep, LockType

\* And put together again.
LEMMA RuntimeTypes ==
  ASSUME runtime' \in RuntimeStates, lock' \in LockType,
         command' \in [Command -> CommandType], killed' \in 0 .. MaxKill,
         robbed' \subseteq {"slow", "anew"}
  PROVE  RuntimeTypeOK'
  BY DEF RuntimeTypeOK, CommandType, CommandStep, LockType

\* A process that goes to another step.
LEMMA GoesTo ==
  ASSUME RuntimeTypeOK, NEW c \in Command, NEW step \in CommandStep, GoTo(c, step)
  PROVE  /\ command' \in [Command -> CommandType]
         /\ command'[c].step = step /\ command'[c].saw = command[c].saw
         /\ \A d \in Command \ {c} : command'[d] = command[d]
<1>1. command \in [Command -> CommandType]
  BY RuntimeTyped
<1>2. command' = [command EXCEPT ![c] = [command[c] EXCEPT !.step = step]]
  BY DEF GoTo
<1>3. /\ [command[c] EXCEPT !.step = step] \in CommandType
      /\ [command[c] EXCEPT !.step = step].step = step
      /\ [command[c] EXCEPT !.step = step].saw = command[c].saw
  BY <1>1 DEF CommandType
<1> QED
  BY <1>1, <1>2, <1>3

\* What every step does to its process: the step it goes to, and whether it
\* makes the lock, removes it or leaves it.
LEMMA CommandMoves ==
  ASSUME RuntimeTypeOK, NEW c \in Command, EnsureRuntime(c) \/ Kill(c)
  PROVE  /\ RuntimeTypeOK'
         /\ command'[c].step \in CommandStep
         /\ \A d \in Command \ {c} : command'[d] = command[d]
<1> USE RuntimeAssumption
<1>1. /\ runtime \in RuntimeStates /\ lock \in LockType /\ killed \in 0 .. MaxKill
      /\ command \in [Command -> CommandType] /\ robbed \subseteq {"slow", "anew"}
      /\ command[c] \in CommandType /\ MaxKill \in Nat
  BY RuntimeTyped
<1>2. NoLock \in LockType /\ [by |-> {c}, age |-> 0] \in LockType
  BY DEF NoLock, LockType
<1> DEFINE Moved == /\ command' \in [Command -> CommandType]
                    /\ \A d \in Command \ {c} : command'[d] = command[d]
<1>3. ASSUME NEW step \in CommandStep, GoTo(c, step) PROVE Moved
  BY <1>3, GoesTo
<1>4. Moved => command'[c].step \in CommandStep
  BY DEF CommandType
<1>5. CASE SeeStale(c) \/ RemoveStale(c)
  <2>1. PICK step \in CommandStep, saw \in SUBSET Command :
          command' = [command EXCEPT ![c] = [command[c] EXCEPT !.step = step, !.saw = saw]]
    <3>1. lock.by \in SUBSET Command
      BY <1>1 DEF LockType
    <3>2. CASE SeeStale(c)
      <4>1. command' = [command EXCEPT ![c] =
                          [command[c] EXCEPT !.step = "steal", !.saw = lock.by]]
        BY <3>2 DEF SeeStale
      <4> QED
        BY <3>1, <4>1 DEF CommandStep
    <3>3. CASE RemoveStale(c)
      <4>1. command' = [command EXCEPT ![c] =
                          [command[c] EXCEPT !.step = "lock", !.saw = {}]]
        BY <3>3 DEF RemoveStale
      <4> QED
        BY <4>1 DEF CommandStep
    <3> QED
      BY <1>5, <3>2, <3>3
  <2>2. [command[c] EXCEPT !.step = step, !.saw = saw] \in CommandType
    BY <1>1 DEF CommandType
  <2>3. Moved
    BY <1>1, <2>1, <2>2
  <2>4. lock' \in LockType /\ robbed' \subseteq {"slow", "anew"}
        /\ runtime' = runtime /\ killed' = killed
    BY <1>1, <1>2, <1>5 DEF SeeStale, RemoveStale
  <2>5. runtime' \in RuntimeStates /\ killed' \in 0 .. MaxKill
    BY <1>1, <2>4
  <2>6. RuntimeTypeOK'
    BY ONLY <2>3, <2>4, <2>5, RuntimeTypes
  <2> QED
    BY <1>4, <2>3, <2>6
<1>6. CASE ~(SeeStale(c) \/ RemoveStale(c))
  <2>1. \E step \in CommandStep : GoTo(c, step)
    BY <1>6 DEF EnsureRuntime, Kill, Look, TakeLock, WaitedEnough, LookAgain, Clear, Build,
       Fetch, List, ReleaseLock, Check, CommandStep, Holding, CommandEnded
  <2>2. Moved
    BY <1>3, <2>1
  <2>3. lock' \in LockType /\ runtime' \in RuntimeStates /\ robbed' = robbed
    BY <1>1, <1>2, <1>6 DEF EnsureRuntime, Kill, Look, TakeLock, WaitedEnough, LookAgain,
       Clear, Build, Fetch, List, ReleaseLock, Check, RuntimeStates
  <2>4. killed' \in 0 .. MaxKill
    BY <1>1, <1>6 DEF EnsureRuntime, Kill, Look, TakeLock, WaitedEnough, LookAgain,
       Clear, Build, Fetch, List, ReleaseLock, Check
  <2>5. robbed' \subseteq {"slow", "anew"}
    BY <1>1, <2>3
  <2>6. RuntimeTypeOK'
    BY ONLY <2>2, <2>3, <2>4, <2>5, RuntimeTypes
  <2> QED
    BY <1>4, <2>2, <2>6
<1> QED
  BY <1>5, <1>6

\* The passage of time moves nobody.
LEMMA TickMoves ==
  ASSUME RuntimeTypeOK, RuntimeTick
  PROVE  /\ RuntimeTypeOK' /\ lock'.by = lock.by
         /\ \A c \in Command : /\ command'[c].step = command[c].step
                               /\ command'[c].saw = command[c].saw
<1> USE RuntimeAssumption
<1>0. /\ runtime \in RuntimeStates /\ lock \in LockType /\ killed \in 0 .. MaxKill
      /\ command \in [Command -> CommandType] /\ robbed \subseteq {"slow", "anew"}
  BY RuntimeTyped
<1>1. lock' \in LockType /\ lock'.by = lock.by
  BY <1>0 DEF RuntimeTick, LockType
<1>2. ASSUME NEW c \in Command
      PROVE  /\ command'[c] \in CommandType /\ command'[c].step = command[c].step
             /\ command'[c].saw = command[c].saw
  <2>1. command[c] \in CommandType
    BY <1>0
  <2>2. command'[c] = IF command[c].step = "lock" /\ command[c].waited < Stale
                      THEN [command[c] EXCEPT !.waited = @ + 1] ELSE command[c]
    BY DEF RuntimeTick
  <2> QED
    BY <2>1, <2>2 DEF CommandType
<1>3. command' \in [Command -> CommandType]
  <2>1. command' = [c \in Command |-> command'[c]]
    BY DEF RuntimeTick
  <2> QED
    BY <1>2, <2>1
<1>4. runtime' = runtime /\ killed' = killed /\ robbed' = robbed
  BY DEF RuntimeTick
<1> QED
  BY <1>0, <1>1, <1>2, <1>3, <1>4, RuntimeTypes

\* As long as nobody was robbed, the maker of the lock works alone.
LEMMA HeldStays ==
  ASSUME RuntimeTypeOK, LockHeld, Whole, robbed' = {},
         NEW c \in Command, EnsureRuntime(c) \/ Kill(c)
  PROVE  LockHeld' /\ Whole'
<1> USE DEF LockHeld, Whole, At
<1>1. /\ runtime \in RuntimeStates /\ lock \in LockType
      /\ command \in [Command -> CommandType]
      /\ \A d \in Command \ {c} : command'[d] = command[d]
  BY RuntimeTyped, CommandMoves
<1>2. ASSUME NEW step \in CommandStep, GoTo(c, step) PROVE command'[c].step = step
  BY <1>2, GoesTo
<1>3. \A d \in Command : At(c, Holding) /\ At(d, Holding) => d = c
  OBVIOUS
<1>4. CASE Look(c) \/ WaitedEnough(c) \/ Check(c) \/ Kill(c)
  <2>1. command'[c].step \in {"ready", "lock", "failed", "killed"}
        /\ (command'[c].step = "ready" => runtime = "ok")
        /\ UNCHANGED <<runtime, lock>>
    BY <1>2, <1>4 DEF Look, WaitedEnough, Check, Kill, CommandStep, CommandEnded
  <2> QED
    BY <1>1, <2>1 DEF Holding
<1>5. CASE TakeLock(c)
  <2>1. command'[c].step = "again" /\ lock.by = {} /\ lock'.by = {c} /\ runtime' = runtime
    BY <1>2, <1>5 DEF TakeLock, CommandStep, Holding
  <2>2. \A d \in Command : ~At(d, Holding)
    BY <2>1
  <2> QED
    BY <1>1, <2>1, <2>2 DEF Holding
<1>6. CASE SeeStale(c) \/ RemoveStale(c)
  <2>1. command'[c].step \in {"steal", "lock"} /\ runtime' = runtime
    BY <1>1, <1>6 DEF SeeStale, RemoveStale, CommandType
  <2>2. lock' = lock \/ \A d \in Command : ~At(d, Holding)
    <3>1. CASE SeeStale(c)
      BY <3>1 DEF SeeStale
    <3>2. CASE RemoveStale(c)
      <4>1. ~ \E d \in lock.by : command[d].step \in Holding
        BY <3>2 DEF RemoveStale
      <4> QED
        BY <4>1
    <3> QED
      BY <1>6, <3>1, <3>2
  <2> QED
    BY <1>1, <2>1, <2>2 DEF Holding
<1>7. CASE LookAgain(c) \/ Clear(c) \/ Build(c) \/ Fetch(c) \/ List(c)
  <2>1. At(c, Holding) /\ UNCHANGED lock
    BY <1>7 DEF LookAgain, Clear, Build, Fetch, List, Holding
  <2>2. /\ command'[c].step \in Holding
        /\ command'[c].step \in {"clear", "build", "fetch"} => runtime' # "ok"
        /\ runtime = "ok" => runtime' = "ok"
    BY <1>2, <1>7 DEF LookAgain, Clear, Build, Fetch, List, Holding, CommandStep
  <2>3. \A d \in Command \ {c} : ~At(d, Holding)
    BY <1>3, <2>1
  <2> QED
    BY <1>1, <2>1, <2>2, <2>3 DEF Holding
<1>8. CASE ReleaseLock(c)
  <2>1. At(c, Holding) /\ command'[c].step \in {"check", "failed"} /\ runtime' = runtime
    BY <1>2, <1>8 DEF ReleaseLock, Holding, CommandStep, CommandEnded
  <2>2. \A d \in Command \ {c} : ~At(d, Holding)
    BY <1>3, <2>1
  <2> QED
    BY <1>1, <2>1, <2>2 DEF Holding
<1> QED
  BY <1>4, <1>5, <1>6, <1>7, <1>8 DEF EnsureRuntime

\* A robbery is never forgotten.
LEMMA RobbedGrows ==
  ASSUME RuntimeTypeOK, [RuntimeNext]_runtimeVars
  PROVE  robbed \subseteq robbed'
  BY DEF runtimeVars, RuntimeNext, RuntimeTick, EnsureRuntime, Kill, Look, TakeLock,
     SeeStale, RemoveStale, WaitedEnough, LookAgain, Clear, Build, Fetch, List,
     ReleaseLock, Check

\* So every step of the runtime keeps the invariant.
LEMMA RuntimeStepInv ==
  ASSUME RuntimeInv, [RuntimeNext]_runtimeVars
  PROVE  RuntimeInv'
<1>0. RuntimeTypeOK
  BY DEF RuntimeInv
<1>1. CASE UNCHANGED runtimeVars
  BY <1>1 DEF runtimeVars, RuntimeInv, RuntimeTypeOK, LockHeld, Whole, At
<1>2. robbed' = {} => LockHeld /\ Whole
  BY <1>0, RobbedGrows DEF RuntimeInv
<1>3. ASSUME NEW c \in Command, EnsureRuntime(c) \/ Kill(c) PROVE RuntimeInv'
  BY <1>0, <1>2, <1>3, CommandMoves, HeldStays DEF RuntimeInv
<1>4. CASE RuntimeTick
  <2>1. runtime' = runtime
    BY <1>4 DEF RuntimeTick
  <2> QED
    BY <1>0, <1>2, <1>4, <2>1, TickMoves DEF RuntimeInv, LockHeld, Whole, At
<1> QED
  BY <1>1, <1>3, <1>4 DEF RuntimeNext

\* With it, a process that is done has a runtime, and one rebuilds at most.
LEMMA OneAtWork == RuntimeInv => EnsuredIsReady
<1> SUFFICES ASSUME RuntimeInv, robbed = {} PROVE OneRebuilder /\ ReadyIsWhole
  BY DEF EnsuredIsReady
<1> DEFINE T == {c \in Command : command[c].step \in Holding}
<1>1. T = {} \/ \E c \in T : T = {c}
  BY DEF RuntimeInv, LockHeld, At
<1>2. Cardinality({}) = 0 /\ \A c : Cardinality({c}) = 1
  BY FS_EmptySet, FS_Singleton
<1> HIDE DEF T
<1>3. Cardinality(T) = 0 \/ Cardinality(T) = 1
  BY <1>1, <1>2
<1> QED
  BY <1>3 DEF OneRebuilder, ReadyIsWhole, RuntimeInv, Whole, At, T

\* As long as no command at work was robbed of its lock, one command at most
\* works on the runtime and whoever ensured it has a whole one, for any number
\* of commands, kills and failed steps (runtime.mjs:702-734, 824-868).
THEOREM EnsuredReady == RuntimeSpec => []EnsuredIsReady
<1>1. RuntimeInv /\ [RuntimeNext]_runtimeVars => RuntimeInv'
  BY RuntimeStepInv
<1> QED
  BY <1>1, RuntimeInitInv, OneAtWork, PTL DEF RuntimeSpec

\* Before it made the lock.
Before == {"look", "lock", "steal"}

\* A command makes the lock once: who made the one that stands, or one that
\* was found stale, is past it.
MadeOnce ==
  /\ \A c \in Command : lock.by = {c} => ~At(c, Before)
  /\ \A c \in Command : At(c, {"steal"}) =>
       \E d \in Command \ {c} : command[c].saw = {d} /\ ~At(d, Before)

\* Its invariant with the ways a lock was lost.
RobInv == RuntimeTypeOK /\ MadeOnce /\ robbed \subseteq {"slow"}

\* Every step of a process keeps it, if there are no more than two.
LEMMA MadeOnceStep ==
  ASSUME NEW a, NEW b, Command = {a, b},
         RobInv, NEW c \in Command, EnsureRuntime(c) \/ Kill(c)
  PROVE  RobInv'
<1> USE DEF MadeOnce, At, RobInv
<1>1. /\ lock \in LockType /\ command \in [Command -> CommandType] /\ RuntimeTypeOK'
      /\ \A d \in Command \ {c} : command'[d] = command[d]
  BY RuntimeTyped, CommandMoves
<1>2. ASSUME NEW step \in CommandStep, GoTo(c, step) PROVE command'[c].step = step
  BY <1>2, GoesTo
<1>3. CASE SeeStale(c)
  <2>1. PICK d \in Command : lock.by = {d}
    BY <1>1, <1>3 DEF SeeStale, LockType
  <2>2. d # c /\ ~At(d, Before)
    BY <1>3, <2>1 DEF SeeStale, Before
  <2>3. command'[c].step = "steal" /\ command'[c].saw = {d} /\ lock' = lock
        /\ robbed' = robbed
    BY <1>1, <1>3, <2>1 DEF SeeStale, CommandType
  <2>4. command[c].step = "lock"
    BY <1>3 DEF SeeStale
  <2> QED
    BY <1>1, <2>1, <2>2, <2>3, <2>4 DEF Before
<1>4. CASE RemoveStale(c)
  <2>1. PICK d \in Command \ {c} : command[c].saw = {d} /\ ~At(d, Before)
    BY <1>4 DEF RemoveStale
  <2>2. command[c].step = "steal" /\ command'[c].step = "lock" /\ lock' = NoLock
    BY <1>1, <1>4 DEF RemoveStale, CommandType
  <2>3. ASSUME NEW e \in lock.by, command[e].step \in Holding
        PROVE  lock.by = command[c].saw
    <3>1. e \in Command /\ lock.by = {e} /\ e # c
      BY <1>1, <2>2, <2>3 DEF LockType, Holding
    <3> QED
      BY <2>1, <3>1
  <2>4. robbed' \subseteq {"slow"}
    BY <1>4, <2>3 DEF RemoveStale
  <2>5. \A e \in Command \ {c} : command[e].step # "steal"
    BY <2>1 DEF Before
  <2> QED
    BY <1>1, <2>2, <2>4, <2>5 DEF Before, NoLock
<1>5. CASE TakeLock(c)
  <2>1. command[c].step = "lock" /\ command'[c].step = "again" /\ lock'.by = {c}
        /\ robbed' = robbed
    BY <1>2, <1>5 DEF TakeLock, CommandStep, Holding
  <2> QED
    BY <1>1, <2>1 DEF Before
<1>6. CASE ~(SeeStale(c) \/ RemoveStale(c) \/ TakeLock(c))
  <2>1. command'[c].step \in CommandStep \ {"look", "steal"}
        /\ (command'[c].step = "lock" => command[c].step = "look")
    BY <1>2, <1>6 DEF EnsureRuntime, Kill, Look, WaitedEnough, LookAgain, Clear, Build,
       Fetch, List, ReleaseLock, Check, CommandStep, Holding, CommandEnded
  <2>2. (lock' = lock \/ lock' = NoLock) /\ robbed' = robbed
    BY <1>6 DEF EnsureRuntime, Kill, Look, WaitedEnough, LookAgain, Clear, Build,
       Fetch, List, ReleaseLock, Check
  <2> QED
    BY <1>1, <2>1, <2>2 DEF Before, NoLock
<1> QED
  BY <1>3, <1>4, <1>5, <1>6

\* Of two commands, none is robbed of a lock it has just made: a command at
\* work loses its lock only by outlasting the age at which it is taken to be
\* abandoned.  A third is needed for the look at the age of one lock and the
\* removal of the next (runtime.mjs:723-725).
THEOREM PairRobsTheSlow ==
  ASSUME NEW a, NEW b, Command = {a, b}
  PROVE  RuntimeSpec => [](robbed \subseteq {"slow"})
<1>1. RuntimeInit => RobInv
  <2> SUFFICES ASSUME RuntimeInit PROVE RobInv
    OBVIOUS
  <2>1. \A c \in Command : command[c].step = "look"
    BY DEF RuntimeInit, Idle
  <2>2. lock.by = {} /\ robbed = {}
    BY DEF RuntimeInit, NoLock
  <2> QED
    BY <2>1, <2>2, RuntimeInitInv DEF RobInv, RuntimeInv, MadeOnce, At
<1>2. RobInv /\ [RuntimeNext]_runtimeVars => RobInv'
  <2> SUFFICES ASSUME RobInv, [RuntimeNext]_runtimeVars PROVE RobInv'
    OBVIOUS
  <2>1. CASE UNCHANGED runtimeVars
    BY <2>1 DEF runtimeVars, RobInv, RuntimeTypeOK, MadeOnce, At
  <2>2. ASSUME NEW c \in Command, EnsureRuntime(c) \/ Kill(c) PROVE RobInv'
    BY <2>2, MadeOnceStep
  <2>3. CASE RuntimeTick
    <3>1. robbed' = robbed
      BY <2>3 DEF RuntimeTick
    <3> QED
      BY <2>3, <3>1, TickMoves DEF RobInv, MadeOnce, At
  <2> QED
    BY <2>1, <2>2, <2>3 DEF RuntimeNext
<1>3. RobInv => robbed \subseteq {"slow"}
  BY DEF RobInv
<1> QED
  BY <1>1, <1>2, <1>3, PTL DEF RuntimeSpec

-----------------------------------------------------------------------------
(* The sessions of a provider (ProviderSession).                           *)

\* The attempts that count on a session; those that will give it up.
Users == {"claiming", "setup", "running", "orphan", "stranded"}
Leavers == {"undoing", "leaving"}

\* One browser: the map, the launch in flight and the browsers agree.
MapExact ==
  /\ sessions # 0 => browser[sessions] = "open" /\ launching = 0
  /\ launching # 0 => pc[launching] = "launching"
  /\ \A a \in Attempt : pc[a] = "launching" => launching = a
  /\ \A s \in Session : browser[s] = "open" => sessions = s
  /\ \A a \in Attempt : pc[a] \in {"none", "launching"} => browser[a] = "none"
  /\ \A a \in Attempt : pc[a] \in {"none", "launching", "waiting"} => sess[a] = 0
  /\ \A a \in Attempt : sess[a] # 0 => browser[sess[a]] # "none"
  /\ \A a \in Attempt :
       pc[a] \in Users \cup Leavers \cup {"invalidating"} => sess[a] # 0

\* An attempt counts on a session, or is about to arm its timer.
InUse(a, s) == sess[a] = s /\ pc[a] \in Users
Leaving(a, s) == sess[a] = s /\ pc[a] \in Leavers

\* The lease of the open browser: one user at most, and a count that says so.
Leased ==
  \A s \in Session : browser[s] = "open" =>
    /\ \A a, b \in Attempt : InUse(a, s) /\ InUse(b, s) => a = b
    /\ \A a \in Attempt : InUse(a, s) => lease[s] = 1 /\ active[s] = owner[a]
    /\ lease[s] # 0 => \E a \in Attempt : InUse(a, s)

\* A session nobody uses has no task, and a timer or somebody about to arm one.
Unleased ==
  \A s \in Session : browser[s] = "open" /\ lease[s] = 0 =>
    active[s] = NoTask /\ (timers[s] > 0 \/ \E a \in Attempt : Leaving(a, s))

\* The timer a session refers to is armed.
TimerArmed == \A s \in Session : handle[s] => timers[s] > 0

\* An open session has pages of its task only, and the page of its user.
Paged ==
  /\ \A s \in Session : browser[s] = "open" => pages[s] \subseteq {active[s]}
  /\ \A s \in Session : \A a \in Attempt :
       browser[s] = "open" /\ sess[a] = s /\ pc[a] \in {"setup", "running"}
         => owner[a] \in pages[s]

\* An attempt that was started has a task.
Owned == \A a \in Attempt : pc[a] # "none" => owner[a] \in BrowserTask

\* The inductive invariant of the sessions.
SessionInv == SessionTypeOK /\ Owned /\ MapExact /\ Leased /\ Unleased /\ TimerArmed
/\ Paged

\* Attempts and sessions have the same numbers, and none is 0.
LEMMA AttemptFacts == Session = Attempt /\ 0 \notin Attempt
  BY DEF Session, Attempt

\* It holds before the first job.
LEMMA SessionInitInv == Init => SessionInv
<1> SUFFICES ASSUME Init PROVE SessionInv
  OBVIOUS
<1> USE SessionAssumption, AttemptFacts
<1>1. SessionTypeOK
  BY DEF Init, SessionTypeOK, BrowserState, PC
<1>2. MapExact
  BY DEF Init, MapExact, Users, Leavers
<1>3. Owned /\ Leased /\ Unleased /\ TimerArmed /\ Paged
  BY DEF Init, Owned, Leased, Unleased, TimerArmed, Paged
<1> QED
  BY <1>1, <1>2, <1>3 DEF SessionInv

\* What the manager's operations do to the types.
LEMMA ArmIdleTyped ==
  ASSUME SessionTypeOK, NEW s \in Session, ArmIdle(s)
  PROVE  timers' \in [Session -> Nat] /\ handle' \in [Session -> BOOLEAN]
  BY DEF SessionTypeOK, ArmIdle

\* A lease given back keeps its types.
LEMMA DropLeaseTyped ==
  ASSUME SessionTypeOK, NEW s \in {0} \cup Session, NEW a \in Attempt, DropLease(s, a)
  PROVE  lease' \in [Session -> Nat] /\ active' \in [Session -> BrowserTask \cup {NoTask}]
<1> USE AttemptFacts
<1>1. lease \in [Session -> Nat] /\ active \in [Session -> BrowserTask \cup {NoTask}]
  BY DEF SessionTypeOK
<1>2. CASE s \in Session
  <2> DEFINE n == IF lease[s] > 0 THEN lease[s] - 1 ELSE 0
             t == IF active[s] = owner[a] THEN NoTask ELSE active[s]
  <2>1. n \in Nat /\ t \in BrowserTask \cup {NoTask}
    BY <1>1, <1>2
  <2>2. lease' = [lease EXCEPT ![s] = n] /\ active' = [active EXCEPT ![s] = t]
    BY DEF DropLease
  <2> HIDE DEF n, t
  <2> QED
    BY <1>1, <2>1, <2>2
<1>3. CASE s = 0
  <2>1. lease' = lease /\ active' = active
    BY <1>1, <1>3 DEF DropLease
  <2> QED
    BY <1>1, <2>1
<1> QED
  BY <1>2, <1>3

\* A session that is closed keeps its types.
LEMMA CloseSessionTyped ==
  ASSUME SessionTypeOK, NEW s \in Session, CloseSession(s)
  PROVE  /\ browser' \in [Session -> BrowserState] /\ sessions' = 0
         /\ pages' \in [Session -> SUBSET BrowserTask] /\ timers' \in [Session -> Nat]
         /\ handle' \in [Session -> BOOLEAN]
  BY DEF SessionTypeOK, CloseSession, BrowserState

\* An attempt that gives its lease back.
LEMMA ReleaseLeaseInv ==
  ASSUME SessionInv, NEW a \in Attempt, pc[a] \in {"setup", "running"},
         NEW w \in Leavers, NEW r \in {"done", "failed"}, ReleaseLease(a, w, r),
         UNCHANGED <<launching, owner, sess, faults, runnerVars>>
  PROVE  SessionInv'
<1> USE SessionAssumption, AttemptFacts
<1> DEFINE s == sess[a]
           back == browser[s] # "open" \/ lease[s] > 1
<1>1. /\ s \in Session /\ owner[a] \in BrowserTask /\ SessionTypeOK
      /\ browser[s] = "open" => lease[s] = 1 /\ active[s] = owner[a]
                                /\ \A b \in Attempt : InUse(b, s) => b = a
  BY DEF SessionInv, SessionTypeOK, MapExact, Owned, Leased, InUse, Users
<1>2. /\ lease' \in [Session -> Nat] /\ active' \in [Session -> BrowserTask \cup {NoTask}]
  BY <1>1, DropLeaseTyped DEF ReleaseLease
<1>3. /\ lease' = [lease EXCEPT ![s] = IF @ > 0 THEN @ - 1 ELSE 0]
      /\ active' = [active EXCEPT ![s] = IF @ = owner[a] THEN NoTask ELSE @]
      /\ pages' = [pages EXCEPT ![s] = IF back THEN @ ELSE @ \ {owner[a]}]
      /\ pc' = [pc EXCEPT ![a] = IF back THEN r ELSE w]
      /\ UNCHANGED <<sessions, browser, timers, handle>>
  BY DEF ReleaseLease, DropLease
<1>4. /\ pc'[a] = IF browser[s] = "open" THEN w ELSE r
      /\ \A b \in Attempt \ {a} : pc'[b] = pc[b]
      /\ pc' \in [Attempt -> PC]
  <2>1. back <=> browser[s] # "open"
    BY <1>1
  <2> HIDE DEF back
  <2> QED
    BY <1>3, <2>1 DEF SessionInv, SessionTypeOK, PC, Leavers, Ended
<1>5. /\ browser[s] = "open" => lease'[s] = 0 /\ active'[s] = NoTask
         /\ pages'[s] = pages[s] \ {owner[a]}
      /\ \A t \in Session \ {s} : lease'[t] = lease[t] /\ active'[t] = active[t]
         /\ pages'[t] = pages[t]
      /\ pages' \in [Session -> SUBSET BrowserTask]
  BY <1>1, <1>3 DEF SessionInv, SessionTypeOK
<1>6. /\ UNCHANGED <<sessions, browser, timers, handle, launching, owner, sess, faults>>
      /\ UNCHANGED <<cur, job, task, tries>>
  BY <1>3 DEF runnerVars
<1> HIDE DEF s, back
<1>7. SessionTypeOK'
  BY <1>2, <1>4, <1>5, <1>6 DEF SessionInv, SessionTypeOK
<1>8. MapExact' /\ Owned' /\ TimerArmed'
  <2>1. pc'[a] \in Leavers \cup {"done", "failed"}
    BY <1>4
  <2>2. Owned' /\ TimerArmed'
    BY <1>4, <1>6, <2>1 DEF SessionInv, Owned, TimerArmed, Leavers
  <2>3. sess[a] # 0
    BY <1>1 DEF s
  <2>4. launching \in {0} \cup (Attempt \ {a}) /\ sess \in [Attempt -> {0} \cup Session]
    BY DEF SessionInv, SessionTypeOK, MapExact
  <2>5. \A b \in Attempt \ {a} : pc'[b] = pc[b]
    BY <1>4
  <2>6. MapExact /\ UNCHANGED <<sessions, browser, launching, sess>>
    BY <1>6 DEF SessionInv
  <2>7. MapExact'
    BY ONLY <2>1, <2>3, <2>4, <2>5, <2>6 DEF MapExact, Users, Leavers
  <2> QED
    BY <2>2, <2>7
<1>9. Leased'
  BY <1>1, <1>4, <1>5, <1>6 DEF SessionInv, Leased, InUse, Users, Leavers, s
<1>10. Unleased'
  <2>1. browser[s] = "open" => Leaving(a, s)'
    BY <1>4, <1>6 DEF Leaving, s
  <2> QED
    BY <1>4, <1>5, <1>6, <2>1 DEF SessionInv, Unleased, Leaving, Leavers, s
<1>11. Paged'
  BY <1>1, <1>4, <1>5, <1>6 DEF SessionInv, Paged, InUse, Users, Leavers, s
<1> QED
  BY <1>7, <1>8, <1>9, <1>10, <1>11 DEF SessionInv

\* A job that starts keeps it.
LEMMA StartJobInv ==
  ASSUME SessionInv, NEW t \in BrowserTask, StartJob(t)
  PROVE  SessionInv'
<1> USE SessionAssumption, AttemptFacts
<1>1. SessionTypeOK'
  <2>1. timers' \in [Session -> Nat] /\ handle' \in [Session -> BOOLEAN]
    <3>1. CASE sessions # 0 /\ lease[sessions] = 0
      <4>1. sessions \in Session /\ ArmIdle(sessions) /\ SessionTypeOK
        BY <3>1 DEF SessionInv, SessionTypeOK, StartJob
      <4> QED
        BY <4>1, ArmIdleTyped
    <3>2. CASE ~(sessions # 0 /\ lease[sessions] = 0)
      BY <3>2 DEF SessionInv, SessionTypeOK, StartJob
    <3> QED
      BY <3>1, <3>2
  <2>2. job' \in Nat
    BY DEF SessionInv, SessionTypeOK, StartJob
  <2> QED
    BY <2>1, <2>2 DEF SessionInv, SessionTypeOK, StartJob, attemptVars
<1>2. MapExact'
  BY DEF SessionInv, SessionTypeOK, MapExact, StartJob, ArmIdle, attemptVars, Users,
     Leavers, InSetup, Ended
<1>3. Leased'
  BY DEF SessionInv, SessionTypeOK, MapExact, Leased, Unleased, InUse, StartJob, ArmIdle,
     attemptVars, Users, Leavers
<1>4. Unleased'
  BY DEF SessionInv, SessionTypeOK, MapExact, Leased, Unleased, InUse, Leaving, StartJob,
     ArmIdle, attemptVars, Users, Leavers
<1>5. TimerArmed'
  BY DEF SessionInv, SessionTypeOK, TimerArmed, StartJob, ArmIdle, attemptVars
<1>6. Paged'
  BY DEF SessionInv, SessionTypeOK, MapExact, Leased, Unleased, Paged, InUse, StartJob,
     ArmIdle, attemptVars, Users, Leavers
<1>7. Owned'
  BY DEF SessionInv, SessionTypeOK, Owned, StartJob, ArmIdle, attemptVars
<1> QED
  BY <1>1, <1>2, <1>3, <1>4, <1>5, <1>6, <1>7 DEF SessionInv

\* A job that ends keeps it.
LEMMA EndJobInv ==
  ASSUME SessionInv, EndJob
  PROVE  SessionInv'
<1> USE SessionAssumption, AttemptFacts
<1>1. SessionTypeOK'
  BY DEF SessionInv, SessionTypeOK, EndJob, sessionVars, attemptVars, BrowserState, PC,
     InSetup, Ended
<1>2. MapExact'
  BY DEF SessionInv, SessionTypeOK, MapExact, EndJob, sessionVars, attemptVars, Users,
     Leavers, InSetup, Ended
<1>3. Leased'
  BY DEF SessionInv, SessionTypeOK, MapExact, Leased, Unleased, InUse, EndJob, sessionVars,
     attemptVars, Users, Leavers
<1>4. Unleased'
  BY DEF SessionInv, SessionTypeOK, MapExact, Leased, Unleased, InUse, Leaving, EndJob,
     sessionVars, attemptVars, Users, Leavers
<1>5. TimerArmed'
  BY DEF SessionInv, SessionTypeOK, TimerArmed, EndJob, sessionVars, attemptVars
<1>6. Paged'
  BY DEF SessionInv, SessionTypeOK, MapExact, Leased, Unleased, Paged, InUse, EndJob,
     sessionVars, attemptVars, Users, Leavers
<1>7. Owned'
  BY DEF SessionInv, SessionTypeOK, Owned, EndJob, sessionVars, attemptVars
<1> QED
  BY <1>1, <1>2, <1>3, <1>4, <1>5, <1>6, <1>7 DEF SessionInv

\* An attempt that takes the session of the map keeps it.
LEMMA BeginReuseInv ==
  ASSUME SessionInv, NEW a \in Attempt, BeginReuse(a)
  PROVE  SessionInv'
<1> USE SessionAssumption, AttemptFacts
<1>1. SessionTypeOK'
  <2>1. sessions \in Session /\ owner' = [owner EXCEPT ![a] = task] /\ owner'[a] = task
    BY DEF SessionInv, SessionTypeOK, BeginReuse, Begin
  <2>2. /\ lease' \in [Session -> Nat]
        /\ active' \in [Session -> BrowserTask \cup {NoTask}]
        /\ handle' \in [Session -> BOOLEAN]
    BY <2>1 DEF SessionInv, SessionTypeOK, BeginReuse, CountLease
  <2>3. timers' \in [Session -> Nat]
    BY <2>1 DEF SessionInv, SessionTypeOK, TimerArmed, BeginReuse, CountLease
  <2>4. owner' \in [Attempt -> BrowserTask \cup {NoTask}]
        /\ sess' \in [Attempt -> {0} \cup Session]
    BY <2>1 DEF SessionInv, SessionTypeOK, BeginReuse
  <2>5. pc' \in [Attempt -> PC]
    BY DEF SessionInv, SessionTypeOK, BeginReuse, PC
  <2>6. cur' \in {0} \cup Attempt /\ tries' \in Nat
    BY DEF SessionInv, SessionTypeOK, BeginReuse, Begin
  <2> QED
    BY <2>2, <2>3, <2>4, <2>5, <2>6 DEF SessionInv, SessionTypeOK, BeginReuse, Begin
<1>2. MapExact'
  BY DEF SessionInv, SessionTypeOK, MapExact, BeginReuse, Begin, CountLease, Users, Leavers,
     InSetup, Ended
<1>3. Leased'
  BY DEF SessionInv, SessionTypeOK, MapExact, Leased, Unleased, InUse, BeginReuse, Begin,
     CountLease, Users, Leavers
<1>4. Unleased'
  BY DEF SessionInv, SessionTypeOK, MapExact, Leased, Unleased, InUse, Leaving, BeginReuse,
     Begin, CountLease, Users, Leavers
<1>5. TimerArmed'
  BY DEF SessionInv, SessionTypeOK, TimerArmed, BeginReuse, Begin, CountLease
<1>6. Paged'
  BY DEF SessionInv, SessionTypeOK, MapExact, Leased, Unleased, Paged, InUse, BeginReuse,
     Begin, CountLease, Users, Leavers
<1>7. Owned'
  BY DEF SessionInv, SessionTypeOK, Owned, BeginReuse, Begin, CountLease
<1> QED
  BY <1>1, <1>2, <1>3, <1>4, <1>5, <1>6, <1>7 DEF SessionInv

\* An attempt that is refused a session in use keeps it.
LEMMA BeginRefusedInv ==
  ASSUME SessionInv, NEW a \in Attempt, BeginRefused(a)
  PROVE  SessionInv'
<1> USE SessionAssumption, AttemptFacts
<1>1. SessionTypeOK'
  BY DEF SessionInv, SessionTypeOK, BeginRefused, Begin, sessionVars, BrowserState, PC,
     InSetup, Ended
<1>2. MapExact'
  BY DEF SessionInv, SessionTypeOK, MapExact, BeginRefused, Begin, sessionVars, Users,
     Leavers, InSetup, Ended
<1>3. Leased'
  BY DEF SessionInv, SessionTypeOK, MapExact, Leased, Unleased, InUse, BeginRefused, Begin,
     sessionVars, Users, Leavers
<1>4. Unleased'
  BY DEF SessionInv, SessionTypeOK, MapExact, Leased, Unleased, InUse, Leaving,
     BeginRefused, Begin, sessionVars, Users, Leavers
<1>5. TimerArmed'
  BY DEF SessionInv, SessionTypeOK, TimerArmed, BeginRefused, Begin, sessionVars
<1>6. Paged'
  BY DEF SessionInv, SessionTypeOK, MapExact, Leased, Unleased, Paged, InUse, BeginRefused,
     Begin, sessionVars, Users, Leavers
<1>7. Owned'
  BY DEF SessionInv, SessionTypeOK, Owned, BeginRefused, Begin, sessionVars
<1> QED
  BY <1>1, <1>2, <1>3, <1>4, <1>5, <1>6, <1>7 DEF SessionInv

\* An attempt that launches a browser keeps it.
LEMMA BeginLaunchInv ==
  ASSUME SessionInv, NEW a \in Attempt, BeginLaunch(a)
  PROVE  SessionInv'
<1> USE SessionAssumption, AttemptFacts
<1>1. SessionTypeOK'
  BY DEF SessionInv, SessionTypeOK, BeginLaunch, Begin, sessionVars, BrowserState, PC,
     InSetup, Ended
<1>2. MapExact'
  BY DEF SessionInv, SessionTypeOK, MapExact, BeginLaunch, Begin, sessionVars, Users,
     Leavers, InSetup, Ended
<1>3. Leased'
  BY DEF SessionInv, SessionTypeOK, MapExact, Leased, Unleased, InUse, BeginLaunch, Begin,
     sessionVars, Users, Leavers
<1>4. Unleased'
  BY DEF SessionInv, SessionTypeOK, MapExact, Leased, Unleased, InUse, Leaving, BeginLaunch,
     Begin, sessionVars, Users, Leavers
<1>5. TimerArmed'
  BY DEF SessionInv, SessionTypeOK, TimerArmed, BeginLaunch, Begin, sessionVars
<1>6. Paged'
  BY DEF SessionInv, SessionTypeOK, MapExact, Leased, Unleased, Paged, InUse, BeginLaunch,
     Begin, sessionVars, Users, Leavers
<1>7. Owned'
  BY DEF SessionInv, SessionTypeOK, Owned, BeginLaunch, Begin, sessionVars
<1> QED
  BY <1>1, <1>2, <1>3, <1>4, <1>5, <1>6, <1>7 DEF SessionInv

\* An attempt that waits for another's launch keeps it.
LEMMA BeginWaitInv ==
  ASSUME SessionInv, NEW a \in Attempt, BeginWait(a)
  PROVE  SessionInv'
<1> USE SessionAssumption, AttemptFacts
<1>1. SessionTypeOK'
  BY DEF SessionInv, SessionTypeOK, BeginWait, Begin, sessionVars, BrowserState, PC,
     InSetup, Ended
<1>2. MapExact'
  BY DEF SessionInv, SessionTypeOK, MapExact, BeginWait, Begin, sessionVars, Users, Leavers,
     InSetup, Ended
<1>3. Leased'
  BY DEF SessionInv, SessionTypeOK, MapExact, Leased, Unleased, InUse, BeginWait, Begin,
     sessionVars, Users, Leavers
<1>4. Unleased'
  BY DEF SessionInv, SessionTypeOK, MapExact, Leased, Unleased, InUse, Leaving, BeginWait,
     Begin, sessionVars, Users, Leavers
<1>5. TimerArmed'
  BY DEF SessionInv, SessionTypeOK, TimerArmed, BeginWait, Begin, sessionVars
<1>6. Paged'
  BY DEF SessionInv, SessionTypeOK, MapExact, Leased, Unleased, Paged, InUse, BeginWait,
     Begin, sessionVars, Users, Leavers
<1>7. Owned'
  BY DEF SessionInv, SessionTypeOK, Owned, BeginWait, Begin, sessionVars
<1> QED
  BY <1>1, <1>2, <1>3, <1>4, <1>5, <1>6, <1>7 DEF SessionInv

\* A set-up that is given up, and goes on, keeps it.
LEMMA SetupTimeoutInv ==
  ASSUME SessionInv, NEW a \in Attempt, SetupTimeout(a)
  PROVE  SessionInv'
<1> USE SessionAssumption, AttemptFacts
<1>1. SessionTypeOK'
  BY DEF SessionInv, SessionTypeOK, SetupTimeout, sessionVars, attemptVars, BrowserState,
     PC, InSetup, Ended
<1>2. MapExact'
  BY DEF SessionInv, SessionTypeOK, MapExact, SetupTimeout, sessionVars, attemptVars, Users,
     Leavers, InSetup, Ended
<1>3. Leased'
  BY DEF SessionInv, SessionTypeOK, MapExact, Leased, Unleased, InUse, SetupTimeout,
     sessionVars, attemptVars, Users, Leavers
<1>4. Unleased'
  BY DEF SessionInv, SessionTypeOK, MapExact, Leased, Unleased, InUse, Leaving,
     SetupTimeout, sessionVars, attemptVars, Users, Leavers
<1>5. TimerArmed'
  BY DEF SessionInv, SessionTypeOK, TimerArmed, SetupTimeout, sessionVars, attemptVars
<1>6. Paged'
  BY DEF SessionInv, SessionTypeOK, MapExact, Leased, Unleased, Paged, InUse, SetupTimeout,
     sessionVars, attemptVars, Users, Leavers
<1>7. Owned'
  BY DEF SessionInv, SessionTypeOK, Owned, SetupTimeout, sessionVars, attemptVars
<1> QED
  BY <1>1, <1>2, <1>3, <1>4, <1>5, <1>6, <1>7 DEF SessionInv

\* The next attempt of a job keeps it.
LEMMA RetryInv ==
  ASSUME SessionInv, NEW a \in Attempt, Retry(a)
  PROVE  SessionInv'
<1> USE SessionAssumption, AttemptFacts
<1>1. SessionTypeOK'
  BY DEF SessionInv, SessionTypeOK, Retry, sessionVars, attemptVars, BrowserState, PC,
     InSetup, Ended
<1>2. MapExact'
  BY DEF SessionInv, SessionTypeOK, MapExact, Retry, sessionVars, attemptVars, Users,
     Leavers, InSetup, Ended
<1>3. Leased'
  BY DEF SessionInv, SessionTypeOK, MapExact, Leased, Unleased, InUse, Retry, sessionVars,
     attemptVars, Users, Leavers
<1>4. Unleased'
  BY DEF SessionInv, SessionTypeOK, MapExact, Leased, Unleased, InUse, Leaving, Retry,
     sessionVars, attemptVars, Users, Leavers
<1>5. TimerArmed'
  BY DEF SessionInv, SessionTypeOK, TimerArmed, Retry, sessionVars, attemptVars
<1>6. Paged'
  BY DEF SessionInv, SessionTypeOK, MapExact, Leased, Unleased, Paged, InUse, Retry,
     sessionVars, attemptVars, Users, Leavers
<1>7. Owned'
  BY DEF SessionInv, SessionTypeOK, Owned, Retry, sessionVars, attemptVars
<1> QED
  BY <1>1, <1>2, <1>3, <1>4, <1>5, <1>6, <1>7 DEF SessionInv

\* A launch that succeeds keeps it.
LEMMA LaunchDoneInv ==
  ASSUME SessionInv, NEW a \in Attempt, LaunchDone(a)
  PROVE  SessionInv'
<1> USE SessionAssumption, AttemptFacts
<1>1. SessionTypeOK'
  <2>1. /\ browser' \in [Session -> BrowserState] /\ lease' \in [Session -> Nat]
        /\ sess' \in [Attempt -> {0} \cup Session]
    BY DEF SessionInv, SessionTypeOK, LaunchDone, BrowserState
  <2>2. active' \in [Session -> BrowserTask \cup {NoTask}]
    BY DEF SessionInv, SessionTypeOK, LaunchDone
  <2>3. pages' \in [Session -> SUBSET BrowserTask]
    <3>1. owner[a] \in BrowserTask
      BY DEF SessionInv, Owned, LaunchDone
    <3> QED
      BY <3>1 DEF SessionInv, SessionTypeOK, LaunchDone
  <2>4. pc' \in [Attempt -> PC]
    BY DEF SessionInv, SessionTypeOK, LaunchDone, PC, Ended
  <2> QED
    BY <2>1, <2>2, <2>3, <2>4 DEF SessionInv, SessionTypeOK, LaunchDone, runnerVars
<1>2. MapExact'
  BY DEF SessionInv, SessionTypeOK, MapExact, LaunchDone, Waiters, runnerVars, Users,
     Leavers, InSetup, Ended
<1>3. Leased'
  BY DEF SessionInv, SessionTypeOK, MapExact, Leased, Unleased, InUse, LaunchDone, Waiters,
     runnerVars, Users, Leavers
<1>4. Unleased'
  BY DEF SessionInv, SessionTypeOK, MapExact, Leased, Unleased, InUse, Leaving, LaunchDone,
     Waiters, runnerVars, Users, Leavers
<1>5. TimerArmed'
  BY DEF SessionInv, SessionTypeOK, TimerArmed, LaunchDone, Waiters, runnerVars
<1>6. Paged'
  BY DEF SessionInv, SessionTypeOK, MapExact, Leased, Unleased, Paged, InUse, LaunchDone,
     Waiters, runnerVars, Users, Leavers
<1>7. Owned'
  BY DEF SessionInv, SessionTypeOK, Owned, LaunchDone, Waiters, runnerVars
<1> QED
  BY <1>1, <1>2, <1>3, <1>4, <1>5, <1>6, <1>7 DEF SessionInv

\* A launch that fails keeps it.
LEMMA LaunchFailsInv ==
  ASSUME SessionInv, NEW a \in Attempt, LaunchFails(a)
  PROVE  SessionInv'
<1> USE SessionAssumption, AttemptFacts
<1>1. SessionTypeOK'
  BY DEF SessionInv, SessionTypeOK, LaunchFails, Waiters, sessionVars, runnerVars,
     BrowserState, PC, InSetup, Ended
<1>2. MapExact'
  BY DEF SessionInv, SessionTypeOK, MapExact, LaunchFails, Waiters, sessionVars, runnerVars,
     Users, Leavers, InSetup, Ended
<1>3. Leased'
  BY DEF SessionInv, SessionTypeOK, MapExact, Leased, Unleased, InUse, LaunchFails, Waiters,
     sessionVars, runnerVars, Users, Leavers
<1>4. Unleased'
  BY DEF SessionInv, SessionTypeOK, MapExact, Leased, Unleased, InUse, Leaving, LaunchFails,
     Waiters, sessionVars, runnerVars, Users, Leavers
<1>5. TimerArmed'
  BY DEF SessionInv, SessionTypeOK, TimerArmed, LaunchFails, Waiters, sessionVars,
     runnerVars
<1>6. Paged'
  BY DEF SessionInv, SessionTypeOK, MapExact, Leased, Unleased, Paged, InUse, LaunchFails,
     Waiters, sessionVars, runnerVars, Users, Leavers
<1>7. Owned'
  BY DEF SessionInv, SessionTypeOK, Owned, LaunchFails, Waiters, sessionVars, runnerVars
<1> QED
  BY <1>1, <1>2, <1>3, <1>4, <1>5, <1>6, <1>7 DEF SessionInv

\* An attempt that gets its page keeps it.
LEMMA ClaimInv ==
  ASSUME SessionInv, NEW a \in Attempt, Claim(a)
  PROVE  SessionInv'
<1> USE SessionAssumption, AttemptFacts
<1>1. SessionTypeOK'
  <2>1. owner[a] \in BrowserTask
    BY DEF SessionInv, Owned, Claim
  <2>2. pages' \in [Session -> SUBSET BrowserTask]
    BY <2>1 DEF SessionInv, SessionTypeOK, Claim
  <2>3. pc' \in [Attempt -> PC]
    BY DEF SessionInv, SessionTypeOK, Claim, PC
  <2> QED
    BY <2>2, <2>3 DEF SessionInv, SessionTypeOK, Claim, runnerVars
<1>2. MapExact'
  BY DEF SessionInv, SessionTypeOK, MapExact, Claim, runnerVars, Users, Leavers, InSetup,
     Ended
<1>3. Leased'
  BY DEF SessionInv, SessionTypeOK, MapExact, Leased, Unleased, InUse, Claim, runnerVars,
     Users, Leavers
<1>4. Unleased'
  BY DEF SessionInv, SessionTypeOK, MapExact, Leased, Unleased, InUse, Leaving, Claim,
     runnerVars, Users, Leavers
<1>5. TimerArmed'
  BY DEF SessionInv, SessionTypeOK, TimerArmed, Claim, runnerVars
<1>6. Paged'
  BY DEF SessionInv, SessionTypeOK, MapExact, Leased, Unleased, Paged, InUse, Claim,
     runnerVars, Users, Leavers
<1>7. Owned'
  BY DEF SessionInv, SessionTypeOK, Owned, Claim, runnerVars
<1> QED
  BY <1>1, <1>2, <1>3, <1>4, <1>5, <1>6, <1>7 DEF SessionInv

\* An attempt that gets no page, and keeps its lease, keeps it.
LEMMA ClaimFailsInv ==
  ASSUME SessionInv, NEW a \in Attempt, ClaimFails(a)
  PROVE  SessionInv'
<1> USE SessionAssumption, AttemptFacts
<1>1. SessionTypeOK'
  BY DEF SessionInv, SessionTypeOK, ClaimFails, sessionVars, runnerVars, BrowserState, PC,
     InSetup, Ended
<1>2. MapExact'
  BY DEF SessionInv, SessionTypeOK, MapExact, ClaimFails, sessionVars, runnerVars, Users,
     Leavers, InSetup, Ended
<1>3. Leased'
  BY DEF SessionInv, SessionTypeOK, MapExact, Leased, Unleased, InUse, ClaimFails,
     sessionVars, runnerVars, Users, Leavers
<1>4. Unleased'
  BY DEF SessionInv, SessionTypeOK, MapExact, Leased, Unleased, InUse, Leaving, ClaimFails,
     sessionVars, runnerVars, Users, Leavers
<1>5. TimerArmed'
  BY DEF SessionInv, SessionTypeOK, TimerArmed, ClaimFails, sessionVars, runnerVars
<1>6. Paged'
  BY DEF SessionInv, SessionTypeOK, MapExact, Leased, Unleased, Paged, InUse, ClaimFails,
     sessionVars, runnerVars, Users, Leavers
<1>7. Owned'
  BY DEF SessionInv, SessionTypeOK, Owned, ClaimFails, sessionVars, runnerVars
<1> QED
  BY <1>1, <1>2, <1>3, <1>4, <1>5, <1>6, <1>7 DEF SessionInv

\* A set-up that ends keeps it.
LEMMA SetupDoneInv ==
  ASSUME SessionInv, NEW a \in Attempt, SetupDone(a)
  PROVE  SessionInv'
<1> USE SessionAssumption, AttemptFacts
<1>1. SessionTypeOK'
  BY DEF SessionInv, SessionTypeOK, SetupDone, sessionVars, runnerVars, BrowserState, PC,
     InSetup, Ended
<1>2. MapExact'
  BY DEF SessionInv, SessionTypeOK, MapExact, SetupDone, sessionVars, runnerVars, Users,
     Leavers, InSetup, Ended
<1>3. Leased'
  BY DEF SessionInv, SessionTypeOK, MapExact, Leased, Unleased, InUse, SetupDone,
     sessionVars, runnerVars, Users, Leavers
<1>4. Unleased'
  BY DEF SessionInv, SessionTypeOK, MapExact, Leased, Unleased, InUse, Leaving, SetupDone,
     sessionVars, runnerVars, Users, Leavers
<1>5. TimerArmed'
  BY DEF SessionInv, SessionTypeOK, TimerArmed, SetupDone, sessionVars, runnerVars
<1>6. Paged'
  BY DEF SessionInv, SessionTypeOK, MapExact, Leased, Unleased, Paged, InUse, SetupDone,
     sessionVars, runnerVars, Users, Leavers
<1>7. Owned'
  BY DEF SessionInv, SessionTypeOK, Owned, SetupDone, sessionVars, runnerVars
<1> QED
  BY <1>1, <1>2, <1>3, <1>4, <1>5, <1>6, <1>7 DEF SessionInv

\* A set-up that fails and gives its lease back keeps it.
LEMMA SetupFailsInv ==
  ASSUME SessionInv, NEW a \in Attempt, SetupFails(a)
  PROVE  SessionInv'
  BY ReleaseLeaseInv DEF SetupFails, Leavers

\* A run that ends and gives its lease back keeps it.
LEMMA RunEndsInv ==
  ASSUME SessionInv, NEW a \in Attempt, RunEnds(a)
  PROVE  SessionInv'
  BY ReleaseLeaseInv DEF RunEnds, Leavers

\* A run that discards its session keeps it.
LEMMA RunInvalidatesInv ==
  ASSUME SessionInv, NEW a \in Attempt, RunInvalidates(a)
  PROVE  SessionInv'
<1> USE SessionAssumption, AttemptFacts
<1>1. SessionTypeOK'
  <2>1. lease' \in [Session -> Nat] /\ active' \in [Session -> BrowserTask \cup {NoTask}]
    BY DropLeaseTyped DEF SessionInv, SessionTypeOK, RunInvalidates
  <2>2. sess[a] \in Session
    BY DEF SessionInv, SessionTypeOK, MapExact, RunInvalidates, Users
  <2>3. /\ sessions' \in {0} \cup Session /\ browser' \in [Session -> BrowserState]
        /\ pages' \in [Session -> SUBSET BrowserTask] /\ timers' \in [Session -> Nat]
        /\ handle' \in [Session -> BOOLEAN]
    BY <2>2, CloseSessionTyped DEF SessionInv, SessionTypeOK, RunInvalidates
  <2>4. pc' \in [Attempt -> PC]
    BY DEF SessionInv, SessionTypeOK, RunInvalidates, PC, Ended
  <2> QED
    BY <2>1, <2>3, <2>4 DEF SessionInv, SessionTypeOK, RunInvalidates, runnerVars
<1>2. MapExact'
  BY DEF SessionInv, SessionTypeOK, MapExact, RunInvalidates, DropLease, CloseSession,
     runnerVars, Users, Leavers, InSetup, Ended
<1>3. Leased'
  BY DEF SessionInv, SessionTypeOK, MapExact, Leased, Unleased, InUse, RunInvalidates,
     DropLease, CloseSession, runnerVars, Users, Leavers
<1>4. Unleased'
  BY DEF SessionInv, SessionTypeOK, MapExact, Leased, Unleased, InUse, Leaving,
     RunInvalidates, DropLease, CloseSession, runnerVars, Users, Leavers
<1>5. TimerArmed'
  BY DEF SessionInv, SessionTypeOK, TimerArmed, RunInvalidates, DropLease, CloseSession,
     runnerVars
<1>6. Paged'
  BY DEF SessionInv, SessionTypeOK, MapExact, Leased, Unleased, Paged, InUse,
     RunInvalidates, DropLease, CloseSession, runnerVars, Users, Leavers
<1>7. Owned'
  BY DEF SessionInv, SessionTypeOK, Owned, RunInvalidates, DropLease, CloseSession,
     runnerVars
<1> QED
  BY <1>1, <1>2, <1>3, <1>4, <1>5, <1>6, <1>7 DEF SessionInv

\* A session that is discarded keeps it.
LEMMA InvalidateEndsInv ==
  ASSUME SessionInv, NEW a \in Attempt, InvalidateEnds(a)
  PROVE  SessionInv'
<1> USE SessionAssumption, AttemptFacts
<1>1. SessionTypeOK'
  BY DEF SessionInv, SessionTypeOK, InvalidateEnds, sessionVars, runnerVars, BrowserState,
     PC, InSetup, Ended
<1>2. MapExact'
  BY DEF SessionInv, SessionTypeOK, MapExact, InvalidateEnds, sessionVars, runnerVars,
     Users, Leavers, InSetup, Ended
<1>3. Leased'
  BY DEF SessionInv, SessionTypeOK, MapExact, Leased, Unleased, InUse, InvalidateEnds,
     sessionVars, runnerVars, Users, Leavers
<1>4. Unleased'
  BY DEF SessionInv, SessionTypeOK, MapExact, Leased, Unleased, InUse, Leaving,
     InvalidateEnds, sessionVars, runnerVars, Users, Leavers
<1>5. TimerArmed'
  BY DEF SessionInv, SessionTypeOK, TimerArmed, InvalidateEnds, sessionVars, runnerVars
<1>6. Paged'
  BY DEF SessionInv, SessionTypeOK, MapExact, Leased, Unleased, Paged, InUse,
     InvalidateEnds, sessionVars, runnerVars, Users, Leavers
<1>7. Owned'
  BY DEF SessionInv, SessionTypeOK, Owned, InvalidateEnds, sessionVars, runnerVars
<1> QED
  BY <1>1, <1>2, <1>3, <1>4, <1>5, <1>6, <1>7 DEF SessionInv

\* A lease that was given back, its timer armed, keeps it.
LEMMA ReleaseEndsInv ==
  ASSUME SessionInv, NEW a \in Attempt, ReleaseEnds(a)
  PROVE  SessionInv'
<1> USE SessionAssumption, AttemptFacts
<1>1. SessionTypeOK'
  <2>1. timers' \in [Session -> Nat] /\ handle' \in [Session -> BOOLEAN]
    <3>1. sess[a] \in Session
      BY DEF SessionInv, SessionTypeOK, MapExact, ReleaseEnds, Leavers
    <3> QED
      BY <3>1, ArmIdleTyped DEF SessionInv, SessionTypeOK, ReleaseEnds
  <2>2. pc' \in [Attempt -> PC]
    BY DEF SessionInv, SessionTypeOK, ReleaseEnds, PC, Ended
  <2> QED
    BY <2>1, <2>2 DEF SessionInv, SessionTypeOK, ReleaseEnds, runnerVars
<1>2. MapExact'
  BY DEF SessionInv, SessionTypeOK, MapExact, ReleaseEnds, ArmIdle, runnerVars, Users,
     Leavers, InSetup, Ended
<1>3. Leased'
  BY DEF SessionInv, SessionTypeOK, MapExact, Leased, Unleased, InUse, ReleaseEnds, ArmIdle,
     runnerVars, Users, Leavers
<1>4. Unleased'
  BY DEF SessionInv, SessionTypeOK, MapExact, Leased, Unleased, InUse, Leaving, ReleaseEnds,
     ArmIdle, runnerVars, Users, Leavers
<1>5. TimerArmed'
  BY DEF SessionInv, SessionTypeOK, TimerArmed, ReleaseEnds, ArmIdle, runnerVars
<1>6. Paged'
  BY DEF SessionInv, SessionTypeOK, MapExact, Leased, Unleased, Paged, InUse, ReleaseEnds,
     ArmIdle, runnerVars, Users, Leavers
<1>7. Owned'
  BY DEF SessionInv, SessionTypeOK, Owned, ReleaseEnds, ArmIdle, runnerVars
<1> QED
  BY <1>1, <1>2, <1>3, <1>4, <1>5, <1>6, <1>7 DEF SessionInv

\* An idle timer keeps it.
LEMMA IdleTimerFiresInv ==
  ASSUME SessionInv, NEW s \in Session, IdleTimerFires(s)
  PROVE  SessionInv'
<1> USE SessionAssumption, AttemptFacts
<1>1. SessionTypeOK'
  BY DEF SessionInv, SessionTypeOK, IdleTimerFires, CloseSession, attemptVars, runnerVars,
     BrowserState, PC, InSetup, Ended
<1>2. MapExact'
  BY DEF SessionInv, SessionTypeOK, MapExact, IdleTimerFires, CloseSession, attemptVars,
     runnerVars, Users, Leavers, InSetup, Ended
<1>3. Leased'
  BY DEF SessionInv, SessionTypeOK, MapExact, Leased, Unleased, InUse, IdleTimerFires,
     CloseSession, attemptVars, runnerVars, Users, Leavers
<1>4. Unleased'
  BY DEF SessionInv, SessionTypeOK, MapExact, Leased, Unleased, InUse, Leaving,
     IdleTimerFires, CloseSession, attemptVars, runnerVars, Users, Leavers
<1>5. TimerArmed'
  BY DEF SessionInv, SessionTypeOK, TimerArmed, IdleTimerFires, CloseSession, attemptVars,
     runnerVars
<1>6. Paged'
  BY DEF SessionInv, SessionTypeOK, MapExact, Leased, Unleased, Paged, InUse,
     IdleTimerFires, CloseSession, attemptVars, runnerVars, Users, Leavers
<1>7. Owned'
  BY DEF SessionInv, SessionTypeOK, Owned, IdleTimerFires, CloseSession, attemptVars,
     runnerVars
<1> QED
  BY <1>1, <1>2, <1>3, <1>4, <1>5, <1>6, <1>7 DEF SessionInv

\* A browser that closes by itself keeps it.
LEMMA ContextClosedInv ==
  ASSUME SessionInv, NEW s \in Session, ContextClosed(s)
  PROVE  SessionInv'
<1> USE SessionAssumption, AttemptFacts
<1>1. SessionTypeOK'
  BY DEF SessionInv, SessionTypeOK, ContextClosed, BrowserGone, attemptVars, runnerVars,
     BrowserState, PC, InSetup, Ended
<1>2. MapExact'
  BY DEF SessionInv, SessionTypeOK, MapExact, ContextClosed, BrowserGone, attemptVars,
     runnerVars, Users, Leavers, InSetup, Ended
<1>3. Leased'
  BY DEF SessionInv, SessionTypeOK, MapExact, Leased, Unleased, InUse, ContextClosed,
     BrowserGone, attemptVars, runnerVars, Users, Leavers
<1>4. Unleased'
  BY DEF SessionInv, SessionTypeOK, MapExact, Leased, Unleased, InUse, Leaving,
     ContextClosed, BrowserGone, attemptVars, runnerVars, Users, Leavers
<1>5. TimerArmed'
  BY DEF SessionInv, SessionTypeOK, TimerArmed, ContextClosed, BrowserGone, attemptVars,
     runnerVars
<1>6. Paged'
  BY DEF SessionInv, SessionTypeOK, MapExact, Leased, Unleased, Paged, InUse, ContextClosed,
     BrowserGone, attemptVars, runnerVars, Users, Leavers
<1>7. Owned'
  BY DEF SessionInv, SessionTypeOK, Owned, ContextClosed, BrowserGone, attemptVars,
     runnerVars
<1> QED
  BY <1>1, <1>2, <1>3, <1>4, <1>5, <1>6, <1>7 DEF SessionInv

\* A browser that dies keeps it.
LEMMA BrowserCrashInv ==
  ASSUME SessionInv, NEW s \in Session, BrowserCrash(s)
  PROVE  SessionInv'
<1> USE SessionAssumption, AttemptFacts
<1>1. SessionTypeOK'
  BY DEF SessionInv, SessionTypeOK, BrowserCrash, BrowserGone, attemptVars, runnerVars,
     BrowserState, PC, InSetup, Ended
<1>2. MapExact'
  BY DEF SessionInv, SessionTypeOK, MapExact, BrowserCrash, BrowserGone, attemptVars,
     runnerVars, Users, Leavers, InSetup, Ended
<1>3. Leased'
  BY DEF SessionInv, SessionTypeOK, MapExact, Leased, Unleased, InUse, BrowserCrash,
     BrowserGone, attemptVars, runnerVars, Users, Leavers
<1>4. Unleased'
  BY DEF SessionInv, SessionTypeOK, MapExact, Leased, Unleased, InUse, Leaving,
     BrowserCrash, BrowserGone, attemptVars, runnerVars, Users, Leavers
<1>5. TimerArmed'
  BY DEF SessionInv, SessionTypeOK, TimerArmed, BrowserCrash, BrowserGone, attemptVars,
     runnerVars
<1>6. Paged'
  BY DEF SessionInv, SessionTypeOK, MapExact, Leased, Unleased, Paged, InUse, BrowserCrash,
     BrowserGone, attemptVars, runnerVars, Users, Leavers
<1>7. Owned'
  BY DEF SessionInv, SessionTypeOK, Owned, BrowserCrash, BrowserGone, attemptVars,
     runnerVars
<1> QED
  BY <1>1, <1>2, <1>3, <1>4, <1>5, <1>6, <1>7 DEF SessionInv

\* So every step of the sessions keeps it.
LEMMA SessionStepInv ==
  ASSUME SessionInv, [Next]_vars
  PROVE  SessionInv'
<1>1. CASE UNCHANGED vars
  BY <1>1 DEF vars, sessionVars, attemptVars, runnerVars, SessionInv, SessionTypeOK,
     MapExact,
     Owned, Leased, Unleased, TimerArmed, Paged, InUse, Leaving
<1>2. ASSUME NEW a \in Attempt, AttemptStep(a) PROVE SessionInv'
  BY <1>2, LaunchDoneInv, LaunchFailsInv, ClaimInv, ClaimFailsInv, SetupDoneInv,
     SetupFailsInv,
     RunEndsInv, RunInvalidatesInv, InvalidateEndsInv, ReleaseEndsInv DEF AttemptStep
<1>3. CASE Next
  BY <1>2, <1>3, StartJobInv, EndJobInv, BeginReuseInv, BeginRefusedInv, BeginLaunchInv,
     BeginWaitInv, SetupTimeoutInv, RetryInv, IdleTimerFiresInv, ContextClosedInv,
     BrowserCrashInv DEF Next
<1> QED
  BY <1>1, <1>3

\* It holds in every state of every behaviour.
LEMMA SessionInductive == Spec => []SessionInv
  BY SessionInitInv, SessionStepInv, PTL DEF Spec

\* The users of an open session, counted.
LEMMA LeaseCounted == SessionInv => LeaseExact
<1> SUFFICES ASSUME SessionInv, NEW s \in Session, browser[s] = "open"
             PROVE  /\ lease[s] = Cardinality(LeaseHolders(s)) /\ lease[s] <= 1
                    /\ lease[s] = 0 =>
                         \/ timers[s] > 0
                         \/ \E a \in Attempt : sess[a] = s /\ pc[a] \in {"undoing",
                            "leaving"}
  BY DEF LeaseExact
<1> DEFINE T == LeaseHolders(s)
<1>1. T = {a \in Attempt : InUse(a, s)}
  BY DEF LeaseHolders, InUse, Users
<1>2. Cardinality({}) = 0 /\ \A a : Cardinality({a}) = 1
  BY FS_EmptySet, FS_Singleton
<1>3. CASE \E a \in Attempt : InUse(a, s)
  <2>1. PICK a \in Attempt : InUse(a, s)
    BY <1>3
  <2>2. T = {a} /\ lease[s] = 1
    BY <1>1, <2>1 DEF SessionInv, Leased
  <2> HIDE DEF T
  <2>3. Cardinality(T) = 1
    BY <1>2, <2>2
  <2> QED
    BY <2>2, <2>3 DEF T
<1>4. CASE ~\E a \in Attempt : InUse(a, s)
  <2>1. T = {} /\ lease[s] = 0
    BY <1>1, <1>4 DEF SessionInv, Leased
  <2>2. \/ timers[s] > 0
        \/ \E a \in Attempt : sess[a] = s /\ pc[a] \in {"undoing", "leaving"}
    BY <2>1 DEF SessionInv, Unleased, Leaving, Leavers
  <2> HIDE DEF T
  <2>3. Cardinality(T) = 0
    BY <1>2, <2>1
  <2> QED
    BY <2>1, <2>2, <2>3 DEF T
<1> QED
  BY <1>3, <1>4

\* A provider never has two browsers, however attempts that were given up, idle
\* timers, crashes and launches interleave (providerSessionManager.ts), for
\* any number of jobs and attempts.
THEOREM OneBrowser == Spec => []SingleBrowser
<1>1. SessionInv => SingleBrowser
  BY AttemptFacts DEF SessionInv, SessionTypeOK, MapExact, SingleBrowser
<1> QED
  BY <1>1, SessionInductive, PTL

\* The lease of an open browser is the number of its users, none or one, and a
\* browser nobody uses will be closed: a timer is armed or about to be
\* (providerSessionManager.ts).
THEOREM LeaseIsExact == Spec => []LeaseExact
  BY LeaseCounted, SessionInductive, PTL

\* An attempt that works in an open browser works on its own page, and no other
\* task has one there (taskPageRegistry.ts, providerSessionManager.ts).
THEOREM PagesAreMine == Spec => []PageIsMine
<1>1. SessionInv => PageIsMine
  <2> SUFFICES ASSUME SessionInv PROVE PageIsMine
    OBVIOUS
  <2>1. ASSUME NEW a \in Attempt, pc[a] \in {"setup", "running"}, browser[sess[a]] = "open"
        PROVE  owner[a] \in pages[sess[a]] /\ active[sess[a]] = owner[a]
    <3>1. sess[a] \in Session /\ InUse(a, sess[a])
      BY <2>1, AttemptFacts DEF SessionInv, SessionTypeOK, MapExact, InUse, Users
    <3> QED
      BY <2>1, <3>1 DEF SessionInv, Leased, Paged
  <2>2. \A s \in Session : browser[s] = "open" => pages[s] \subseteq {active[s]}
    BY DEF SessionInv, Paged
  <2> QED
    BY <2>1, <2>2 DEF PageIsMine
<1> QED
  BY <1>1, SessionInductive, PTL

-----------------------------------------------------------------------------
(* The saved login (ProviderLogin).                                        *)

\* The types of the files and of the processes.
LauncherStep == {"idle", "look", "spawn", "spawned", "wait"}
SignInStep == {"none", "start", "launch", "seed", "open", "session", "status", "mark",
"close"}
ProfileType == [exists : BOOLEAN, login : Nat, owner : {"nobody", "signIn", "job"}]
FilesType == [session : Nat, seededBy : Nat, connecting : BOOLEAN, pid : BOOLEAN,
              profile : ProfileType]
SignInType == [step : SignInStep, seed : Nat, login : Nat, kept : Nat]
BrowserJobType == [step : LoginStep, planned : Nat, bootstrap : BOOLEAN, login : Nat,
                   kept : Nat, resets : Nat]
SpentType == [login : 0 .. MaxLogin, kill : 0 .. MaxLoginKill, reset : 0 .. MaxReset]

\* They are of these types.
LoginTyped ==
  /\ files \in FilesType /\ persistent \in BOOLEAN /\ launcher \in LauncherStep
  /\ signIn \in SignInType /\ browserJob \in BrowserJobType
  /\ reset \in {"idle", "status"} /\ loginSpent \in SpentType

\* Every login there is was made by a sign-in.
LoginsMade ==
  /\ files.session <= loginSpent.login /\ files.seededBy <= loginSpent.login
  /\ files.profile.login <= loginSpent.login
  /\ signIn.seed <= loginSpent.login /\ signIn.login <= loginSpent.login
  /\ signIn.kept <= loginSpent.login
  /\ browserJob.planned <= loginSpent.login /\ browserJob.login <= loginSpent.login
  /\ browserJob.kept <= loginSpent.login
  /\ browserJob.resets <= loginSpent.reset

\* The invariant the types need.
LoginKnown == LoginTyped /\ LoginsMade

\* What a step leaves the files, the sign-in, the browser and the counts as.
FilesBecome(session, seededBy, exists, login, user) ==
  /\ files' \in FilesType
  /\ files'.session = session /\ files'.seededBy = seededBy
  /\ files'.profile.exists = exists /\ files'.profile.login = login
  /\ files'.profile.owner = user

SignInBecomes(step, seed, login, kept) ==
  /\ signIn' \in SignInType
  /\ signIn'.step = step /\ signIn'.seed = seed /\ signIn'.login = login
     /\ signIn'.kept = kept

JobBecomes(step, planned, bootstrap, login, kept, resets) ==
  /\ browserJob' \in BrowserJobType
  /\ browserJob'.step = step /\ browserJob'.planned = planned
  /\ browserJob'.bootstrap = bootstrap /\ browserJob'.login = login
  /\ browserJob'.kept = kept /\ browserJob'.resets = resets

SpentBecomes(login, resets) ==
  /\ loginSpent' \in SpentType
  /\ loginSpent'.login = login /\ loginSpent'.reset = resets

\* What is left alone, and who is gone.
SameFiles == FilesBecome(files.session, files.seededBy, files.profile.exists,
                         files.profile.login, files.profile.owner)
SameSignIn == SignInBecomes(signIn.step, signIn.seed, signIn.login, signIn.kept)
SameJob == JobBecomes(browserJob.step, browserJob.planned, browserJob.bootstrap,
                      browserJob.login, browserJob.kept, browserJob.resets)
SameSpent == SpentBecomes(loginSpent.login, loginSpent.reset)
NoSignInLeft == SignInBecomes("none", 0, 0, 0)
NoBrowserLeft == JobBecomes("off", 0, FALSE, 0, 0, 0)
RestTyped == persistent' = persistent /\ launcher' \in LauncherStep /\ reset' \in {"idle",
"status"}

\* The owner of the profile after p let it go, and its login after p stored n.
LetGo(p) == IF files.profile.owner = p THEN "nobody" ELSE files.profile.owner
LoginIn(p, n) == IF files.profile.owner = p THEN n ELSE files.profile.login

\* It holds before the first sign-in.
LEMMA LoginInitKnown == LoginInit => LoginKnown
<1> SUFFICES ASSUME LoginInit PROVE LoginKnown
  OBVIOUS
<1> USE LoginAssumption
<1>1. NoProfile \in ProfileType
  BY DEF NoProfile, ProfileType, NoLogin
<1>2. LoginTyped
  BY <1>1 DEF LoginInit, LoginTyped, NoLogin, NoSignIn, NoBrowser, FilesType, SignInType,
     BrowserJobType, SpentType, LauncherStep, SignInStep, LoginStep
<1>3. LoginsMade
  BY DEF LoginInit, LoginsMade, NoLogin, NoSignIn, NoBrowser, NoProfile
<1> QED
  BY <1>2, <1>3 DEF LoginKnown

\* What is left alone stays as it is.
LEMMA LoginSame ==
  ASSUME LoginTyped
  PROVE  /\ files' = files => SameFiles
         /\ signIn' = signIn => SameSignIn
         /\ browserJob' = browserJob => SameJob
         /\ loginSpent' = loginSpent => SameSpent
         /\ signIn' = NoSignIn => NoSignInLeft
         /\ browserJob' = NoBrowser => NoBrowserLeft
<1>1. files' = files => SameFiles
  BY DEF LoginTyped, SameFiles, FilesBecome
<1>2. signIn' = signIn => SameSignIn
  BY DEF LoginTyped, SameSignIn, SignInBecomes
<1>3. browserJob' = browserJob => SameJob
  BY DEF LoginTyped, SameJob, JobBecomes
<1>4. loginSpent' = loginSpent => SameSpent
  BY DEF LoginTyped, SameSpent, SpentBecomes
<1>5. signIn' = NoSignIn => NoSignInLeft
  BY DEF NoSignIn, NoSignInLeft, SignInBecomes, SignInType, SignInStep, NoLogin
<1>6. browserJob' = NoBrowser => NoBrowserLeft
  BY DEF NoBrowser, NoBrowserLeft, JobBecomes, BrowserJobType, LoginStep, NoLogin
<1> QED
  BY <1>1, <1>2, <1>3, <1>4, <1>5, <1>6

\* The status, and the profile of a process that lets go or stores a login.
LEMMA LoginFiles ==
  ASSUME LoginTyped
  PROVE  /\ files \in FilesType /\ files.profile \in ProfileType
         /\ \A p \in {"signIn", "job"} :
              /\ Let(p) \in ProfileType
              /\ Let(p).exists = files.profile.exists /\ Let(p).login = files.profile.login
              /\ Let(p).owner = LetGo(p)
              /\ \A n \in Nat :
                   /\ Stored(p, n) \in ProfileType
                   /\ Stored(p, n).exists = files.profile.exists
                   /\ Stored(p, n).owner = files.profile.owner
                   /\ Stored(p, n).login = LoginIn(p, n)
         /\ \A c, q \in BOOLEAN :
              /\ StatusSays(c, q) \in FilesType
              /\ StatusSays(c, q).session = files.session
              /\ StatusSays(c, q).seededBy = files.seededBy
              /\ StatusSays(c, q).profile = files.profile
<1>1. files.profile \in ProfileType /\ files \in FilesType
  BY DEF LoginTyped, FilesType
<1>2. ASSUME NEW p \in {"signIn", "job"}
      PROVE  /\ Let(p) \in ProfileType /\ Let(p).exists = files.profile.exists
             /\ Let(p).login = files.profile.login /\ Let(p).owner = LetGo(p)
  BY <1>1 DEF Let, LetGo, ProfileType
<1>3. ASSUME NEW p \in {"signIn", "job"}, NEW n \in Nat
      PROVE  /\ Stored(p, n) \in ProfileType /\ Stored(p, n).exists = files.profile.exists
             /\ Stored(p, n).owner = files.profile.owner
             /\ Stored(p, n).login = LoginIn(p, n)
  BY <1>1 DEF Stored, LoginIn, ProfileType
<1>4. ASSUME NEW c \in BOOLEAN, NEW q \in BOOLEAN
      PROVE  /\ StatusSays(c, q) \in FilesType
             /\ StatusSays(c, q).session = files.session
             /\ StatusSays(c, q).seededBy = files.seededBy
             /\ StatusSays(c, q).profile = files.profile
  BY <1>1 DEF FilesType, StatusSays
<1> QED
  BY <1>1, <1>2, <1>3, <1>4

\* What is written into the files.
LEMMA LoginValues ==
  ASSUME LoginTyped
  PROVE  /\ files.session \in Nat /\ files.seededBy \in Nat /\ files.profile.login \in Nat
         /\ files.profile.exists \in BOOLEAN
         /\ signIn.seed \in Nat /\ signIn.login \in Nat /\ signIn.kept \in Nat
         /\ browserJob.planned \in Nat /\ browserJob.login \in Nat
            /\ browserJob.kept \in Nat
         /\ loginSpent.login + 1 \in Nat /\ loginSpent.reset \in Nat /\ NoLogin \in Nat
         /\ NoProfile \in ProfileType /\ NoProfile.exists = FALSE /\ NoProfile.login = 0
         /\ NoProfile.owner = "nobody" /\ NoLogin = 0
<1>1. files.session \in Nat /\ files.seededBy \in Nat /\ files.profile \in ProfileType
  BY DEF LoginTyped, FilesType
<1>2. files.profile.login \in Nat /\ files.profile.exists \in BOOLEAN
  BY <1>1 DEF ProfileType
<1>3. signIn.seed \in Nat /\ signIn.login \in Nat /\ signIn.kept \in Nat
  BY DEF LoginTyped, SignInType
<1>4. browserJob.planned \in Nat /\ browserJob.login \in Nat /\ browserJob.kept \in Nat
  BY DEF LoginTyped, BrowserJobType
<1>5. loginSpent.login + 1 \in Nat /\ loginSpent.reset \in Nat
  BY LoginAssumption DEF LoginTyped, SpentType
<1>6. NoProfile \in ProfileType /\ NoProfile.exists = FALSE /\ NoProfile.login = 0
      /\ NoProfile.owner = "nobody" /\ NoLogin = 0 /\ NoLogin \in Nat
  BY DEF NoProfile, ProfileType, NoLogin
<1> QED
  BY <1>1, <1>2, <1>3, <1>4, <1>5, <1>6

\* The shapes in which the files are written.
LEMMA FilesAsTheyAre ==
  ASSUME NEW f \in FilesType, files' = f
  PROVE  FilesBecome(f.session, f.seededBy, f.profile.exists, f.profile.login,
         f.profile.owner)
  BY DEF FilesBecome

\* The session.
LEMMA FilesSession ==
  ASSUME NEW f \in FilesType, NEW n \in Nat, files' = [f EXCEPT !.session = n]
  PROVE  FilesBecome(n, f.seededBy, f.profile.exists, f.profile.login, f.profile.owner)
  BY DEF FilesBecome, FilesType

\* The mark of the session the profile was made from.
LEMMA FilesMark ==
  ASSUME NEW f \in FilesType, NEW n \in Nat, files' = [f EXCEPT !.seededBy = n]
  PROVE  FilesBecome(f.session, n, f.profile.exists, f.profile.login, f.profile.owner)
  BY DEF FilesBecome, FilesType

\* The profile.
LEMMA FilesProfile ==
  ASSUME NEW f \in FilesType, NEW p \in ProfileType, files' = [f EXCEPT !.profile = p]
  PROVE  FilesBecome(f.session, f.seededBy, p.exists, p.login, p.owner)
  BY DEF FilesBecome, FilesType

\* The profile, taken by a browser.
LEMMA FilesTaken ==
  ASSUME NEW f \in FilesType, NEW p \in {"signIn", "job"}, NEW n \in Nat,
         files' = [f EXCEPT !.profile = [exists |-> TRUE, login |-> n, owner |-> p]]
  PROVE  FilesBecome(f.session, f.seededBy, TRUE, n, p)
<1>1. [exists |-> TRUE, login |-> n, owner |-> p] \in ProfileType
  BY DEF ProfileType
<1> QED
  BY <1>1, FilesProfile

\* The profile and its mark.
LEMMA FilesProfileMark ==
  ASSUME NEW f \in FilesType, NEW p \in ProfileType, NEW n \in Nat,
         files' = [f EXCEPT !.profile = p, !.seededBy = n]
  PROVE  FilesBecome(f.session, n, p.exists, p.login, p.owner)
  BY DEF FilesBecome, FilesType

\* Everything a reset removes.
LEMMA FilesWiped ==
  ASSUME NEW f \in FilesType, NEW p \in ProfileType, NEW m \in Nat, NEW n \in Nat,
         files' = [f EXCEPT !.session = m, !.profile = p, !.seededBy = n]
  PROVE  FilesBecome(m, n, p.exists, p.login, p.owner)
  BY DEF FilesBecome, FilesType

\* What the steps of the launcher that only write the status do.
LEMMA QuietEffect ==
  ASSUME LoginTyped,
         LaunchBegin \/ LaunchInUse \/ LaunchAnnounce \/ LaunchRecord \/ LaunchEnds
         \/ LaunchEndsAnyhow \/ ResetStatus
  PROVE  SameFiles /\ SameSignIn /\ SameJob /\ SameSpent /\ RestTyped
<1> HIDE DEF FilesType, SignInType, BrowserJobType, SpentType
<1>1. files' = files \/ (\E c, q \in BOOLEAN : files' = StatusSays(c, q))
  BY DEF LaunchBegin, LaunchInUse, LaunchAnnounce, LaunchRecord, LaunchEnds,
     LaunchEndsAnyhow, ResetStatus
<1>2. SameFiles
  BY <1>1, LoginSame, LoginFiles DEF SameFiles, FilesBecome
<1>3. RestTyped /\ UNCHANGED <<signIn, browserJob, loginSpent>>
  BY DEF LoginTyped, RestTyped, LauncherStep, LaunchBegin, LaunchInUse, LaunchAnnounce,
     LaunchRecord, LaunchEnds, LaunchEndsAnyhow, ResetStatus
<1> QED
  BY <1>2, <1>3, LoginSame

\* What LaunchSpawn does.
LEMMA LaunchSpawnEffect ==
  ASSUME LoginTyped, LaunchSpawn
  PROVE  /\ signIn.step \in {"none", "close"} /\ RestTyped
         /\ FilesBecome(files.session, files.seededBy, files.profile.exists,
            files.profile.login, LetGo("signIn")) /\ SignInBecomes("start", 0, 0, 0)
            /\ SameJob /\ SameSpent
<1> USE LoginAssumption
<1>a. LoginTyped
  OBVIOUS
<1>b. signIn \in SignInType /\ browserJob \in BrowserJobType
  BY DEF LoginTyped
<1>0. signIn.step \in {"none", "close"} /\ RestTyped
  BY DEF LaunchSpawn, LoginTyped, RestTyped, LauncherStep
<1>1. files' = [files EXCEPT !.profile = Let("signIn")]
  BY DEF LaunchSpawn
<1>2. FilesBecome(files.session, files.seededBy, files.profile.exists, files.profile.login,
      LetGo("signIn"))
  BY ONLY <1>a, <1>1, LoginFiles, LoginValues, FilesProfile
<1>3. SignInBecomes("start", 0, 0, 0)
  BY DEF LaunchSpawn, LoginTyped, FilesType, ProfileType, SignInType, SignInStep, SpentType,
     SignInBecomes, NoSignIn, NoLogin
<1>4. SameJob
  BY LoginSame DEF LaunchSpawn
<1>5. SameSpent
  BY LoginSame DEF LaunchSpawn
<1> QED
  BY <1>0, <1>2, <1>3, <1>4, <1>5

\* What SignInStart does.
LEMMA SignInStartEffect ==
  ASSUME LoginTyped, SignInStart
  PROVE  /\ signIn.step = "start" /\ RestTyped
         /\ \/ persistent /\ SameFiles /\ NoSignInLeft /\ SameJob /\ SameSpent
            \/ SameFiles /\ SignInBecomes("launch", files.session, signIn.login,
               signIn.kept) /\ SameJob /\ SameSpent
<1> USE LoginAssumption
<1>a. LoginTyped
  OBVIOUS
<1>b. signIn \in SignInType /\ browserJob \in BrowserJobType
  BY DEF LoginTyped
<1>0. signIn.step = "start" /\ RestTyped
  BY DEF SignInStart, LoginTyped, RestTyped, LauncherStep
<1>1. CASE persistent /\ browserJob.step \in {"seed", "mark", "running", "session",
           "status", "again"}
  <2>1. files' = StatusSays(FALSE, FALSE)
    BY <1>1 DEF SignInStart
  <2>2. SameFiles
    BY ONLY <1>a, <2>1, LoginFiles, LoginValues, FilesAsTheyAre DEF SameFiles
  <2>3. NoSignInLeft
    BY <1>1, LoginSame DEF SignInStart
  <2>4. SameJob
    BY <1>1, LoginSame DEF SignInStart
  <2>5. SameSpent
    BY <1>1, LoginSame DEF SignInStart
  <2>6. persistent
    BY <1>1 DEF SignInStart, NeedsSeed, NoLogin
  <2> QED
    BY <1>0, <2>2, <2>3, <2>4, <2>5, <2>6
<1>2. CASE ~(persistent /\ browserJob.step \in {"seed", "mark", "running", "session",
           "status", "again"})
  <2>1. SameFiles
    BY <1>2, LoginSame DEF SignInStart
  <2>2. signIn' = [signIn EXCEPT !.step = "launch", !.seed = files.session]
    BY <1>2 DEF SignInStart
  <2>3. SignInBecomes("launch", files.session, signIn.login, signIn.kept)
    BY ONLY <1>a, <1>b, <2>2, LoginValues DEF SignInType, SignInStep, SignInBecomes
  <2>4. SameJob
    BY <1>2, LoginSame DEF SignInStart
  <2>5. SameSpent
    BY <1>2, LoginSame DEF SignInStart
  <2> QED
    BY <1>0, <2>1, <2>3, <2>4, <2>5
<1> QED
  BY <1>1, <1>2

\* What SignInOpen does.
LEMMA SignInOpenEffect ==
  ASSUME LoginTyped, SignInOpen
  PROVE  /\ signIn.step = "launch" /\ (Overlaps \/ ~persistent
            \/ browserJob.step \notin {"decide", "launch"}) /\ RestTyped
         /\ \/ ~persistent /\ SameFiles /\ SignInBecomes("open", signIn.seed, signIn.seed,
               signIn.kept) /\ SameJob /\ SameSpent
            \/ persistent /\ SameFiles /\ NoSignInLeft /\ SameJob /\ SameSpent
            \/ persistent /\ files.profile.owner = "nobody" /\ FilesBecome(files.session,
               files.seededBy, TRUE, files.profile.login, "signIn")
               /\ SignInBecomes(IF files.profile.exists THEN "open" ELSE "seed",
               signIn.seed, files.profile.login, signIn.kept) /\ SameJob /\ SameSpent
<1> USE LoginAssumption
<1>a. LoginTyped
  OBVIOUS
<1>b. signIn \in SignInType /\ browserJob \in BrowserJobType
  BY DEF LoginTyped
<1>0. signIn.step = "launch" /\ (Overlaps \/ ~persistent
      \/ browserJob.step \notin {"decide", "launch"}) /\ RestTyped
  BY DEF SignInOpen, LoginTyped, RestTyped, LauncherStep
<1>1. CASE ~persistent
  <2>1. SameFiles
    BY <1>1, LoginSame DEF SignInOpen
  <2>2. signIn' = [signIn EXCEPT !.step = "open", !.login = signIn.seed]
    BY <1>1 DEF SignInOpen
  <2>3. SignInBecomes("open", signIn.seed, signIn.seed, signIn.kept)
    BY ONLY <1>a, <1>b, <2>2, LoginValues DEF SignInType, SignInStep, SignInBecomes
  <2>4. SameJob
    BY <1>1, LoginSame DEF SignInOpen
  <2>5. SameSpent
    BY <1>1, LoginSame DEF SignInOpen
  <2>6. ~persistent
    BY <1>1 DEF SignInOpen, NeedsSeed, NoLogin
  <2> QED
    BY <1>0, <2>1, <2>3, <2>4, <2>5, <2>6
<1>2. CASE persistent /\ files.profile.owner # "nobody"
  <2>1. files' = StatusSays(FALSE, FALSE)
    BY <1>2 DEF SignInOpen
  <2>2. SameFiles
    BY ONLY <1>a, <2>1, LoginFiles, LoginValues, FilesAsTheyAre DEF SameFiles
  <2>3. NoSignInLeft
    BY <1>2, LoginSame DEF SignInOpen
  <2>4. SameJob
    BY <1>2, LoginSame DEF SignInOpen
  <2>5. SameSpent
    BY <1>2, LoginSame DEF SignInOpen
  <2>6. persistent
    BY <1>2 DEF SignInOpen, NeedsSeed, NoLogin
  <2> QED
    BY <1>0, <2>2, <2>3, <2>4, <2>5, <2>6
<1>3. CASE persistent /\ files.profile.owner = "nobody"
  <2>1. files' = [files EXCEPT !.profile =
                [exists |-> TRUE, login |-> files.profile.login, owner |-> "signIn"]]
    BY <1>3 DEF SignInOpen
  <2>2. FilesBecome(files.session, files.seededBy, TRUE, files.profile.login, "signIn")
    BY ONLY <1>a, <2>1, LoginFiles, LoginValues, FilesTaken
  <2>3. signIn' = [signIn EXCEPT
             !.step = IF files.profile.exists THEN "open" ELSE "seed",
             !.login = files.profile.login]
    BY <1>3 DEF SignInOpen
  <2>4. SignInBecomes(IF files.profile.exists THEN "open" ELSE "seed", signIn.seed,
        files.profile.login, signIn.kept)
    BY ONLY <1>a, <1>b, <2>3, LoginValues DEF SignInType, SignInStep, SignInBecomes
  <2>5. SameJob
    BY <1>3, LoginSame DEF SignInOpen
  <2>6. SameSpent
    BY <1>3, LoginSame DEF SignInOpen
  <2>7. persistent /\ files.profile.owner = "nobody"
    BY <1>3 DEF SignInOpen, NeedsSeed, NoLogin
  <2> QED
    BY <1>0, <2>2, <2>4, <2>5, <2>6, <2>7
<1> QED
  BY <1>1, <1>2, <1>3

\* What SignInSeed does.
LEMMA SignInSeedEffect ==
  ASSUME LoginTyped, SignInSeed
  PROVE  /\ signIn.step = "seed" /\ RestTyped
         /\ FilesBecome(files.session, files.seededBy, files.profile.exists,
            LoginIn("signIn", signIn.seed), files.profile.owner) /\ SignInBecomes("open",
            signIn.seed, signIn.seed, signIn.kept) /\ SameJob /\ SameSpent
<1> USE LoginAssumption
<1>a. LoginTyped
  OBVIOUS
<1>b. signIn \in SignInType /\ browserJob \in BrowserJobType
  BY DEF LoginTyped
<1>0. signIn.step = "seed" /\ RestTyped
  BY DEF SignInSeed, LoginTyped, RestTyped, LauncherStep
<1>1. files' = [files EXCEPT !.profile = Stored("signIn", signIn.seed)]
  BY DEF SignInSeed
<1>2. FilesBecome(files.session, files.seededBy, files.profile.exists, LoginIn("signIn",
      signIn.seed), files.profile.owner)
  BY ONLY <1>a, <1>1, LoginFiles, LoginValues, FilesProfile
<1>3. signIn' = [signIn EXCEPT !.step = "open", !.login = signIn.seed]
  BY DEF SignInSeed
<1>4. SignInBecomes("open", signIn.seed, signIn.seed, signIn.kept)
  BY ONLY <1>a, <1>b, <1>3, LoginValues DEF SignInType, SignInStep, SignInBecomes
<1>5. SameJob
  BY LoginSame DEF SignInSeed
<1>6. SameSpent
  BY LoginSame DEF SignInSeed
<1> QED
  BY <1>0, <1>2, <1>4, <1>5, <1>6

\* What SignIn does.
LEMMA SignInEffect ==
  ASSUME LoginTyped, SignIn
  PROVE  /\ signIn.step = "open" /\ RestTyped
         /\ FilesBecome(files.session, files.seededBy, files.profile.exists,
            LoginIn("signIn", loginSpent.login + 1), files.profile.owner)
            /\ SignInBecomes(signIn.step, signIn.seed, loginSpent.login + 1, signIn.kept)
            /\ SameJob /\ SpentBecomes(loginSpent.login + 1, loginSpent.reset)
<1> USE LoginAssumption
<1>a. LoginTyped
  OBVIOUS
<1>b. signIn \in SignInType /\ browserJob \in BrowserJobType
  BY DEF LoginTyped
<1>0. signIn.step = "open" /\ RestTyped
  BY DEF SignIn, LoginTyped, RestTyped, LauncherStep
<1>1. files' = [files EXCEPT !.profile = Stored("signIn", loginSpent.login + 1)]
  BY DEF SignIn
<1>2. FilesBecome(files.session, files.seededBy, files.profile.exists, LoginIn("signIn",
      loginSpent.login + 1), files.profile.owner)
  BY ONLY <1>a, <1>1, LoginFiles, LoginValues, FilesProfile
<1>3. signIn' = [signIn EXCEPT !.login = loginSpent.login + 1]
  BY DEF SignIn
<1>4. SignInBecomes(signIn.step, signIn.seed, loginSpent.login + 1, signIn.kept)
  BY ONLY <1>a, <1>b, <1>3, LoginValues DEF SignInType, SignInStep, SignInBecomes
<1>5. SameJob
  BY LoginSame DEF SignIn
<1>6. SpentBecomes(loginSpent.login + 1, loginSpent.reset)
  BY DEF SignIn, LoginTyped, SpentType, SameSpent, SpentBecomes
<1> QED
  BY <1>0, <1>2, <1>4, <1>5, <1>6

\* What Snapshot does.
LEMMA SnapshotEffect ==
  ASSUME LoginTyped, Snapshot
  PROVE  /\ signIn.step = "open" /\ RestTyped
         /\ SameFiles /\ SignInBecomes(signIn.step, signIn.seed, signIn.login, signIn.login)
            /\ SameJob /\ SameSpent
<1> USE LoginAssumption
<1>a. LoginTyped
  OBVIOUS
<1>b. signIn \in SignInType /\ browserJob \in BrowserJobType
  BY DEF LoginTyped
<1>0. signIn.step = "open" /\ RestTyped
  BY DEF Snapshot, LoginTyped, RestTyped, LauncherStep
<1>1. SameFiles
  BY LoginSame DEF Snapshot
<1>2. SignInBecomes(signIn.step, signIn.seed, signIn.login, signIn.login)
  BY DEF Snapshot, LoginTyped, FilesType, ProfileType, SignInType, SignInStep, SpentType,
     SignInBecomes, NoSignIn, NoLogin
<1>3. SameJob
  BY LoginSame DEF Snapshot
<1>4. SameSpent
  BY LoginSame DEF Snapshot
<1> QED
  BY <1>0, <1>1, <1>2, <1>3, <1>4

\* What WindowClosed does.
LEMMA WindowClosedEffect ==
  ASSUME LoginTyped, WindowClosed
  PROVE  /\ signIn.step = "open" /\ RestTyped
         /\ \/ FilesBecome(files.session, files.seededBy, files.profile.exists,
               files.profile.login, LetGo("signIn")) /\ NoSignInLeft /\ SameJob /\ SameSpent
            \/ SameFiles /\ SignInBecomes("session", signIn.seed, signIn.login, signIn.kept)
               /\ SameJob /\ SameSpent
<1> USE LoginAssumption
<1>a. LoginTyped
  OBVIOUS
<1>b. signIn \in SignInType /\ browserJob \in BrowserJobType
  BY DEF LoginTyped
<1>0. signIn.step = "open" /\ RestTyped
  BY DEF WindowClosed, LoginTyped, RestTyped, LauncherStep
<1>1. CASE signIn.kept = NoLogin
  <2>1. files' = [StatusSays(FALSE, FALSE) EXCEPT !.profile = Let("signIn")]
    BY <1>1 DEF WindowClosed
  <2>2. FilesBecome(files.session, files.seededBy, files.profile.exists,
        files.profile.login, LetGo("signIn"))
    BY ONLY <1>a, <2>1, LoginFiles, LoginValues, FilesProfile
  <2>3. NoSignInLeft
    BY <1>1, LoginSame DEF WindowClosed
  <2>4. SameJob
    BY <1>1, LoginSame DEF WindowClosed
  <2>5. SameSpent
    BY <1>1, LoginSame DEF WindowClosed
  <2> QED
    BY <1>0, <2>2, <2>3, <2>4, <2>5
<1>2. CASE signIn.kept # NoLogin
  <2>1. SameFiles
    BY <1>2, LoginSame DEF WindowClosed
  <2>2. SignInBecomes("session", signIn.seed, signIn.login, signIn.kept)
    BY <1>2 DEF WindowClosed, LoginTyped, FilesType, ProfileType, SignInType, SignInStep,
       SpentType, SignInBecomes, NoSignIn, NoLogin
  <2>3. SameJob
    BY <1>2, LoginSame DEF WindowClosed
  <2>4. SameSpent
    BY <1>2, LoginSame DEF WindowClosed
  <2> QED
    BY <1>0, <2>1, <2>2, <2>3, <2>4
<1> QED
  BY <1>1, <1>2

\* What SignInSession does.
LEMMA SignInSessionEffect ==
  ASSUME LoginTyped, SignInSession
  PROVE  /\ signIn.step = "session" /\ RestTyped
         /\ FilesBecome(signIn.kept, files.seededBy, files.profile.exists,
            files.profile.login, files.profile.owner) /\ SignInBecomes("status",
            signIn.seed, signIn.login, signIn.kept) /\ SameJob /\ SameSpent
<1> USE LoginAssumption
<1>a. LoginTyped
  OBVIOUS
<1>b. signIn \in SignInType /\ browserJob \in BrowserJobType
  BY DEF LoginTyped
<1>0. signIn.step = "session" /\ RestTyped
  BY DEF SignInSession, LoginTyped, RestTyped, LauncherStep
<1>1. files' = [files EXCEPT !.session = signIn.kept]
  BY DEF SignInSession
<1>2. FilesBecome(signIn.kept, files.seededBy, files.profile.exists, files.profile.login,
      files.profile.owner)
  BY ONLY <1>a, <1>1, LoginFiles, LoginValues, FilesSession
<1>3. SignInBecomes("status", signIn.seed, signIn.login, signIn.kept)
  BY DEF SignInSession, LoginTyped, FilesType, ProfileType, SignInType, SignInStep,
     SpentType, SignInBecomes, NoSignIn, NoLogin
<1>4. SameJob
  BY LoginSame DEF SignInSession
<1>5. SameSpent
  BY LoginSame DEF SignInSession
<1> QED
  BY <1>0, <1>2, <1>3, <1>4, <1>5

\* What SignInStatus does.
LEMMA SignInStatusEffect ==
  ASSUME LoginTyped, SignInStatus
  PROVE  /\ signIn.step = "status" /\ RestTyped
         /\ FilesBecome(files.session, 0, files.profile.exists, files.profile.login,
            files.profile.owner) /\ SignInBecomes(IF persistent THEN "mark" ELSE "close",
            signIn.seed, signIn.login, signIn.kept) /\ SameJob /\ SameSpent
<1> USE LoginAssumption
<1>a. LoginTyped
  OBVIOUS
<1>b. signIn \in SignInType /\ browserJob \in BrowserJobType
  BY DEF LoginTyped
<1>0. signIn.step = "status" /\ RestTyped
  BY DEF SignInStatus, LoginTyped, RestTyped, LauncherStep
<1>1. files' = [StatusSays(FALSE, FALSE) EXCEPT !.seededBy = NoLogin]
  BY DEF SignInStatus
<1>2. FilesBecome(files.session, 0, files.profile.exists, files.profile.login,
      files.profile.owner)
  BY ONLY <1>a, <1>1, LoginFiles, LoginValues, FilesMark
<1>3. SignInBecomes(IF persistent THEN "mark" ELSE "close", signIn.seed, signIn.login,
      signIn.kept)
  BY DEF SignInStatus, LoginTyped, FilesType, ProfileType, SignInType, SignInStep,
     SpentType, SignInBecomes, NoSignIn, NoLogin
<1>4. SameJob
  BY LoginSame DEF SignInStatus
<1>5. SameSpent
  BY LoginSame DEF SignInStatus
<1> QED
  BY <1>0, <1>2, <1>3, <1>4, <1>5

\* What SignInMark does.
LEMMA SignInMarkEffect ==
  ASSUME LoginTyped, SignInMark
  PROVE  /\ signIn.step = "mark" /\ RestTyped
         /\ FilesBecome(files.session, signIn.kept, files.profile.exists,
            files.profile.login, files.profile.owner) /\ SignInBecomes("close", signIn.seed,
            signIn.login, signIn.kept) /\ SameJob /\ SameSpent
<1> USE LoginAssumption
<1>a. LoginTyped
  OBVIOUS
<1>b. signIn \in SignInType /\ browserJob \in BrowserJobType
  BY DEF LoginTyped
<1>0. signIn.step = "mark" /\ RestTyped
  BY DEF SignInMark, LoginTyped, RestTyped, LauncherStep
<1>1. files' = [files EXCEPT !.seededBy = signIn.kept]
  BY DEF SignInMark
<1>2. FilesBecome(files.session, signIn.kept, files.profile.exists, files.profile.login,
      files.profile.owner)
  BY ONLY <1>a, <1>1, LoginFiles, LoginValues, FilesMark
<1>3. SignInBecomes("close", signIn.seed, signIn.login, signIn.kept)
  BY DEF SignInMark, LoginTyped, FilesType, ProfileType, SignInType, SignInStep, SpentType,
     SignInBecomes, NoSignIn, NoLogin
<1>4. SameJob
  BY LoginSame DEF SignInMark
<1>5. SameSpent
  BY LoginSame DEF SignInMark
<1> QED
  BY <1>0, <1>2, <1>3, <1>4, <1>5

\* What SignInClose does.
LEMMA SignInCloseEffect ==
  ASSUME LoginTyped, SignInClose
  PROVE  /\ signIn.step = "close" /\ RestTyped
         /\ FilesBecome(files.session, files.seededBy, files.profile.exists,
            files.profile.login, LetGo("signIn")) /\ NoSignInLeft /\ SameJob /\ SameSpent
<1> USE LoginAssumption
<1>a. LoginTyped
  OBVIOUS
<1>b. signIn \in SignInType /\ browserJob \in BrowserJobType
  BY DEF LoginTyped
<1>0. signIn.step = "close" /\ RestTyped
  BY DEF SignInClose, LoginTyped, RestTyped, LauncherStep
<1>1. files' = [files EXCEPT !.profile = Let("signIn")]
  BY DEF SignInClose
<1>2. FilesBecome(files.session, files.seededBy, files.profile.exists, files.profile.login,
      LetGo("signIn"))
  BY ONLY <1>a, <1>1, LoginFiles, LoginValues, FilesProfile
<1>3. NoSignInLeft
  BY LoginSame DEF SignInClose
<1>4. SameJob
  BY LoginSame DEF SignInClose
<1>5. SameSpent
  BY LoginSame DEF SignInClose
<1> QED
  BY <1>0, <1>2, <1>3, <1>4, <1>5

\* What JobReady does.
LEMMA JobReadyEffect ==
  ASSUME LoginTyped, JobReady
  PROVE  /\ browserJob.step = "off" /\ RestTyped
         /\ SameFiles /\ SameSignIn /\ JobBecomes("plan", 0, FALSE, 0, 0, 0) /\ SameSpent
<1> USE LoginAssumption
<1>a. LoginTyped
  OBVIOUS
<1>b. signIn \in SignInType /\ browserJob \in BrowserJobType
  BY DEF LoginTyped
<1>0. browserJob.step = "off" /\ RestTyped
  BY DEF JobReady, LoginTyped, RestTyped, LauncherStep
<1>1. SameFiles
  BY LoginSame DEF JobReady
<1>2. SameSignIn
  BY LoginSame DEF JobReady
<1>3. JobBecomes("plan", 0, FALSE, 0, 0, 0)
  BY DEF JobReady, LoginTyped, FilesType, ProfileType, BrowserJobType, LoginStep, SpentType,
     JobBecomes, NoBrowser, NoLogin
<1>4. SameSpent
  BY LoginSame DEF JobReady
<1> QED
  BY <1>0, <1>1, <1>2, <1>3, <1>4

\* What PlanSession does.
LEMMA PlanSessionEffect ==
  ASSUME LoginTyped, PlanSession
  PROVE  /\ browserJob.step = "plan" /\ RestTyped
         /\ SameFiles /\ SameSignIn /\ JobBecomes("decide", files.session,
            browserJob.bootstrap, browserJob.login, browserJob.kept, loginSpent.reset)
            /\ SameSpent
<1> USE LoginAssumption
<1>a. LoginTyped
  OBVIOUS
<1>b. signIn \in SignInType /\ browserJob \in BrowserJobType
  BY DEF LoginTyped
<1>0. browserJob.step = "plan" /\ RestTyped
  BY DEF PlanSession, LoginTyped, RestTyped, LauncherStep
<1>1. SameFiles
  BY LoginSame DEF PlanSession
<1>2. SameSignIn
  BY LoginSame DEF PlanSession
<1>3. browserJob' = [browserJob EXCEPT !.step = "decide", !.planned = files.session,
                                      !.resets = loginSpent.reset]
  BY DEF PlanSession, NeedsSeed, NoLogin
<1>4. JobBecomes("decide", files.session, browserJob.bootstrap, browserJob.login,
      browserJob.kept, loginSpent.reset)
  BY ONLY <1>a, <1>b, <1>3, LoginValues DEF BrowserJobType, LoginStep, JobBecomes
<1>5. SameSpent
  BY LoginSame DEF PlanSession
<1> QED
  BY <1>0, <1>1, <1>2, <1>4, <1>5

\* What PlanDecide does.
LEMMA PlanDecideEffect ==
  ASSUME LoginTyped, PlanDecide
  PROVE  /\ browserJob.step = "decide" /\ (Overlaps \/ ~SignInBrowser) /\ RestTyped
         /\ \/ FilesBecome(files.session, 0, FALSE, 0, "nobody") /\ SameSignIn
               /\ JobBecomes("launch", browserJob.planned, TRUE, browserJob.login,
               browserJob.kept, browserJob.resets) /\ SameSpent
            \/ (browserJob.planned = 0 \/ (files.seededBy = browserJob.planned
               /\ files.profile.exists)) /\ SameFiles /\ SameSignIn /\ JobBecomes("launch",
               browserJob.planned, FALSE, browserJob.login, browserJob.kept,
               browserJob.resets) /\ SameSpent
<1> USE LoginAssumption
<1>a. LoginTyped
  OBVIOUS
<1>b. signIn \in SignInType /\ browserJob \in BrowserJobType
  BY DEF LoginTyped
<1>0. browserJob.step = "decide" /\ (Overlaps \/ ~SignInBrowser) /\ RestTyped
  BY DEF PlanDecide, LoginTyped, RestTyped, LauncherStep
<1>1. CASE NeedsSeed(browserJob.planned)
  <2>1. files' = [files EXCEPT !.profile = NoProfile, !.seededBy = NoLogin]
    BY <1>1 DEF PlanDecide
  <2>2. FilesBecome(files.session, 0, FALSE, 0, "nobody")
    BY ONLY <1>a, <2>1, LoginFiles, LoginValues, FilesProfileMark
  <2>3. SameSignIn
    BY <1>1, LoginSame DEF PlanDecide
  <2>4. browserJob' = [browserJob EXCEPT !.step = "launch", !.bootstrap = TRUE]
    BY <1>1 DEF PlanDecide, NeedsSeed, NoLogin
  <2>5. JobBecomes("launch", browserJob.planned, TRUE, browserJob.login, browserJob.kept,
        browserJob.resets)
    BY ONLY <1>a, <1>b, <2>4, LoginValues DEF BrowserJobType, LoginStep, JobBecomes
  <2>6. SameSpent
    BY <1>1, LoginSame DEF PlanDecide
  <2> QED
    BY <1>0, <2>2, <2>3, <2>5, <2>6
<1>2. CASE ~NeedsSeed(browserJob.planned)
  <2>1. SameFiles
    BY <1>2, LoginSame DEF PlanDecide
  <2>2. SameSignIn
    BY <1>2, LoginSame DEF PlanDecide
  <2>3. browserJob' = [browserJob EXCEPT !.step = "launch", !.bootstrap = FALSE]
    BY <1>2 DEF PlanDecide, NeedsSeed, NoLogin
  <2>4. JobBecomes("launch", browserJob.planned, FALSE, browserJob.login, browserJob.kept,
        browserJob.resets)
    BY ONLY <1>a, <1>b, <2>3, LoginValues DEF BrowserJobType, LoginStep, JobBecomes
  <2>5. SameSpent
    BY <1>2, LoginSame DEF PlanDecide
  <2>6. (browserJob.planned = 0 \/ (files.seededBy = browserJob.planned
        /\ files.profile.exists))
    BY <1>2 DEF PlanDecide, NeedsSeed, NoLogin
  <2> QED
    BY <1>0, <2>1, <2>2, <2>4, <2>5, <2>6
<1> QED
  BY <1>1, <1>2

\* What BrowserLaunch does.
LEMMA BrowserLaunchEffect ==
  ASSUME LoginTyped, BrowserLaunch
  PROVE  /\ browserJob.step = "launch" /\ RestTyped
         /\ \/ SameFiles /\ SameSignIn /\ NoBrowserLeft /\ SameSpent
            \/ files.profile.owner = "nobody" /\ FilesBecome(files.session, files.seededBy,
               TRUE, files.profile.login, "job") /\ SameSignIn
               /\ JobBecomes(IF browserJob.bootstrap THEN "seed" ELSE "running",
               browserJob.planned, browserJob.bootstrap, files.profile.login,
               browserJob.kept, browserJob.resets) /\ SameSpent
<1> USE LoginAssumption
<1>a. LoginTyped
  OBVIOUS
<1>b. signIn \in SignInType /\ browserJob \in BrowserJobType
  BY DEF LoginTyped
<1>0. browserJob.step = "launch" /\ RestTyped
  BY DEF BrowserLaunch, LoginTyped, RestTyped, LauncherStep
<1>1. CASE files.profile.owner # "nobody"
  <2>1. SameFiles
    BY <1>1, LoginSame DEF BrowserLaunch
  <2>2. SameSignIn
    BY <1>1, LoginSame DEF BrowserLaunch
  <2>3. NoBrowserLeft
    BY <1>1, LoginSame DEF BrowserLaunch
  <2>4. SameSpent
    BY <1>1, LoginSame DEF BrowserLaunch
  <2> QED
    BY <1>0, <2>1, <2>2, <2>3, <2>4
<1>2. CASE files.profile.owner = "nobody"
  <2>1. files' = [files EXCEPT !.profile =
                [exists |-> TRUE, login |-> files.profile.login, owner |-> "job"]]
    BY <1>2 DEF BrowserLaunch
  <2>2. FilesBecome(files.session, files.seededBy, TRUE, files.profile.login, "job")
    BY ONLY <1>a, <2>1, LoginFiles, LoginValues, FilesTaken
  <2>3. SameSignIn
    BY <1>2, LoginSame DEF BrowserLaunch
  <2>4. browserJob' = [browserJob EXCEPT
             !.step = IF browserJob.bootstrap THEN "seed" ELSE "running",
             !.login = files.profile.login]
    BY <1>2 DEF BrowserLaunch, NeedsSeed, NoLogin
  <2>5. JobBecomes(IF browserJob.bootstrap THEN "seed" ELSE "running", browserJob.planned,
        browserJob.bootstrap, files.profile.login, browserJob.kept, browserJob.resets)
    BY ONLY <1>a, <1>b, <2>4, LoginValues DEF BrowserJobType, LoginStep, JobBecomes
  <2>6. SameSpent
    BY <1>2, LoginSame DEF BrowserLaunch
  <2>7. files.profile.owner = "nobody"
    BY <1>2 DEF BrowserLaunch, NeedsSeed, NoLogin
  <2> QED
    BY <1>0, <2>2, <2>3, <2>5, <2>6, <2>7
<1> QED
  BY <1>1, <1>2

\* What BrowserSeed does.
LEMMA BrowserSeedEffect ==
  ASSUME LoginTyped, BrowserSeed
  PROVE  /\ browserJob.step = "seed" /\ RestTyped
         /\ FilesBecome(files.session, files.seededBy, files.profile.exists, LoginIn("job",
            browserJob.planned), files.profile.owner) /\ SameSignIn /\ JobBecomes("mark",
            browserJob.planned, browserJob.bootstrap, browserJob.planned, browserJob.kept,
            browserJob.resets) /\ SameSpent
<1> USE LoginAssumption
<1>a. LoginTyped
  OBVIOUS
<1>b. signIn \in SignInType /\ browserJob \in BrowserJobType
  BY DEF LoginTyped
<1>0. browserJob.step = "seed" /\ RestTyped
  BY DEF BrowserSeed, LoginTyped, RestTyped, LauncherStep
<1>1. files' = [files EXCEPT !.profile = Stored("job", browserJob.planned)]
  BY DEF BrowserSeed
<1>2. FilesBecome(files.session, files.seededBy, files.profile.exists, LoginIn("job",
      browserJob.planned), files.profile.owner)
  BY ONLY <1>a, <1>1, LoginFiles, LoginValues, FilesProfile
<1>3. SameSignIn
  BY LoginSame DEF BrowserSeed
<1>4. JobBecomes("mark", browserJob.planned, browserJob.bootstrap, browserJob.planned,
      browserJob.kept, browserJob.resets)
  BY DEF BrowserSeed, LoginTyped, FilesType, ProfileType, BrowserJobType, LoginStep,
     SpentType, JobBecomes, NoBrowser, NoLogin
<1>5. SameSpent
  BY LoginSame DEF BrowserSeed
<1> QED
  BY <1>0, <1>2, <1>3, <1>4, <1>5

\* What BrowserMark does.
LEMMA BrowserMarkEffect ==
  ASSUME LoginTyped, BrowserMark
  PROVE  /\ browserJob.step = "mark" /\ RestTyped
         /\ FilesBecome(files.session, browserJob.planned, files.profile.exists,
            files.profile.login, files.profile.owner) /\ SameSignIn /\ JobBecomes("running",
            browserJob.planned, browserJob.bootstrap, browserJob.login, browserJob.kept,
            browserJob.resets) /\ SameSpent
<1> USE LoginAssumption
<1>a. LoginTyped
  OBVIOUS
<1>b. signIn \in SignInType /\ browserJob \in BrowserJobType
  BY DEF LoginTyped
<1>0. browserJob.step = "mark" /\ RestTyped
  BY DEF BrowserMark, LoginTyped, RestTyped, LauncherStep
<1>1. files' = [files EXCEPT !.seededBy = browserJob.planned]
  BY DEF BrowserMark
<1>2. FilesBecome(files.session, browserJob.planned, files.profile.exists,
      files.profile.login, files.profile.owner)
  BY ONLY <1>a, <1>1, LoginFiles, LoginValues, FilesMark
<1>3. SameSignIn
  BY LoginSame DEF BrowserMark
<1>4. JobBecomes("running", browserJob.planned, browserJob.bootstrap, browserJob.login,
      browserJob.kept, browserJob.resets)
  BY DEF BrowserMark, LoginTyped, FilesType, ProfileType, BrowserJobType, LoginStep,
     SpentType, JobBecomes, NoBrowser, NoLogin
<1>5. SameSpent
  BY LoginSame DEF BrowserMark
<1> QED
  BY <1>0, <1>2, <1>3, <1>4, <1>5

\* What Capture does.
LEMMA CaptureEffect ==
  ASSUME LoginTyped, Capture
  PROVE  /\ browserJob.step = "running" /\ RestTyped
         /\ SameFiles /\ SameSignIn /\ JobBecomes("session", browserJob.planned,
            browserJob.bootstrap, browserJob.login, browserJob.login, browserJob.resets)
            /\ SameSpent
<1> USE LoginAssumption
<1>a. LoginTyped
  OBVIOUS
<1>b. signIn \in SignInType /\ browserJob \in BrowserJobType
  BY DEF LoginTyped
<1>0. browserJob.step = "running" /\ RestTyped
  BY DEF Capture, LoginTyped, RestTyped, LauncherStep
<1>1. SameFiles
  BY LoginSame DEF Capture
<1>2. SameSignIn
  BY LoginSame DEF Capture
<1>3. JobBecomes("session", browserJob.planned, browserJob.bootstrap, browserJob.login,
      browserJob.login, browserJob.resets)
  BY DEF Capture, LoginTyped, FilesType, ProfileType, BrowserJobType, LoginStep, SpentType,
     JobBecomes, NoBrowser, NoLogin
<1>4. SameSpent
  BY LoginSame DEF Capture
<1> QED
  BY <1>0, <1>1, <1>2, <1>3, <1>4

\* What CaptureSession does.
LEMMA CaptureSessionEffect ==
  ASSUME LoginTyped, CaptureSession
  PROVE  /\ browserJob.step = "session" /\ RestTyped
         /\ FilesBecome(browserJob.kept, files.seededBy, files.profile.exists,
            files.profile.login, files.profile.owner) /\ SameSignIn /\ JobBecomes("status",
            browserJob.planned, browserJob.bootstrap, browserJob.login, browserJob.kept,
            browserJob.resets) /\ SameSpent
<1> USE LoginAssumption
<1>a. LoginTyped
  OBVIOUS
<1>b. signIn \in SignInType /\ browserJob \in BrowserJobType
  BY DEF LoginTyped
<1>0. browserJob.step = "session" /\ RestTyped
  BY DEF CaptureSession, LoginTyped, RestTyped, LauncherStep
<1>1. files' = [files EXCEPT !.session = browserJob.kept]
  BY DEF CaptureSession
<1>2. FilesBecome(browserJob.kept, files.seededBy, files.profile.exists,
      files.profile.login, files.profile.owner)
  BY ONLY <1>a, <1>1, LoginFiles, LoginValues, FilesSession
<1>3. SameSignIn
  BY LoginSame DEF CaptureSession
<1>4. JobBecomes("status", browserJob.planned, browserJob.bootstrap, browserJob.login,
      browserJob.kept, browserJob.resets)
  BY DEF CaptureSession, LoginTyped, FilesType, ProfileType, BrowserJobType, LoginStep,
     SpentType, JobBecomes, NoBrowser, NoLogin
<1>5. SameSpent
  BY LoginSame DEF CaptureSession
<1> QED
  BY <1>0, <1>2, <1>3, <1>4, <1>5

\* What CaptureStatus does.
LEMMA CaptureStatusEffect ==
  ASSUME LoginTyped, CaptureStatus
  PROVE  /\ browserJob.step = "status" /\ RestTyped
         /\ FilesBecome(files.session, 0, files.profile.exists, files.profile.login,
            files.profile.owner) /\ SameSignIn /\ JobBecomes("again", browserJob.planned,
            browserJob.bootstrap, browserJob.login, browserJob.kept, browserJob.resets)
            /\ SameSpent
<1> USE LoginAssumption
<1>a. LoginTyped
  OBVIOUS
<1>b. signIn \in SignInType /\ browserJob \in BrowserJobType
  BY DEF LoginTyped
<1>0. browserJob.step = "status" /\ RestTyped
  BY DEF CaptureStatus, LoginTyped, RestTyped, LauncherStep
<1>1. files' = [StatusSays(FALSE, FALSE) EXCEPT !.seededBy = NoLogin]
  BY DEF CaptureStatus
<1>2. FilesBecome(files.session, 0, files.profile.exists, files.profile.login,
      files.profile.owner)
  BY ONLY <1>a, <1>1, LoginFiles, LoginValues, FilesMark
<1>3. SameSignIn
  BY LoginSame DEF CaptureStatus
<1>4. JobBecomes("again", browserJob.planned, browserJob.bootstrap, browserJob.login,
      browserJob.kept, browserJob.resets)
  BY DEF CaptureStatus, LoginTyped, FilesType, ProfileType, BrowserJobType, LoginStep,
     SpentType, JobBecomes, NoBrowser, NoLogin
<1>5. SameSpent
  BY LoginSame DEF CaptureStatus
<1> QED
  BY <1>0, <1>2, <1>3, <1>4, <1>5

\* What CaptureMark does.
LEMMA CaptureMarkEffect ==
  ASSUME LoginTyped, CaptureMark
  PROVE  /\ browserJob.step = "again" /\ RestTyped
         /\ FilesBecome(files.session, browserJob.kept, files.profile.exists,
            files.profile.login, files.profile.owner) /\ SameSignIn /\ JobBecomes("running",
            browserJob.planned, browserJob.bootstrap, browserJob.login, browserJob.kept,
            browserJob.resets) /\ SameSpent
<1> USE LoginAssumption
<1>a. LoginTyped
  OBVIOUS
<1>b. signIn \in SignInType /\ browserJob \in BrowserJobType
  BY DEF LoginTyped
<1>0. browserJob.step = "again" /\ RestTyped
  BY DEF CaptureMark, LoginTyped, RestTyped, LauncherStep
<1>1. files' = [files EXCEPT !.seededBy = browserJob.kept]
  BY DEF CaptureMark
<1>2. FilesBecome(files.session, browserJob.kept, files.profile.exists, files.profile.login,
      files.profile.owner)
  BY ONLY <1>a, <1>1, LoginFiles, LoginValues, FilesMark
<1>3. SameSignIn
  BY LoginSame DEF CaptureMark
<1>4. JobBecomes("running", browserJob.planned, browserJob.bootstrap, browserJob.login,
      browserJob.kept, browserJob.resets)
  BY DEF CaptureMark, LoginTyped, FilesType, ProfileType, BrowserJobType, LoginStep,
     SpentType, JobBecomes, NoBrowser, NoLogin
<1>5. SameSpent
  BY LoginSame DEF CaptureMark
<1> QED
  BY <1>0, <1>2, <1>3, <1>4, <1>5

\* What SignInThere does.
LEMMA SignInThereEffect ==
  ASSUME LoginTyped, SignInThere
  PROVE  /\ browserJob.step = "running" /\ RestTyped
         /\ FilesBecome(files.session, files.seededBy, files.profile.exists, LoginIn("job",
            loginSpent.login + 1), files.profile.owner) /\ SameSignIn
            /\ JobBecomes(browserJob.step, browserJob.planned, browserJob.bootstrap,
            loginSpent.login + 1, browserJob.kept, browserJob.resets)
            /\ SpentBecomes(loginSpent.login + 1, loginSpent.reset)
<1> USE LoginAssumption
<1>a. LoginTyped
  OBVIOUS
<1>b. signIn \in SignInType /\ browserJob \in BrowserJobType
  BY DEF LoginTyped
<1>0. browserJob.step = "running" /\ RestTyped
  BY DEF SignInThere, LoginTyped, RestTyped, LauncherStep
<1>1. files' = [files EXCEPT !.profile = Stored("job", loginSpent.login + 1)]
  BY DEF SignInThere
<1>2. FilesBecome(files.session, files.seededBy, files.profile.exists, LoginIn("job",
      loginSpent.login + 1), files.profile.owner)
  BY ONLY <1>a, <1>1, LoginFiles, LoginValues, FilesProfile
<1>3. SameSignIn
  BY LoginSame DEF SignInThere
<1>4. browserJob' = [browserJob EXCEPT !.login = loginSpent.login + 1]
  BY DEF SignInThere, NeedsSeed, NoLogin
<1>5. JobBecomes(browserJob.step, browserJob.planned, browserJob.bootstrap,
      loginSpent.login + 1, browserJob.kept, browserJob.resets)
  BY ONLY <1>a, <1>b, <1>4, LoginValues DEF BrowserJobType, LoginStep, JobBecomes
<1>6. SpentBecomes(loginSpent.login + 1, loginSpent.reset)
  BY DEF SignInThere, LoginTyped, SpentType, SameSpent, SpentBecomes
<1> QED
  BY <1>0, <1>2, <1>3, <1>5, <1>6

\* What BrowserClose does.
LEMMA BrowserCloseEffect ==
  ASSUME LoginTyped, BrowserClose
  PROVE  /\ browserJob.step = "running" /\ RestTyped
         /\ FilesBecome(files.session, files.seededBy, files.profile.exists,
            files.profile.login, LetGo("job")) /\ SameSignIn /\ NoBrowserLeft /\ SameSpent
<1> USE LoginAssumption
<1>a. LoginTyped
  OBVIOUS
<1>b. signIn \in SignInType /\ browserJob \in BrowserJobType
  BY DEF LoginTyped
<1>0. browserJob.step = "running" /\ RestTyped
  BY DEF BrowserClose, LoginTyped, RestTyped, LauncherStep
<1>1. files' = [files EXCEPT !.profile = Let("job")]
  BY DEF BrowserClose
<1>2. FilesBecome(files.session, files.seededBy, files.profile.exists, files.profile.login,
      LetGo("job"))
  BY ONLY <1>a, <1>1, LoginFiles, LoginValues, FilesProfile
<1>3. SameSignIn
  BY LoginSame DEF BrowserClose
<1>4. NoBrowserLeft
  BY LoginSame DEF BrowserClose
<1>5. SameSpent
  BY LoginSame DEF BrowserClose
<1> QED
  BY <1>0, <1>2, <1>3, <1>4, <1>5

\* What ResetFiles does.
LEMMA ResetFilesEffect ==
  ASSUME LoginTyped, ResetFiles
  PROVE  /\ (Overlaps \/ ~ProfileInUse) /\ RestTyped
         /\ FilesBecome(0, 0, FALSE, 0, "nobody") /\ SameSignIn /\ SameJob
            /\ SpentBecomes(loginSpent.login, loginSpent.reset + 1)
<1> USE LoginAssumption
<1>a. LoginTyped
  OBVIOUS
<1>b. signIn \in SignInType /\ browserJob \in BrowserJobType
  BY DEF LoginTyped
<1>0. (Overlaps \/ ~ProfileInUse) /\ RestTyped
  BY DEF ResetFiles, LoginTyped, RestTyped, LauncherStep
<1>1. files' = [files EXCEPT !.session = NoLogin, !.profile = NoProfile,
                            !.seededBy = NoLogin]
  BY DEF ResetFiles
<1>2. FilesBecome(0, 0, FALSE, 0, "nobody")
  <2>1. FilesBecome(NoLogin, NoLogin, NoProfile.exists, NoProfile.login, NoProfile.owner)
    BY ONLY <1>a, <1>1, LoginFiles, LoginValues, FilesWiped
  <2> QED
    BY <2>1, LoginValues
<1>3. SameSignIn
  BY LoginSame DEF ResetFiles
<1>4. SameJob
  BY LoginSame DEF ResetFiles
<1>5. SpentBecomes(loginSpent.login, loginSpent.reset + 1)
  BY DEF ResetFiles, LoginTyped, SpentType, SameSpent, SpentBecomes
<1> QED
  BY <1>0, <1>2, <1>3, <1>4, <1>5

\* What KillSignIn does.
LEMMA KillSignInEffect ==
  ASSUME LoginTyped, KillSignIn
  PROVE  /\ RestTyped
         /\ FilesBecome(files.session, files.seededBy, files.profile.exists,
            files.profile.login, LetGo("signIn")) /\ NoSignInLeft /\ SameJob /\ SameSpent
<1> USE LoginAssumption
<1>a. LoginTyped
  OBVIOUS
<1>b. signIn \in SignInType /\ browserJob \in BrowserJobType
  BY DEF LoginTyped
<1>0. RestTyped
  BY DEF KillSignIn, LoginTyped, RestTyped, LauncherStep
<1>1. files' = [files EXCEPT !.profile = Let("signIn")]
  BY DEF KillSignIn
<1>2. FilesBecome(files.session, files.seededBy, files.profile.exists, files.profile.login,
      LetGo("signIn"))
  BY ONLY <1>a, <1>1, LoginFiles, LoginValues, FilesProfile
<1>3. NoSignInLeft
  BY LoginSame DEF KillSignIn
<1>4. SameJob
  BY LoginSame DEF KillSignIn
<1>5. SameSpent
  BY DEF KillSignIn, LoginTyped, SpentType, SameSpent, SpentBecomes
<1> QED
  BY <1>0, <1>2, <1>3, <1>4, <1>5

\* What KillCollector does.
LEMMA KillCollectorEffect ==
  ASSUME LoginTyped, KillCollector
  PROVE  /\ browserJob.step # "off" /\ RestTyped
         /\ FilesBecome(files.session, files.seededBy, files.profile.exists,
            files.profile.login, LetGo("job")) /\ SameSignIn /\ NoBrowserLeft /\ SameSpent
<1> USE LoginAssumption
<1>a. LoginTyped
  OBVIOUS
<1>b. signIn \in SignInType /\ browserJob \in BrowserJobType
  BY DEF LoginTyped
<1>0. browserJob.step # "off" /\ RestTyped
  BY DEF KillCollector, LoginTyped, RestTyped, LauncherStep
<1>1. files' = [files EXCEPT !.profile = Let("job")]
  BY DEF KillCollector
<1>2. FilesBecome(files.session, files.seededBy, files.profile.exists, files.profile.login,
      LetGo("job"))
  BY ONLY <1>a, <1>1, LoginFiles, LoginValues, FilesProfile
<1>3. SameSignIn
  BY LoginSame DEF KillCollector
<1>4. NoBrowserLeft
  BY LoginSame DEF KillCollector
<1>5. SameSpent
  BY DEF KillCollector, LoginTyped, SpentType, SameSpent, SpentBecomes
<1> QED
  BY <1>0, <1>2, <1>3, <1>4, <1>5

-----------------------------------------------------------------------------
(* The types, and that no file holds a login nobody made.                  *)

\* LoginKnown speaks of these values.
LEMMA LoginTypedNext ==
  ASSUME LoginTyped, files' \in FilesType, signIn' \in SignInType,
         browserJob' \in BrowserJobType, loginSpent' \in SpentType, RestTyped
  PROVE  LoginTyped'
  BY DEF LoginTyped, RestTyped

\* Every step keeps the types, and invents no login.
LEMMA LoginKnownStep ==
  ASSUME LoginKnown, [LoginNext]_loginVars
  PROVE  LoginKnown'
<1> USE LoginAssumption
<1>1. LoginTyped /\ LoginsMade
  BY DEF LoginKnown
<1> HIDE DEF LoginKnown
<1> DEFINE Fits ==
      /\ files' \in FilesType /\ signIn' \in SignInType /\ browserJob' \in BrowserJobType
      /\ loginSpent' \in SpentType /\ RestTyped /\ LoginsMade'
<1>2. loginSpent.login \in Nat /\ loginSpent.reset \in Nat /\ browserJob.resets \in Nat
  BY <1>1 DEF LoginTyped, SpentType, BrowserJobType
<1>3. CASE LaunchBegin \/ LaunchInUse \/ LaunchAnnounce \/ LaunchRecord \/ LaunchEnds
           \/ LaunchEndsAnyhow \/ ResetStatus
  <2>1. Fits
    BY <1>1, <1>2, <1>3, QuietEffect
    DEF FilesBecome, SignInBecomes, JobBecomes, SpentBecomes,
        SameFiles, SameSignIn, SameJob, SameSpent, NoSignInLeft, NoBrowserLeft, LetGo,
        LoginIn, LoginsMade
  <2> QED
    BY <1>1, <2>1, LoginTypedNext DEF LoginKnown
<1>4. CASE LaunchSpawn
  <2>1. Fits
    BY <1>1, <1>2, <1>4, LaunchSpawnEffect, LoginValues
    DEF FilesBecome, SignInBecomes, JobBecomes, SpentBecomes,
        SameFiles, SameSignIn, SameJob, SameSpent, NoSignInLeft, NoBrowserLeft, LetGo,
        LoginIn, LoginsMade
  <2> QED
    BY <1>1, <2>1, LoginTypedNext DEF LoginKnown
<1>5. CASE SignInStart
  <2>1. Fits
    BY <1>1, <1>2, <1>5, SignInStartEffect, LoginValues
    DEF FilesBecome, SignInBecomes, JobBecomes, SpentBecomes,
        SameFiles, SameSignIn, SameJob, SameSpent, NoSignInLeft, NoBrowserLeft, LetGo,
        LoginIn, LoginsMade
  <2> QED
    BY <1>1, <2>1, LoginTypedNext DEF LoginKnown
<1>6. CASE SignInOpen
  <2> SUFFICES Fits
    BY <1>1, LoginTypedNext DEF LoginKnown
  <2> HIDE DEF Fits
  <2>1. CASE ~persistent /\ SameFiles /\ SignInBecomes("open", signIn.seed, signIn.seed,
             signIn.kept) /\ SameJob /\ SameSpent
    BY <1>1, <1>2, <1>6, <2>1, SignInOpenEffect, LoginValues
    DEF FilesBecome, SignInBecomes, JobBecomes, SpentBecomes,
        SameFiles, SameSignIn, SameJob, SameSpent, NoSignInLeft, NoBrowserLeft, LetGo,
        LoginIn, LoginsMade, Fits
  <2>2. CASE persistent /\ SameFiles /\ NoSignInLeft /\ SameJob /\ SameSpent
    BY <1>1, <1>2, <1>6, <2>2, SignInOpenEffect, LoginValues
    DEF FilesBecome, SignInBecomes, JobBecomes, SpentBecomes,
        SameFiles, SameSignIn, SameJob, SameSpent, NoSignInLeft, NoBrowserLeft, LetGo,
        LoginIn, LoginsMade, Fits
  <2>3. CASE persistent /\ files.profile.owner = "nobody" /\ FilesBecome(files.session,
             files.seededBy, TRUE, files.profile.login, "signIn")
             /\ SignInBecomes(IF files.profile.exists THEN "open" ELSE "seed", signIn.seed,
             files.profile.login, signIn.kept) /\ SameJob /\ SameSpent
    BY <1>1, <1>2, <1>6, <2>3, SignInOpenEffect, LoginValues
    DEF FilesBecome, SignInBecomes, JobBecomes, SpentBecomes,
        SameFiles, SameSignIn, SameJob, SameSpent, NoSignInLeft, NoBrowserLeft, LetGo,
        LoginIn, LoginsMade, Fits
  <2>4. Fits
    BY <1>1, <1>2, <1>6, <2>1, <2>2, <2>3, SignInOpenEffect
  <2> QED
    BY <2>4
<1>7. CASE SignInSeed
  <2>1. Fits
    BY <1>1, <1>2, <1>7, SignInSeedEffect, LoginValues
    DEF FilesBecome, SignInBecomes, JobBecomes, SpentBecomes,
        SameFiles, SameSignIn, SameJob, SameSpent, NoSignInLeft, NoBrowserLeft, LetGo,
        LoginIn, LoginsMade
  <2> QED
    BY <1>1, <2>1, LoginTypedNext DEF LoginKnown
<1>8. CASE SignIn
  <2>1. Fits
    BY <1>1, <1>2, <1>8, SignInEffect, LoginValues
    DEF FilesBecome, SignInBecomes, JobBecomes, SpentBecomes,
        SameFiles, SameSignIn, SameJob, SameSpent, NoSignInLeft, NoBrowserLeft, LetGo,
        LoginIn, LoginsMade
  <2> QED
    BY <1>1, <2>1, LoginTypedNext DEF LoginKnown
<1>9. CASE Snapshot
  <2>1. Fits
    BY <1>1, <1>2, <1>9, SnapshotEffect, LoginValues
    DEF FilesBecome, SignInBecomes, JobBecomes, SpentBecomes,
        SameFiles, SameSignIn, SameJob, SameSpent, NoSignInLeft, NoBrowserLeft, LetGo,
        LoginIn, LoginsMade
  <2> QED
    BY <1>1, <2>1, LoginTypedNext DEF LoginKnown
<1>10. CASE WindowClosed
  <2>1. Fits
    BY <1>1, <1>2, <1>10, WindowClosedEffect, LoginValues
    DEF FilesBecome, SignInBecomes, JobBecomes, SpentBecomes,
        SameFiles, SameSignIn, SameJob, SameSpent, NoSignInLeft, NoBrowserLeft, LetGo,
        LoginIn, LoginsMade
  <2> QED
    BY <1>1, <2>1, LoginTypedNext DEF LoginKnown
<1>11. CASE SignInSession
  <2>1. Fits
    BY <1>1, <1>2, <1>11, SignInSessionEffect, LoginValues
    DEF FilesBecome, SignInBecomes, JobBecomes, SpentBecomes,
        SameFiles, SameSignIn, SameJob, SameSpent, NoSignInLeft, NoBrowserLeft, LetGo,
        LoginIn, LoginsMade
  <2> QED
    BY <1>1, <2>1, LoginTypedNext DEF LoginKnown
<1>12. CASE SignInStatus
  <2>1. Fits
    BY <1>1, <1>2, <1>12, SignInStatusEffect, LoginValues
    DEF FilesBecome, SignInBecomes, JobBecomes, SpentBecomes,
        SameFiles, SameSignIn, SameJob, SameSpent, NoSignInLeft, NoBrowserLeft, LetGo,
        LoginIn, LoginsMade
  <2> QED
    BY <1>1, <2>1, LoginTypedNext DEF LoginKnown
<1>13. CASE SignInMark
  <2>1. Fits
    BY <1>1, <1>2, <1>13, SignInMarkEffect, LoginValues
    DEF FilesBecome, SignInBecomes, JobBecomes, SpentBecomes,
        SameFiles, SameSignIn, SameJob, SameSpent, NoSignInLeft, NoBrowserLeft, LetGo,
        LoginIn, LoginsMade
  <2> QED
    BY <1>1, <2>1, LoginTypedNext DEF LoginKnown
<1>14. CASE SignInClose
  <2>1. Fits
    BY <1>1, <1>2, <1>14, SignInCloseEffect, LoginValues
    DEF FilesBecome, SignInBecomes, JobBecomes, SpentBecomes,
        SameFiles, SameSignIn, SameJob, SameSpent, NoSignInLeft, NoBrowserLeft, LetGo,
        LoginIn, LoginsMade
  <2> QED
    BY <1>1, <2>1, LoginTypedNext DEF LoginKnown
<1>15. CASE JobReady
  <2>1. Fits
    BY <1>1, <1>2, <1>15, JobReadyEffect, LoginValues
    DEF FilesBecome, SignInBecomes, JobBecomes, SpentBecomes,
        SameFiles, SameSignIn, SameJob, SameSpent, NoSignInLeft, NoBrowserLeft, LetGo,
        LoginIn, LoginsMade
  <2> QED
    BY <1>1, <2>1, LoginTypedNext DEF LoginKnown
<1>16. CASE PlanSession
  <2>1. Fits
    BY <1>1, <1>2, <1>16, PlanSessionEffect, LoginValues
    DEF FilesBecome, SignInBecomes, JobBecomes, SpentBecomes,
        SameFiles, SameSignIn, SameJob, SameSpent, NoSignInLeft, NoBrowserLeft, LetGo,
        LoginIn, LoginsMade
  <2> QED
    BY <1>1, <2>1, LoginTypedNext DEF LoginKnown
<1>17. CASE PlanDecide
  <2> SUFFICES Fits
    BY <1>1, LoginTypedNext DEF LoginKnown
  <2> HIDE DEF Fits
  <2>1. CASE FilesBecome(files.session, 0, FALSE, 0, "nobody") /\ SameSignIn
             /\ JobBecomes("launch", browserJob.planned, TRUE, browserJob.login,
             browserJob.kept, browserJob.resets) /\ SameSpent
    BY <1>1, <1>2, <1>17, <2>1, PlanDecideEffect, LoginValues
    DEF FilesBecome, SignInBecomes, JobBecomes, SpentBecomes,
        SameFiles, SameSignIn, SameJob, SameSpent, NoSignInLeft, NoBrowserLeft, LetGo,
        LoginIn, LoginsMade, Fits
  <2>2. CASE (browserJob.planned = 0 \/ (files.seededBy = browserJob.planned
             /\ files.profile.exists)) /\ SameFiles /\ SameSignIn /\ JobBecomes("launch",
             browserJob.planned, FALSE, browserJob.login, browserJob.kept,
             browserJob.resets) /\ SameSpent
    BY <1>1, <1>2, <1>17, <2>2, PlanDecideEffect, LoginValues
    DEF FilesBecome, SignInBecomes, JobBecomes, SpentBecomes,
        SameFiles, SameSignIn, SameJob, SameSpent, NoSignInLeft, NoBrowserLeft, LetGo,
        LoginIn, LoginsMade, Fits
  <2>3. Fits
    BY <1>1, <1>2, <1>17, <2>1, <2>2, PlanDecideEffect
  <2> QED
    BY <2>3
<1>18. CASE BrowserLaunch
  <2> SUFFICES Fits
    BY <1>1, LoginTypedNext DEF LoginKnown
  <2> HIDE DEF Fits
  <2>1. CASE SameFiles /\ SameSignIn /\ NoBrowserLeft /\ SameSpent
    BY <1>1, <1>2, <1>18, <2>1, BrowserLaunchEffect, LoginValues
    DEF FilesBecome, SignInBecomes, JobBecomes, SpentBecomes,
        SameFiles, SameSignIn, SameJob, SameSpent, NoSignInLeft, NoBrowserLeft, LetGo,
        LoginIn, LoginsMade, Fits
  <2>2. CASE files.profile.owner = "nobody" /\ FilesBecome(files.session, files.seededBy,
             TRUE, files.profile.login, "job") /\ SameSignIn
             /\ JobBecomes(IF browserJob.bootstrap THEN "seed" ELSE "running",
             browserJob.planned, browserJob.bootstrap, files.profile.login, browserJob.kept,
             browserJob.resets) /\ SameSpent
    BY <1>1, <1>2, <1>18, <2>2, BrowserLaunchEffect, LoginValues
    DEF FilesBecome, SignInBecomes, JobBecomes, SpentBecomes,
        SameFiles, SameSignIn, SameJob, SameSpent, NoSignInLeft, NoBrowserLeft, LetGo,
        LoginIn, LoginsMade, Fits
  <2>3. Fits
    BY <1>1, <1>2, <1>18, <2>1, <2>2, BrowserLaunchEffect
  <2> QED
    BY <2>3
<1>19. CASE BrowserSeed
  <2>1. Fits
    BY <1>1, <1>2, <1>19, BrowserSeedEffect, LoginValues
    DEF FilesBecome, SignInBecomes, JobBecomes, SpentBecomes,
        SameFiles, SameSignIn, SameJob, SameSpent, NoSignInLeft, NoBrowserLeft, LetGo,
        LoginIn, LoginsMade
  <2> QED
    BY <1>1, <2>1, LoginTypedNext DEF LoginKnown
<1>20. CASE BrowserMark
  <2>1. Fits
    BY <1>1, <1>2, <1>20, BrowserMarkEffect, LoginValues
    DEF FilesBecome, SignInBecomes, JobBecomes, SpentBecomes,
        SameFiles, SameSignIn, SameJob, SameSpent, NoSignInLeft, NoBrowserLeft, LetGo,
        LoginIn, LoginsMade
  <2> QED
    BY <1>1, <2>1, LoginTypedNext DEF LoginKnown
<1>21. CASE Capture
  <2>1. Fits
    BY <1>1, <1>2, <1>21, CaptureEffect, LoginValues
    DEF FilesBecome, SignInBecomes, JobBecomes, SpentBecomes,
        SameFiles, SameSignIn, SameJob, SameSpent, NoSignInLeft, NoBrowserLeft, LetGo,
        LoginIn, LoginsMade
  <2> QED
    BY <1>1, <2>1, LoginTypedNext DEF LoginKnown
<1>22. CASE CaptureSession
  <2>1. Fits
    BY <1>1, <1>2, <1>22, CaptureSessionEffect, LoginValues
    DEF FilesBecome, SignInBecomes, JobBecomes, SpentBecomes,
        SameFiles, SameSignIn, SameJob, SameSpent, NoSignInLeft, NoBrowserLeft, LetGo,
        LoginIn, LoginsMade
  <2> QED
    BY <1>1, <2>1, LoginTypedNext DEF LoginKnown
<1>23. CASE CaptureStatus
  <2>1. Fits
    BY <1>1, <1>2, <1>23, CaptureStatusEffect, LoginValues
    DEF FilesBecome, SignInBecomes, JobBecomes, SpentBecomes,
        SameFiles, SameSignIn, SameJob, SameSpent, NoSignInLeft, NoBrowserLeft, LetGo,
        LoginIn, LoginsMade
  <2> QED
    BY <1>1, <2>1, LoginTypedNext DEF LoginKnown
<1>24. CASE CaptureMark
  <2>1. Fits
    BY <1>1, <1>2, <1>24, CaptureMarkEffect, LoginValues
    DEF FilesBecome, SignInBecomes, JobBecomes, SpentBecomes,
        SameFiles, SameSignIn, SameJob, SameSpent, NoSignInLeft, NoBrowserLeft, LetGo,
        LoginIn, LoginsMade
  <2> QED
    BY <1>1, <2>1, LoginTypedNext DEF LoginKnown
<1>25. CASE SignInThere
  <2>1. Fits
    BY <1>1, <1>2, <1>25, SignInThereEffect, LoginValues
    DEF FilesBecome, SignInBecomes, JobBecomes, SpentBecomes,
        SameFiles, SameSignIn, SameJob, SameSpent, NoSignInLeft, NoBrowserLeft, LetGo,
        LoginIn, LoginsMade
  <2> QED
    BY <1>1, <2>1, LoginTypedNext DEF LoginKnown
<1>26. CASE BrowserClose
  <2>1. Fits
    BY <1>1, <1>2, <1>26, BrowserCloseEffect, LoginValues
    DEF FilesBecome, SignInBecomes, JobBecomes, SpentBecomes,
        SameFiles, SameSignIn, SameJob, SameSpent, NoSignInLeft, NoBrowserLeft, LetGo,
        LoginIn, LoginsMade
  <2> QED
    BY <1>1, <2>1, LoginTypedNext DEF LoginKnown
<1>27. CASE ResetFiles
  <2>1. Fits
    BY <1>1, <1>2, <1>27, ResetFilesEffect, LoginValues
    DEF FilesBecome, SignInBecomes, JobBecomes, SpentBecomes,
        SameFiles, SameSignIn, SameJob, SameSpent, NoSignInLeft, NoBrowserLeft, LetGo,
        LoginIn, LoginsMade
  <2> QED
    BY <1>1, <2>1, LoginTypedNext DEF LoginKnown
<1>28. CASE KillSignIn
  <2>1. Fits
    BY <1>1, <1>2, <1>28, KillSignInEffect, LoginValues
    DEF FilesBecome, SignInBecomes, JobBecomes, SpentBecomes,
        SameFiles, SameSignIn, SameJob, SameSpent, NoSignInLeft, NoBrowserLeft, LetGo,
        LoginIn, LoginsMade
  <2> QED
    BY <1>1, <2>1, LoginTypedNext DEF LoginKnown
<1>29. CASE KillCollector
  <2>1. Fits
    BY <1>1, <1>2, <1>29, KillCollectorEffect, LoginValues
    DEF FilesBecome, SignInBecomes, JobBecomes, SpentBecomes,
        SameFiles, SameSignIn, SameJob, SameSpent, NoSignInLeft, NoBrowserLeft, LetGo,
        LoginIn, LoginsMade
  <2> QED
    BY <1>1, <2>1, LoginTypedNext DEF LoginKnown
<1>30. CASE UNCHANGED loginVars
  BY <1>1, <1>30 DEF LoginKnown, loginVars, LoginTyped, LoginsMade
<1> QED
  BY <1>3, <1>4, <1>5, <1>6, <1>7, <1>8, <1>9, <1>10, <1>11, <1>12, <1>13, <1>14, <1>15,
     <1>16, <1>17, <1>18, <1>19, <1>20, <1>21, <1>22, <1>23, <1>24, <1>25, <1>26, <1>27,
     <1>28, <1>29, <1>30 DEF LoginNext

\* So they hold in every state of every behaviour.
LEMMA LoginKnownAlways == LoginSpec => []LoginKnown
<1>1. LoginInit => LoginKnown
  BY LoginInitKnown
<1>2. LoginKnown /\ [LoginNext]_loginVars => LoginKnown'
  BY LoginKnownStep
<1> QED
  BY <1>1, <1>2, PTL DEF LoginSpec

\* They are the types the runs check.
LEMMA LoginKnownTyped == LoginKnown => LoginTypeOK
<1> SUFFICES ASSUME LoginKnown PROVE LoginTypeOK
  OBVIOUS
<1> USE LoginAssumption
<1>1. /\ files \in FilesType /\ signIn \in SignInType /\ browserJob \in BrowserJobType
      /\ loginSpent \in SpentType /\ launcher \in LauncherStep /\ LoginsMade
  BY DEF LoginKnown, LoginTyped
<1>2. loginSpent.login \in 0 .. MaxLogin /\ loginSpent.kill \in 0 .. MaxLoginKill
      /\ loginSpent.reset \in 0 .. MaxReset
  BY <1>1 DEF SpentType
<1>3. files.session \in Nat /\ files.seededBy \in Nat /\ files.profile \in ProfileType
  BY <1>1 DEF FilesType
<1>4. files.profile.login \in Nat /\ files.profile.exists \in BOOLEAN
      /\ files.profile.owner \in {"nobody", "signIn", "job"}
      /\ files.profile = [exists |-> files.profile.exists, login |-> files.profile.login,
                          owner |-> files.profile.owner]
  BY <1>3 DEF ProfileType
<1>5. files.session \in 0 .. MaxLogin /\ files.seededBy \in 0 .. MaxLogin
      /\ files.profile.login \in 0 .. MaxLogin
  BY <1>1, <1>2, <1>3, <1>4 DEF LoginsMade
<1>6. files.profile \in [exists : BOOLEAN, login : 0 .. MaxLogin,
                         owner : {"nobody", "signIn", "job"}]
  BY <1>4, <1>5
<1>7. signIn.step \in SignInStep /\ browserJob.step \in LoginStep
  BY <1>1 DEF SignInType, BrowserJobType
<1> QED
  BY <1>1, <1>2, <1>5, <1>6, <1>7 DEF LoginTypeOK, LauncherStep, SignInStep

\* The saved login, its profile and the processes that use it keep their types,
\* with any number of sign-ins, kills and resets (auth.ts, cli.ts).
THEOREM LoginTypeCorrect == LoginSpec => []LoginTypeOK
  BY LoginKnownAlways, LoginKnownTyped, PTL

-----------------------------------------------------------------------------
(* What makes a browser launched for a session hold that session's login.  *)

\* The steps of the collector's browser and of a sign-in's window on the profile.
OnProfile == {"seed", "mark", "running", "session", "status", "again"}
Windows == {"seed", "open", "session", "status", "mark", "close"}

\* The profile belongs to the browser that is on it, and holds its login.
ProfileOwned ==
  /\ files.profile.owner = "signIn" <=> persistent /\ signIn.step \in Windows
  /\ files.profile.owner = "job" <=> browserJob.step \in OnProfile
  /\ signIn.step \in {"seed", "mark"} => persistent
  /\ files.profile.owner # "nobody" => files.profile.exists
  /\ signIn.step \in {"start", "launch", "seed"} => signIn.kept = 0
  /\ signIn.kept <= signIn.login
  /\ files.profile.owner = "signIn" /\ signIn.step # "seed"
       => files.profile.login = signIn.login
  /\ files.profile.owner = "job" => files.profile.login = browserJob.login
  /\ browserJob.step = "mark" => browserJob.login = browserJob.planned
  /\ browserJob.step \in {"session", "status",
     "again"} => browserJob.kept = browserJob.login
  /\ browserJob.step = "launch" => ~(persistent /\ signIn.step \in Windows)

\* A profile that is marked holds that login or a later one, and one that is
\* being made is not marked.
Marked ==
  /\ files.seededBy # 0 => files.profile.exists /\ files.profile.login >= files.seededBy
  /\ signIn.step = "seed" => files.seededBy = 0
  /\ browserJob.step \in {"launch", "seed", "mark"} /\ browserJob.bootstrap
       => files.seededBy = 0
  /\ browserJob.step \in {"seed", "mark"} => browserJob.bootstrap

\* A profile that was taken as it is holds the login it was judged by, unless
\* everything was reset meanwhile.
Judged ==
  browserJob.resets = loginSpent.reset =>
    /\ browserJob.step = "launch" /\ ~browserJob.bootstrap
         => files.profile.login >= browserJob.planned
    /\ browserJob.step \in OnProfile \ {"seed"} => browserJob.login >= browserJob.planned

\* The inductive invariant of the saved login.
LoginInv == ProfileOwned /\ Marked /\ Judged

\* It holds before the first sign-in.
LEMMA LoginInvInit == LoginInit => LoginInv
  BY DEF LoginInit, LoginInv, ProfileOwned, Marked, Judged, NoProfile, NoSignIn, NoBrowser,
     NoLogin, OnProfile, Windows

\* Every step keeps it, where no profile is wiped under a browser.
LEMMA LoginInvStep ==
  ASSUME Overlaps = FALSE, LoginKnown, LoginInv, [LoginNext]_loginVars
  PROVE  LoginInv'
<1>1. LoginTyped /\ LoginsMade
  BY DEF LoginKnown
<1>2. /\ loginSpent.login \in Nat /\ loginSpent.reset \in Nat /\ browserJob.resets \in Nat
      /\ browserJob.bootstrap \in BOOLEAN /\ persistent \in BOOLEAN
  BY <1>1, LoginAssumption DEF LoginTyped, SpentType, BrowserJobType
<1> HIDE DEF LoginKnown
<1>3. CASE LaunchBegin \/ LaunchInUse \/ LaunchAnnounce \/ LaunchRecord \/ LaunchEnds
           \/ LaunchEndsAnyhow \/ ResetStatus
  BY <1>1, <1>2, <1>3, QuietEffect
  DEF FilesBecome, SignInBecomes, JobBecomes, SpentBecomes,
        SameFiles, SameSignIn, SameJob, SameSpent, NoSignInLeft, NoBrowserLeft, LetGo,
        LoginIn,
        RestTyped, LoginsMade, LoginInv, ProfileOwned, Marked, Judged, OnProfile, Windows
<1>4. CASE LaunchSpawn
  BY <1>1, <1>2, <1>4, LaunchSpawnEffect, LoginValues
  DEF FilesBecome, SignInBecomes, JobBecomes, SpentBecomes,
        SameFiles, SameSignIn, SameJob, SameSpent, NoSignInLeft, NoBrowserLeft, LetGo,
        LoginIn,
        RestTyped, LoginsMade, LoginInv, ProfileOwned, Marked, Judged, OnProfile, Windows
<1>5. CASE SignInStart
  BY <1>1, <1>2, <1>5, SignInStartEffect, LoginValues
  DEF FilesBecome, SignInBecomes, JobBecomes, SpentBecomes,
        SameFiles, SameSignIn, SameJob, SameSpent, NoSignInLeft, NoBrowserLeft, LetGo,
        LoginIn,
        RestTyped, LoginsMade, LoginInv, ProfileOwned, Marked, Judged, OnProfile, Windows
<1>6. CASE SignInOpen
  <2>1. CASE ~persistent /\ SameFiles /\ SignInBecomes("open", signIn.seed, signIn.seed,
             signIn.kept) /\ SameJob /\ SameSpent
    BY <1>1, <1>2, <1>6, <2>1, SignInOpenEffect, LoginValues
    DEF FilesBecome, SignInBecomes, JobBecomes, SpentBecomes,
        SameFiles, SameSignIn, SameJob, SameSpent, NoSignInLeft, NoBrowserLeft, LetGo,
        LoginIn,
        RestTyped, LoginsMade, LoginInv, ProfileOwned, Marked, Judged, OnProfile, Windows
  <2>2. CASE persistent /\ SameFiles /\ NoSignInLeft /\ SameJob /\ SameSpent
    BY <1>1, <1>2, <1>6, <2>2, SignInOpenEffect, LoginValues
    DEF FilesBecome, SignInBecomes, JobBecomes, SpentBecomes,
        SameFiles, SameSignIn, SameJob, SameSpent, NoSignInLeft, NoBrowserLeft, LetGo,
        LoginIn,
        RestTyped, LoginsMade, LoginInv, ProfileOwned, Marked, Judged, OnProfile, Windows
  <2>3. CASE persistent /\ files.profile.owner = "nobody" /\ FilesBecome(files.session,
             files.seededBy, TRUE, files.profile.login, "signIn")
             /\ SignInBecomes(IF files.profile.exists THEN "open" ELSE "seed", signIn.seed,
             files.profile.login, signIn.kept) /\ SameJob /\ SameSpent
    BY <1>1, <1>2, <1>6, <2>3, SignInOpenEffect, LoginValues
    DEF FilesBecome, SignInBecomes, JobBecomes, SpentBecomes,
        SameFiles, SameSignIn, SameJob, SameSpent, NoSignInLeft, NoBrowserLeft, LetGo,
        LoginIn,
        RestTyped, LoginsMade, LoginInv, ProfileOwned, Marked, Judged, OnProfile, Windows
  <2>4. LoginInv'
    BY <1>1, <1>2, <1>6, <2>1, <2>2, <2>3, SignInOpenEffect
  <2> QED
    BY <2>4
<1>7. CASE SignInSeed
  BY <1>1, <1>2, <1>7, SignInSeedEffect, LoginValues
  DEF FilesBecome, SignInBecomes, JobBecomes, SpentBecomes,
        SameFiles, SameSignIn, SameJob, SameSpent, NoSignInLeft, NoBrowserLeft, LetGo,
        LoginIn,
        RestTyped, LoginsMade, LoginInv, ProfileOwned, Marked, Judged, OnProfile, Windows
<1>8. CASE SignIn
  BY <1>1, <1>2, <1>8, SignInEffect, LoginValues
  DEF FilesBecome, SignInBecomes, JobBecomes, SpentBecomes,
        SameFiles, SameSignIn, SameJob, SameSpent, NoSignInLeft, NoBrowserLeft, LetGo,
        LoginIn,
        RestTyped, LoginsMade, LoginInv, ProfileOwned, Marked, Judged, OnProfile, Windows
<1>9. CASE Snapshot
  BY <1>1, <1>2, <1>9, SnapshotEffect, LoginValues
  DEF FilesBecome, SignInBecomes, JobBecomes, SpentBecomes,
        SameFiles, SameSignIn, SameJob, SameSpent, NoSignInLeft, NoBrowserLeft, LetGo,
        LoginIn,
        RestTyped, LoginsMade, LoginInv, ProfileOwned, Marked, Judged, OnProfile, Windows
<1>10. CASE WindowClosed
  BY <1>1, <1>2, <1>10, WindowClosedEffect, LoginValues
  DEF FilesBecome, SignInBecomes, JobBecomes, SpentBecomes,
        SameFiles, SameSignIn, SameJob, SameSpent, NoSignInLeft, NoBrowserLeft, LetGo,
        LoginIn,
        RestTyped, LoginsMade, LoginInv, ProfileOwned, Marked, Judged, OnProfile, Windows
<1>11. CASE SignInSession
  BY <1>1, <1>2, <1>11, SignInSessionEffect, LoginValues
  DEF FilesBecome, SignInBecomes, JobBecomes, SpentBecomes,
        SameFiles, SameSignIn, SameJob, SameSpent, NoSignInLeft, NoBrowserLeft, LetGo,
        LoginIn,
        RestTyped, LoginsMade, LoginInv, ProfileOwned, Marked, Judged, OnProfile, Windows
<1>12. CASE SignInStatus
  BY <1>1, <1>2, <1>12, SignInStatusEffect, LoginValues
  DEF FilesBecome, SignInBecomes, JobBecomes, SpentBecomes,
        SameFiles, SameSignIn, SameJob, SameSpent, NoSignInLeft, NoBrowserLeft, LetGo,
        LoginIn,
        RestTyped, LoginsMade, LoginInv, ProfileOwned, Marked, Judged, OnProfile, Windows
<1>13. CASE SignInMark
  BY <1>1, <1>2, <1>13, SignInMarkEffect, LoginValues
  DEF FilesBecome, SignInBecomes, JobBecomes, SpentBecomes,
        SameFiles, SameSignIn, SameJob, SameSpent, NoSignInLeft, NoBrowserLeft, LetGo,
        LoginIn,
        RestTyped, LoginsMade, LoginInv, ProfileOwned, Marked, Judged, OnProfile, Windows
<1>14. CASE SignInClose
  BY <1>1, <1>2, <1>14, SignInCloseEffect, LoginValues
  DEF FilesBecome, SignInBecomes, JobBecomes, SpentBecomes,
        SameFiles, SameSignIn, SameJob, SameSpent, NoSignInLeft, NoBrowserLeft, LetGo,
        LoginIn,
        RestTyped, LoginsMade, LoginInv, ProfileOwned, Marked, Judged, OnProfile, Windows
<1>15. CASE JobReady
  BY <1>1, <1>2, <1>15, JobReadyEffect, LoginValues
  DEF FilesBecome, SignInBecomes, JobBecomes, SpentBecomes,
        SameFiles, SameSignIn, SameJob, SameSpent, NoSignInLeft, NoBrowserLeft, LetGo,
        LoginIn,
        RestTyped, LoginsMade, LoginInv, ProfileOwned, Marked, Judged, OnProfile, Windows
<1>16. CASE PlanSession
  BY <1>1, <1>2, <1>16, PlanSessionEffect, LoginValues
  DEF FilesBecome, SignInBecomes, JobBecomes, SpentBecomes,
        SameFiles, SameSignIn, SameJob, SameSpent, NoSignInLeft, NoBrowserLeft, LetGo,
        LoginIn,
        RestTyped, LoginsMade, LoginInv, ProfileOwned, Marked, Judged, OnProfile, Windows
<1>17. CASE PlanDecide
  <2>1. CASE FilesBecome(files.session, 0, FALSE, 0, "nobody") /\ SameSignIn
             /\ JobBecomes("launch", browserJob.planned, TRUE, browserJob.login,
             browserJob.kept, browserJob.resets) /\ SameSpent
    BY <1>1, <1>2, <1>17, <2>1, PlanDecideEffect, LoginValues
    DEF FilesBecome, SignInBecomes, JobBecomes, SpentBecomes,
        SameFiles, SameSignIn, SameJob, SameSpent, NoSignInLeft, NoBrowserLeft, LetGo,
        LoginIn,
        RestTyped, LoginsMade, LoginInv, ProfileOwned, Marked, Judged, OnProfile, Windows,
        SignInBrowser
  <2>2. CASE (browserJob.planned = 0 \/ (files.seededBy = browserJob.planned
             /\ files.profile.exists)) /\ SameFiles /\ SameSignIn /\ JobBecomes("launch",
             browserJob.planned, FALSE, browserJob.login, browserJob.kept,
             browserJob.resets) /\ SameSpent
    BY <1>1, <1>2, <1>17, <2>2, PlanDecideEffect, LoginValues
    DEF FilesBecome, SignInBecomes, JobBecomes, SpentBecomes,
        SameFiles, SameSignIn, SameJob, SameSpent, NoSignInLeft, NoBrowserLeft, LetGo,
        LoginIn,
        RestTyped, LoginsMade, LoginInv, ProfileOwned, Marked, Judged, OnProfile, Windows,
        SignInBrowser
  <2>3. LoginInv'
    BY <1>1, <1>2, <1>17, <2>1, <2>2, PlanDecideEffect
  <2> QED
    BY <2>3
<1>18. CASE BrowserLaunch
  <2>1. CASE SameFiles /\ SameSignIn /\ NoBrowserLeft /\ SameSpent
    BY <1>1, <1>2, <1>18, <2>1, BrowserLaunchEffect, LoginValues
    DEF FilesBecome, SignInBecomes, JobBecomes, SpentBecomes,
        SameFiles, SameSignIn, SameJob, SameSpent, NoSignInLeft, NoBrowserLeft, LetGo,
        LoginIn,
        RestTyped, LoginsMade, LoginInv, ProfileOwned, Marked, Judged, OnProfile, Windows
  <2>2. CASE files.profile.owner = "nobody" /\ FilesBecome(files.session, files.seededBy,
             TRUE, files.profile.login, "job") /\ SameSignIn
             /\ JobBecomes(IF browserJob.bootstrap THEN "seed" ELSE "running",
             browserJob.planned, browserJob.bootstrap, files.profile.login, browserJob.kept,
             browserJob.resets) /\ SameSpent
    BY <1>1, <1>2, <1>18, <2>2, BrowserLaunchEffect, LoginValues
    DEF FilesBecome, SignInBecomes, JobBecomes, SpentBecomes,
        SameFiles, SameSignIn, SameJob, SameSpent, NoSignInLeft, NoBrowserLeft, LetGo,
        LoginIn,
        RestTyped, LoginsMade, LoginInv, ProfileOwned, Marked, Judged, OnProfile, Windows
  <2>3. LoginInv'
    BY <1>1, <1>2, <1>18, <2>1, <2>2, BrowserLaunchEffect
  <2> QED
    BY <2>3
<1>19. CASE BrowserSeed
  BY <1>1, <1>2, <1>19, BrowserSeedEffect, LoginValues
  DEF FilesBecome, SignInBecomes, JobBecomes, SpentBecomes,
        SameFiles, SameSignIn, SameJob, SameSpent, NoSignInLeft, NoBrowserLeft, LetGo,
        LoginIn,
        RestTyped, LoginsMade, LoginInv, ProfileOwned, Marked, Judged, OnProfile, Windows
<1>20. CASE BrowserMark
  BY <1>1, <1>2, <1>20, BrowserMarkEffect, LoginValues
  DEF FilesBecome, SignInBecomes, JobBecomes, SpentBecomes,
        SameFiles, SameSignIn, SameJob, SameSpent, NoSignInLeft, NoBrowserLeft, LetGo,
        LoginIn,
        RestTyped, LoginsMade, LoginInv, ProfileOwned, Marked, Judged, OnProfile, Windows
<1>21. CASE Capture
  BY <1>1, <1>2, <1>21, CaptureEffect, LoginValues
  DEF FilesBecome, SignInBecomes, JobBecomes, SpentBecomes,
        SameFiles, SameSignIn, SameJob, SameSpent, NoSignInLeft, NoBrowserLeft, LetGo,
        LoginIn,
        RestTyped, LoginsMade, LoginInv, ProfileOwned, Marked, Judged, OnProfile, Windows
<1>22. CASE CaptureSession
  BY <1>1, <1>2, <1>22, CaptureSessionEffect, LoginValues
  DEF FilesBecome, SignInBecomes, JobBecomes, SpentBecomes,
        SameFiles, SameSignIn, SameJob, SameSpent, NoSignInLeft, NoBrowserLeft, LetGo,
        LoginIn,
        RestTyped, LoginsMade, LoginInv, ProfileOwned, Marked, Judged, OnProfile, Windows
<1>23. CASE CaptureStatus
  BY <1>1, <1>2, <1>23, CaptureStatusEffect, LoginValues
  DEF FilesBecome, SignInBecomes, JobBecomes, SpentBecomes,
        SameFiles, SameSignIn, SameJob, SameSpent, NoSignInLeft, NoBrowserLeft, LetGo,
        LoginIn,
        RestTyped, LoginsMade, LoginInv, ProfileOwned, Marked, Judged, OnProfile, Windows
<1>24. CASE CaptureMark
  BY <1>1, <1>2, <1>24, CaptureMarkEffect, LoginValues
  DEF FilesBecome, SignInBecomes, JobBecomes, SpentBecomes,
        SameFiles, SameSignIn, SameJob, SameSpent, NoSignInLeft, NoBrowserLeft, LetGo,
        LoginIn,
        RestTyped, LoginsMade, LoginInv, ProfileOwned, Marked, Judged, OnProfile, Windows
<1>25. CASE SignInThere
  BY <1>1, <1>2, <1>25, SignInThereEffect, LoginValues
  DEF FilesBecome, SignInBecomes, JobBecomes, SpentBecomes,
        SameFiles, SameSignIn, SameJob, SameSpent, NoSignInLeft, NoBrowserLeft, LetGo,
        LoginIn,
        RestTyped, LoginsMade, LoginInv, ProfileOwned, Marked, Judged, OnProfile, Windows
<1>26. CASE BrowserClose
  BY <1>1, <1>2, <1>26, BrowserCloseEffect, LoginValues
  DEF FilesBecome, SignInBecomes, JobBecomes, SpentBecomes,
        SameFiles, SameSignIn, SameJob, SameSpent, NoSignInLeft, NoBrowserLeft, LetGo,
        LoginIn,
        RestTyped, LoginsMade, LoginInv, ProfileOwned, Marked, Judged, OnProfile, Windows
<1>27. CASE ResetFiles
  BY <1>1, <1>2, <1>27, ResetFilesEffect, LoginValues
  DEF FilesBecome, SignInBecomes, JobBecomes, SpentBecomes,
        SameFiles, SameSignIn, SameJob, SameSpent, NoSignInLeft, NoBrowserLeft, LetGo,
        LoginIn,
        RestTyped, LoginsMade, LoginInv, ProfileOwned, Marked, Judged, OnProfile, Windows,
        ProfileInUse, SignInBrowser
<1>28. CASE KillSignIn
  BY <1>1, <1>2, <1>28, KillSignInEffect, LoginValues
  DEF FilesBecome, SignInBecomes, JobBecomes, SpentBecomes,
        SameFiles, SameSignIn, SameJob, SameSpent, NoSignInLeft, NoBrowserLeft, LetGo,
        LoginIn,
        RestTyped, LoginsMade, LoginInv, ProfileOwned, Marked, Judged, OnProfile, Windows
<1>29. CASE KillCollector
  BY <1>1, <1>2, <1>29, KillCollectorEffect, LoginValues
  DEF FilesBecome, SignInBecomes, JobBecomes, SpentBecomes,
        SameFiles, SameSignIn, SameJob, SameSpent, NoSignInLeft, NoBrowserLeft, LetGo,
        LoginIn,
        RestTyped, LoginsMade, LoginInv, ProfileOwned, Marked, Judged, OnProfile, Windows
<1>30. CASE UNCHANGED loginVars
  BY <1>30 DEF loginVars, LoginInv, ProfileOwned, Marked, Judged
<1> QED
  BY <1>3, <1>4, <1>5, <1>6, <1>7, <1>8, <1>9, <1>10, <1>11, <1>12, <1>13, <1>14, <1>15,
     <1>16, <1>17, <1>18, <1>19, <1>20, <1>21, <1>22, <1>23, <1>24, <1>25, <1>26, <1>27,
     <1>28, <1>29, <1>30 DEF LoginNext

\* A browser the collector launched has the login that was saved when it was
\* planned or a later one, unless everything was reset meanwhile: for any
\* number of sign-ins, kills and resets, where no profile is judged or wiped
\* under a browser that uses it (auth.ts:805-842, 941-984,
\* providerSessionManager.ts:275-336).
THEOREM LaunchesAsSaved ==
  ASSUME Overlaps = FALSE
  PROVE  LoginSpec => []LaunchedAsSaved
<1>1. LoginInit => LoginInv
  BY LoginInvInit
<1>2. LoginKnown /\ LoginInv /\ [LoginNext]_loginVars => LoginInv'
  BY LoginInvStep
<1>3. LoginInv => LaunchedAsSaved
  BY DEF LoginInv, Judged, LaunchedAsSaved, OnProfile
<1> QED
  BY <1>1, <1>2, <1>3, LoginKnownAlways, PTL DEF LoginSpec

-----------------------------------------------------------------------------
(* The parts together (MCBrowser).                                         *)

\* A part that does not move keeps its invariant.
BrowserInv == part \in BrowserPart /\ SessionInv /\ RuntimeInv /\ LoginKnown

\* The parts keep their invariants, whichever of them moves.
LEMMA BrowserStepInv ==
  ASSUME BrowserInv, [BrowserNext]_browserVars
  PROVE  BrowserInv'
<1>1. UNCHANGED vars => SessionInv'
  BY SessionStepInv DEF BrowserInv
<1>2. UNCHANGED runtimeVars => RuntimeInv'
  BY RuntimeStepInv DEF BrowserInv
<1>3. UNCHANGED loginVars => LoginKnown'
  BY LoginKnownStep DEF BrowserInv
<1>4. CASE part = "session" /\ Next /\ UNCHANGED <<part, runtimeVars, loginVars>>
  BY <1>2, <1>3, <1>4, SessionStepInv DEF BrowserInv
<1>5. CASE part = "runtime" /\ RuntimeNext /\ UNCHANGED <<part, vars, loginVars>>
  BY <1>1, <1>3, <1>5, RuntimeStepInv DEF BrowserInv
<1>6. CASE part = "login" /\ LoginNext /\ UNCHANGED <<part, vars, runtimeVars>>
  BY <1>1, <1>2, <1>6, LoginKnownStep DEF BrowserInv
<1>7. CASE UNCHANGED browserVars
  BY <1>1, <1>2, <1>3, <1>7 DEF BrowserInv, browserVars
<1> QED
  BY <1>4, <1>5, <1>6, <1>7 DEF BrowserNext

\* The types of the sessions, the runtime and the login hold together
\* (MCBrowser), for any number of processes, kills and lost locks.
THEOREM BrowserTypeCorrect == BrowserSpec => []BrowserTypeOK
<1>1. BrowserInit => BrowserInv
  BY SessionInitInv, RuntimeInitInv, LoginInitKnown DEF BrowserInit, BrowserInv
<1>2. BrowserInv /\ [BrowserNext]_browserVars => BrowserInv'
  BY BrowserStepInv
<1>3. BrowserInv => BrowserTypeOK
  BY LoginKnownTyped DEF BrowserInv, BrowserTypeOK, SessionInv, RuntimeInv
<1> QED
  BY <1>1, <1>2, <1>3, PTL DEF BrowserSpec
===============================================================================
