--------------------------- MODULE RuntimeInstall ---------------------------
(***************************************************************************)
(* The managed browser runtime of a machine (scripts/lib/runtime.mjs):     *)
(* the set-up, sign-in, local and collector commands each make sure of it  *)
(* before they start, in processes of their own.  A directory is the lock, *)
(* its age tells a lock whose holder died, and a second look under the     *)
(* lock decides whether anything has to be rebuilt.                        *)
(*                                                                         *)
(* Nothing bounds a rebuild, so the lock of a live but slow holder goes    *)
(* stale as well.  A command that removes a lock whose maker is at work is *)
(* said to rob it: two provisioners may then mix what they do to the       *)
(* directory.                                                              *)
(***************************************************************************)
EXTENDS Integers, FiniteSets

CONSTANTS Command,     \* processes that need the runtime
          Stale,       \* the age at which a lock is taken to be abandoned
          MaxKill      \* bound: commands killed

ASSUME RuntimeAssumption == Stale \in Nat \ {0} /\ MaxKill \in Nat

VARIABLES
  runtime,    \* what the directory holds
  lock,       \* the lock directory: who made it, if it exists, and its age
  command,    \* each process: its step, how long it waits, and whose lock it
              \* found stale
  killed,
  robbed      \* history: how live holders lost their locks, see RemoveStale

runtimeVars == <<runtime, lock, command, killed, robbed>>

\* "unlisted": all is there but the manifest; "outdated": another version.
RuntimeStates == {"absent", "partial", "outdated", "unlisted", "ok"}
NoLock == [by |-> {}, age |-> 0]
Idle == [step |-> "look", waited |-> 0, saw |-> {}]

RuntimeInit ==
  /\ runtime \in RuntimeStates \ {"partial"}
  /\ lock = NoLock
  /\ command = [c \in Command |-> Idle]
  /\ killed = 0
  /\ robbed = {}

\* The steps between taking the lock and letting it go.
Holding == {"again", "clear", "build", "fetch", "list", "release", "abandon"}
CommandEnded == {"ready", "failed", "killed"}

GoTo(c, step) == command' = [command EXCEPT ![c].step = step]

-----------------------------------------------------------------------------
\* inspectLocalCamoufoxRuntime: the manifest, the probes and the entry point
\* pass validateCamoufoxRuntimeSnapshot.
Look(c) ==
  /\ command[c].step = "look"
  /\ GoTo(c, IF runtime = "ok" THEN "ready" ELSE "lock")
  /\ UNCHANGED <<runtime, lock, killed, robbed>>

\* acquireDirectoryLock: making the directory is the test.
TakeLock(c) ==
  /\ command[c].step = "lock" /\ lock.by = {}
  /\ lock' = [by |-> {c}, age |-> 0]
  /\ GoTo(c, "again")
  /\ UNCHANGED <<runtime, killed, robbed>>

\* The look at the lock's age and its removal are two calls.
SeeStale(c) ==
  /\ command[c].step = "lock" /\ lock.by # {} /\ lock.age >= Stale
  /\ command' = [command EXCEPT ![c].step = "steal", ![c].saw = lock.by]
  /\ UNCHANGED <<runtime, lock, killed, robbed>>

\* The directory goes, whatever became of it since the look.  History: its
\* maker, still at work, was slow, or has made it anew since then.
RemoveStale(c) ==
  /\ command[c].step = "steal"
  /\ lock' = NoLock
  /\ robbed' = robbed \cup
       IF \E d \in lock.by : command[d].step \in Holding
       THEN {IF lock.by = command[c].saw THEN "slow" ELSE "anew"} ELSE {}
  /\ command' = [command EXCEPT ![c].step = "lock", ![c].saw = {}]
  /\ UNCHANGED <<runtime, killed>>

WaitedEnough(c) ==
  /\ command[c].step = "lock" /\ command[c].waited >= Stale
  /\ GoTo(c, "failed")
  /\ UNCHANGED <<runtime, lock, killed, robbed>>

\* Variants of the second look: none, and one that trusts whatever is there.
RebuildAnyway(c) ==
  /\ command[c].step = "again"
  /\ GoTo(c, IF runtime = "unlisted" THEN "list" ELSE "clear")
  /\ UNCHANGED <<runtime, lock, killed, robbed>>

LookAgain(c) ==
  /\ command[c].step = "again"
  /\ GoTo(c, CASE runtime = "ok" -> "release"
               [] runtime = "unlisted" -> "list"
               [] OTHER -> "clear")
  /\ UNCHANGED <<runtime, lock, killed, robbed>>

\* rebuildManagedCamoufoxRuntime: the directory is removed, the environment
\* made and filled, the browser fetched; a command that fails leaves what is
\* there, and the lock is released all the same.  It may fail for want of a
\* Python before it removes anything.
Clear(c) ==
  /\ command[c].step = "clear"
  /\ \/ runtime' = "absent" /\ GoTo(c, "build")
     \/ runtime' = runtime /\ GoTo(c, "abandon")
  /\ UNCHANGED <<lock, killed, robbed>>

Build(c) ==
  /\ command[c].step = "build"
  /\ \/ runtime' = "partial" /\ (GoTo(c, "fetch") \/ GoTo(c, "abandon"))
     \/ runtime' = "absent" /\ GoTo(c, "abandon")
  /\ UNCHANGED <<lock, killed, robbed>>

\* It takes what Build made, if another provisioner has left it there.
Fetch(c) ==
  /\ command[c].step = "fetch"
  /\ \/ runtime = "partial" /\ runtime' = "unlisted" /\ GoTo(c, "list")
     \/ runtime' = runtime /\ GoTo(c, "abandon")
  /\ UNCHANGED <<lock, killed, robbed>>

\* writeCamoufoxRuntimeManifest, of what the probe found.
List(c) ==
  /\ command[c].step = "list"
  /\ runtime' = IF runtime = "unlisted" THEN "ok" ELSE runtime
  /\ GoTo(c, IF runtime = "absent" THEN "abandon" ELSE "release")
  /\ UNCHANGED <<lock, killed, robbed>>

\* The lock directory goes, whoever made it.
ReleaseLock(c) ==
  /\ command[c].step \in {"release", "abandon"}
  /\ lock' = NoLock
  /\ GoTo(c, IF command[c].step = "release" THEN "check" ELSE "failed")
  /\ UNCHANGED <<runtime, killed, robbed>>

\* The last look, after the lock.
Check(c) ==
  /\ command[c].step = "check"
  /\ GoTo(c, IF runtime = "ok" THEN "ready" ELSE "failed")
  /\ UNCHANGED <<runtime, lock, killed, robbed>>

-----------------------------------------------------------------------------
Kill(c) ==
  /\ command[c].step \notin CommandEnded /\ killed < MaxKill
  /\ killed' = killed + 1
  /\ GoTo(c, "killed")
  /\ UNCHANGED <<runtime, lock, robbed>>

\* The lock and those who wait for it grow older, whatever its maker does.
RuntimeTick ==
  /\ lock.by # {}
  /\ lock' = [lock EXCEPT !.age = IF @ < Stale THEN @ + 1 ELSE @]
  /\ command' = [c \in Command |->
       IF command[c].step = "lock" /\ command[c].waited < Stale
       THEN [command[c] EXCEPT !.waited = @ + 1] ELSE command[c]]
  /\ UNCHANGED <<runtime, killed, robbed>>

EnsureRuntime(c) ==
  \/ Look(c) \/ TakeLock(c) \/ SeeStale(c) \/ RemoveStale(c) \/ WaitedEnough(c)
  \/ LookAgain(c) \/ Clear(c) \/ Build(c) \/ Fetch(c) \/ List(c)
  \/ ReleaseLock(c) \/ Check(c)

RuntimeNext ==
  \/ \E c \in Command : EnsureRuntime(c) \/ Kill(c)
  \/ RuntimeTick

RuntimeSpec == RuntimeInit /\ [][RuntimeNext]_runtimeVars

-----------------------------------------------------------------------------
\* The types.
RuntimeTypeOK ==
  /\ runtime \in RuntimeStates
  /\ lock \in [by : {{}} \cup {{c} : c \in Command}, age : 0 .. Stale]
  /\ command \in [Command -> [step : Holding \cup CommandEnded \cup {"look", "lock", "steal", "check"},
                              waited : 0 .. Stale, saw : SUBSET Command]]
  /\ killed \in 0 .. MaxKill
  /\ robbed \subseteq {"slow", "anew"}

\* Two processes never work on the runtime at once.
OneRebuilder == Cardinality({c \in Command : command[c].step \in Holding}) <= 1

\* A command that was told the runtime is ready finds it whole from then on.
ReadyIsWhole == \A c \in Command : command[c].step = "ready" => runtime = "ok"

\* Provisioners work one at a time, and whoever comes later, waits for the
\* lock or takes a dead holder's place leaves a runtime alone that somebody
\* was told is ready (runtime.mjs:702-734, 824-868; runtime.test.mjs:98).
\* There is one way out of this: a live holder is robbed of its lock, because
\* it outlasts the ten minutes (724), or because a third command had made the
\* lock anew between another's look at its age and the removal (723-725).
EnsuredIsReady == robbed = {} => OneRebuilder /\ ReadyIsWhole
=============================================================================
