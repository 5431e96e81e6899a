--------------------------- MODULE ProviderSession ---------------------------
(***************************************************************************)
(* The persistent browser of one provider (providerSessionManager.ts and   *)
(* taskPageRegistry.ts in apps/agent/src/lib/browser) and its users, the   *)
(* browser attempts of the collector's jobs (createAgent.ts, launch.ts,    *)
(* proxy/runner.ts).  The jobs of a provider run one after the other; an   *)
(* attempt whose set-up exceeds AGENT_SETUP_TIMEOUT_MS is abandoned by the *)
(* runner while its createAgent goes on, so attempts do overlap.           *)
(*                                                                         *)
(* A step is the code between two awaits.  The session map of the module   *)
(* is `sessions`: the number of the session it holds, or 0.  The collector *)
(* asks for headless sessions only and never calls holdForHuman, so the    *)
(* hand-over to a visible window does not appear.                          *)
(***************************************************************************)
EXTENDS Naturals, FiniteSets

CONSTANTS BrowserTask,    \* browser task ids: collection:<run>:<provider>
          NoTask,         \* activeTaskId = null
          MaxJob,         \* bound: jobs of the provider
          MaxTry,         \* attempts of a job (attemptsPerCycle, one cycle)
          MaxPageFault    \* bound: newPage failures of a living browser

ASSUME SessionAssumption ==
  /\ NoTask \notin BrowserTask
  /\ MaxJob \in Nat /\ MaxTry \in Nat /\ MaxPageFault \in Nat

Attempt == 1 .. MaxJob * MaxTry
Session == Attempt            \* an attempt launches one browser at most

VARIABLES
  sessions,   \* the map's entry for the provider: a session, or 0
  browser,    \* of each session: its browser process
  lease,      \* leaseCount
  active,     \* activeTaskId
  pages,      \* the tasks that own a page in its TaskPageRegistry
  timers,     \* idle timers armed and not cleared
  handle,     \* idleTimer refers to one of them
  launching,  \* the attempt whose launch is in `launches`, or 0
  pc,         \* of each attempt: where its createAgent or executor stands
  owner,      \* its task
  sess,       \* the session it acquired, or 0
  cur,        \* the attempt the runner waits for, or 0
  job,        \* the jobs started so far
  task,       \* the task of the running job, NoTask between jobs
  tries,      \* attempts of the running job
  faults      \* newPage failures so far

sessionVars == <<sessions, browser, lease, active, pages, timers, handle>>
attemptVars == <<launching, pc, owner, sess, faults>>
runnerVars == <<cur, job, task, tries>>
vars == <<sessionVars, attemptVars, runnerVars>>

BrowserState == {"none", "open", "closing", "gone"}

\* "stranded" is a failed attempt that keeps its lease: claimTaskPage threw.
\* "orphan" is an agent that was set up for a runner that no longer waits.
Ended == {"done", "failed", "stranded"}
PC == {"none", "launching", "waiting", "claiming", "setup", "running",
       "undoing", "leaving", "invalidating", "orphan"} \cup Ended

InSetup == {"launching", "waiting", "claiming", "setup", "undoing"}

Init ==
  /\ sessions = 0
  /\ browser = [s \in Session |-> "none"]
  /\ lease = [s \in Session |-> 0]
  /\ active = [s \in Session |-> NoTask]
  /\ pages = [s \in Session |-> {}]
  /\ timers = [s \in Session |-> 0]
  /\ handle = [s \in Session |-> FALSE]
  /\ launching = 0
  /\ pc = [a \in Attempt |-> "none"]
  /\ owner = [a \in Attempt |-> NoTask]
  /\ sess = [a \in Attempt |-> 0]
  /\ cur = 0 /\ job = 0 /\ task = NoTask /\ tries = 0
  /\ faults = 0

-----------------------------------------------------------------------------
(* The manager's operations. *)

\* setTimeout(closeSession): whatever idleTimer referred to stays armed.
ArmIdle(s) ==
  /\ timers' = [timers EXCEPT ![s] = @ + 1]
  /\ handle' = [handle EXCEPT ![s] = TRUE]

\* Faulty: the timer is cleared but idleTimer is not set to null.
CountLeaseKeepingHandle(s, a) ==
  /\ lease' = [lease EXCEPT ![s] = @ + 1]
  /\ active' = [active EXCEPT ![s] = owner'[a]]
  /\ timers' = [timers EXCEPT ![s] = IF handle[s] THEN @ - 1 ELSE @]
  /\ UNCHANGED handle

\* acquireProviderSession on a free session, up to claimTaskPage.
CountLease(s, a) ==
  /\ lease' = [lease EXCEPT ![s] = @ + 1]
  /\ active' = [active EXCEPT ![s] = owner'[a]]
  /\ timers' = [timers EXCEPT ![s] = IF handle[s] THEN @ - 1 ELSE @]
  /\ handle' = [handle EXCEPT ![s] = FALSE]

\* The lease is given back: the same lines in release and in invalidate.
DropLease(s, a) ==
  /\ lease' = [lease EXCEPT ![s] = IF @ > 0 THEN @ - 1 ELSE 0]
  /\ active' = [active EXCEPT ![s] = IF @ = owner[a] THEN NoTask ELSE @]

\* closeSession up to the close of the browser, which is awaited.
CloseSession(s) ==
  /\ browser' = [browser EXCEPT ![s] = "closing"]
  /\ sessions' = 0
  /\ pages' = [pages EXCEPT ![s] = {}]
  /\ timers' = [timers EXCEPT ![s] = 0]   \* what is left fires without effect
  /\ handle' = [handle EXCEPT ![s] = FALSE]

\* cleanupAgent and release, up to the close of the task's pages: returns at
\* once when the session is closed or another lease is left.
ReleaseLease(a, onWait, onReturn) ==
  LET s == sess[a]
      returns == browser[s] # "open" \/ lease[s] > 1
  IN /\ DropLease(s, a)
     /\ pages' = [pages EXCEPT ![s] = IF returns THEN @ ELSE @ \ {owner[a]}]
     /\ pc' = [pc EXCEPT ![a] = IF returns THEN onReturn ELSE onWait]
     /\ UNCHANGED <<sessions, browser, timers, handle>>

-----------------------------------------------------------------------------
(* The runner: jobs, attempts, time limits. *)

\* handleJob, first lines: releaseProviderHumanHold arms the idle timer of a
\* session without a lease.
StartJob(t) ==
  /\ task = NoTask
  /\ job < MaxJob
  /\ job' = job + 1
  /\ task' = t
  /\ IF sessions # 0 /\ lease[sessions] = 0
     THEN ArmIdle(sessions)
     ELSE UNCHANGED <<timers, handle>>
  /\ UNCHANGED <<sessions, browser, lease, active, pages, attemptVars, cur, tries>>

\* runSingleAttempt calls createAgent, which comes as far as getOrLaunchSession.
Begin(a) ==
  /\ task # NoTask /\ cur = 0 /\ tries < MaxTry
  /\ pc[a] = "none"
  /\ \A b \in Attempt : b < a => pc[b] # "none"
  /\ cur' = a
  /\ tries' = tries + 1
  /\ owner' = [owner EXCEPT ![a] = task]
  /\ UNCHANGED <<job, task, faults>>

\* The open session is free.
BeginReuse(a) ==
  /\ Begin(a)
  /\ sessions # 0
  /\ lease[sessions] = 0
  /\ CountLease(sessions, a)
  /\ sess' = [sess EXCEPT ![a] = sessions]
  /\ pc' = [pc EXCEPT ![a] = "claiming"]
  /\ UNCHANGED <<sessions, browser, pages, launching>>

\* Faulty: acquireProviderSession does not look at the lease.
BeginRefusedNever(a) ==
  /\ Begin(a)
  /\ sessions # 0
  /\ lease[sessions] > 0
  /\ CountLease(sessions, a)
  /\ sess' = [sess EXCEPT ![a] = sessions]
  /\ pc' = [pc EXCEPT ![a] = "claiming"]
  /\ UNCHANGED <<sessions, browser, pages, launching>>

\* "Provider browser is already owned by task ...".
BeginRefused(a) ==
  /\ Begin(a)
  /\ sessions # 0
  /\ lease[sessions] > 0
  /\ pc' = [pc EXCEPT ![a] = "failed"]
  /\ UNCHANGED <<sessionVars, launching, sess>>

\* No session and no launch in flight: this attempt launches.
BeginLaunch(a) ==
  /\ Begin(a)
  /\ sessions = 0
  /\ launching = 0
  /\ launching' = a
  /\ pc' = [pc EXCEPT ![a] = "launching"]
  /\ UNCHANGED <<sessionVars, sess>>

\* Faulty: `launches` is not consulted, the launch replaces the one in flight.
BeginWaitNever(a) ==
  /\ Begin(a)
  /\ sessions = 0
  /\ launching # 0
  /\ launching' = a
  /\ pc' = [pc EXCEPT ![a] = "launching"]
  /\ UNCHANGED <<sessionVars, sess>>

\* An abandoned attempt is still launching: wait for its browser.
BeginWait(a) ==
  /\ Begin(a)
  /\ sessions = 0
  /\ launching # 0
  /\ pc' = [pc EXCEPT ![a] = "waiting"]
  /\ UNCHANGED <<sessionVars, launching, sess>>

\* Faulty: the clock of the set-up starts when the browser is there.
SetupTimeoutLate(a) ==
  /\ cur = a
  /\ pc[a] \in {"claiming", "setup", "undoing"}
  /\ cur' = 0
  /\ UNCHANGED <<sessionVars, attemptVars, job, task, tries>>

\* The time limit of the set-up: the attempt goes on without its runner.
SetupTimeout(a) ==
  /\ cur = a
  /\ pc[a] \in InSetup
  /\ cur' = 0
  /\ UNCHANGED <<sessionVars, attemptVars, job, task, tries>>

\* The next attempt of the job, after a failure that is worth one.
Retry(a) ==
  /\ cur = a
  /\ pc[a] \in {"failed", "stranded"}
  /\ tries < MaxTry
  /\ cur' = 0
  /\ UNCHANGED <<sessionVars, attemptVars, job, task, tries>>

\* Success, a fatal error, a stop signal, or the last attempt.
EndJob ==
  /\ task # NoTask
  /\ \/ cur # 0 /\ pc[cur] \in Ended
     \/ cur = 0 /\ tries > 0
  /\ task' = NoTask
  /\ cur' = 0
  /\ tries' = 0
  /\ UNCHANGED <<sessionVars, attemptVars, job>>

-----------------------------------------------------------------------------
(* An attempt from its launch to its end. *)

Waiters == {b \in Attempt : pc[b] = "waiting"}

\* A new session.  The launcher's continuation comes before those of the
\* waiters and takes the lease, so that each of them finds it taken.
LaunchDone(a) ==
  /\ launching = a
  /\ pc[a] = "launching"
  /\ \A s \in Session : browser[s] # "closing"   \* the profile is locked
  /\ launching' = 0
  /\ browser' = [browser EXCEPT ![a] = "open"]
  /\ sessions' = a
  /\ lease' = [lease EXCEPT ![a] = 1]
  /\ active' = [active EXCEPT ![a] = owner[a]]
  /\ pages' = [pages EXCEPT ![a] = {owner[a]}]   \* the startup page
  /\ sess' = [sess EXCEPT ![a] = a]
  /\ pc' = [b \in Attempt |-> IF b = a THEN "claiming"
                              ELSE IF b \in Waiters THEN "failed" ELSE pc[b]]
  /\ UNCHANGED <<timers, handle, owner, faults, runnerVars>>

\* The launch is rejected, and with it every attempt that waits for it.
LaunchFails(a) ==
  /\ launching = a
  /\ pc[a] = "launching"
  /\ launching' = 0
  /\ pc' = [b \in Attempt |-> IF b \in Waiters \cup {a} THEN "failed" ELSE pc[b]]
  /\ UNCHANGED <<sessionVars, owner, sess, faults, runnerVars>>

\* Faulty: the new page is not bound to the task.
ClaimUnbound(a) ==
  /\ pc[a] = "claiming"
  /\ browser[sess[a]] = "open"
  /\ pc' = [pc EXCEPT ![a] = "setup"]
  /\ UNCHANGED <<sessionVars, launching, owner, sess, faults, runnerVars>>

\* claimTaskPage returns the startup page or a new one, bound to the task.
Claim(a) ==
  /\ pc[a] = "claiming"
  /\ browser[sess[a]] = "open"
  /\ pages' = [pages EXCEPT ![sess[a]] = @ \cup {owner[a]}]
  /\ pc' = [pc EXCEPT ![a] = "setup"]
  /\ UNCHANGED <<sessions, browser, lease, active, timers, handle>>
  /\ UNCHANGED <<launching, owner, sess, faults, runnerVars>>

\* newPage throws: the lease was counted before and nobody gives it back.
ClaimFails(a) ==
  /\ pc[a] = "claiming"
  /\ IF browser[sess[a]] = "open"
     THEN faults < MaxPageFault /\ faults' = faults + 1
     ELSE UNCHANGED faults
  /\ pc' = [pc EXCEPT ![a] = "stranded"]
  /\ UNCHANGED <<sessionVars, launching, owner, sess, runnerVars>>

\* createAgent returns, to its runner or after that has given it up.
SetupDone(a) ==
  /\ pc[a] = "setup"
  /\ browser[sess[a]] = "open"
  /\ pc' = [pc EXCEPT ![a] = IF cur = a THEN "running" ELSE "orphan"]
  /\ UNCHANGED <<sessionVars, launching, owner, sess, faults, runnerVars>>

\* Navigation or a hook throws: createAgent cleans up by itself.
SetupFails(a) ==
  /\ pc[a] = "setup"
  /\ ReleaseLease(a, "undoing", "failed")
  /\ UNCHANGED <<launching, owner, sess, faults, runnerVars>>

\* The executor is over, with a result or with an error that leaves the
\* session alone: closeContextAndBrowser.
RunEnds(a) ==
  /\ pc[a] = "running"
  /\ \/ browser[sess[a]] = "open" /\ ReleaseLease(a, "leaving", "done")
     \/ ReleaseLease(a, "undoing", "failed")
  /\ UNCHANGED <<launching, owner, sess, faults, runnerVars>>

\* An error after which the runner invalidates the session.
RunInvalidates(a) ==
  LET s == sess[a]
  IN /\ pc[a] = "running"
     /\ DropLease(s, a)
     /\ IF browser[s] = "open"
        THEN CloseSession(s) /\ pc' = [pc EXCEPT ![a] = "invalidating"]
        ELSE /\ pc' = [pc EXCEPT ![a] = "failed"]
             /\ UNCHANGED <<browser, sessions, pages, timers, handle>>
     /\ UNCHANGED <<launching, owner, sess, faults, runnerVars>>

\* The browser is closed, the release that follows finds `released` set.
InvalidateEnds(a) ==
  /\ pc[a] = "invalidating"
  /\ browser[sess[a]] = "gone"
  /\ pc' = [pc EXCEPT ![a] = "failed"]
  /\ UNCHANGED <<sessionVars, launching, owner, sess, faults, runnerVars>>

\* The task's pages are closed: release arms the idle timer, whatever has
\* become of the session meanwhile.
ReleaseEnds(a) ==
  /\ pc[a] \in {"undoing", "leaving"}
  /\ pc' = [pc EXCEPT ![a] = IF @ = "leaving" THEN "done" ELSE "failed"]
  /\ IF browser[sess[a]] = "open" THEN ArmIdle(sess[a]) ELSE UNCHANGED <<timers, handle>>
  /\ UNCHANGED <<sessions, browser, lease, active, pages>>
  /\ UNCHANGED <<launching, owner, sess, faults, runnerVars>>

-----------------------------------------------------------------------------
(* Timers and the browser process. *)

IdleTimerFires(s) ==
  /\ browser[s] = "open"
  /\ timers[s] > 0
  /\ CloseSession(s)
  /\ UNCHANGED <<lease, active, attemptVars, runnerVars>>

\* The process is gone.  Nothing reads the rest of a closed session's record,
\* which the model resets.
BrowserGone(s) ==
  /\ browser' = [browser EXCEPT ![s] = "gone"]
  /\ lease' = [lease EXCEPT ![s] = 0]
  /\ active' = [active EXCEPT ![s] = NoTask]
  /\ pages' = [pages EXCEPT ![s] = {}]
  /\ timers' = [timers EXCEPT ![s] = 0]
  /\ handle' = [handle EXCEPT ![s] = FALSE]
  /\ UNCHANGED <<attemptVars, runnerVars>>

ContextClosed(s) ==
  /\ browser[s] = "closing"
  /\ BrowserGone(s)
  /\ UNCHANGED sessions

\* The process dies: the listener of the context's close event.
BrowserCrash(s) ==
  /\ browser[s] = "open"
  /\ BrowserGone(s)
  /\ sessions' = IF sessions = s THEN 0 ELSE sessions

AttemptStep(a) ==
  \/ LaunchDone(a) \/ LaunchFails(a)
  \/ Claim(a) \/ ClaimFails(a)
  \/ SetupDone(a) \/ SetupFails(a)
  \/ RunEnds(a) \/ RunInvalidates(a)
  \/ InvalidateEnds(a) \/ ReleaseEnds(a)

Next ==
  \/ \E t \in BrowserTask : StartJob(t)
  \/ EndJob
  \/ \E a \in Attempt :
       \/ BeginReuse(a) \/ BeginRefused(a) \/ BeginLaunch(a) \/ BeginWait(a)
       \/ SetupTimeout(a) \/ Retry(a)
       \/ AttemptStep(a)
  \/ \E s \in Session : IdleTimerFires(s) \/ ContextClosed(s) \/ BrowserCrash(s)

Spec == Init /\ [][Next]_vars

\* The set-up and the execution of an attempt have timers of their own in the
\* runner; closing a page or a browser returns; the runner's loop goes on.
Fairness ==
  /\ \A a \in Attempt :
       /\ WF_vars(BeginReuse(a) \/ BeginRefused(a) \/ BeginLaunch(a) \/ BeginWait(a))
       /\ WF_vars(SetupTimeout(a))
       /\ WF_vars(RunEnds(a))
       /\ WF_vars(InvalidateEnds(a))
       /\ WF_vars(ReleaseEnds(a))
  /\ \A s \in Session : WF_vars(ContextClosed(s))
  /\ WF_vars(EndJob)

FairSpec == Spec /\ Fairness

-----------------------------------------------------------------------------
SessionTypeOK ==
  /\ sessions \in {0} \cup Session
  /\ browser \in [Session -> BrowserState]
  /\ lease \in [Session -> Nat]
  /\ active \in [Session -> BrowserTask \cup {NoTask}]
  /\ pages \in [Session -> SUBSET BrowserTask]
  /\ timers \in [Session -> Nat]
  /\ handle \in [Session -> BOOLEAN]
  /\ launching \in {0} \cup Attempt
  /\ pc \in [Attempt -> PC]
  /\ owner \in [Attempt -> BrowserTask \cup {NoTask}]
  /\ sess \in [Attempt -> {0} \cup Session]
  /\ cur \in {0} \cup Attempt
  /\ job \in Nat /\ tries \in Nat /\ faults \in Nat
  /\ task \in BrowserTask \cup {NoTask}

\* A provider has one browser: at most one session is open, it is the one in
\* the map, and nothing is launched next to it or next to another launch,
\* with however many abandoned attempts under way (getOrLaunchSession).
SingleBrowser ==
  /\ \A s \in Session : browser[s] = "open" => sessions = s /\ launching = 0
  /\ \A a \in Attempt : pc[a] = "launching" <=> launching = a

\* The attempts that count on the session being theirs.
LeaseHolders(s) == {a \in Attempt : sess[a] = s /\
                      pc[a] \in {"claiming", "setup", "running", "orphan", "stranded"}}

\* The lease of an open session is exclusive and its count exact: two
\* attempts never drive one browser, and a lease without a living user is
\* one of the two that the code loses, a set-up that outlived its runner or
\* a claim that threw after the count.  A session nobody leases has a timer
\* that will close it, or the release that arms it is still closing pages.
LeaseExact ==
  \A s \in Session : browser[s] = "open" =>
    /\ lease[s] = Cardinality(LeaseHolders(s)) /\ lease[s] <= 1
    /\ lease[s] = 0 =>
         \/ timers[s] > 0
         \/ \E a \in Attempt : sess[a] = s /\ pc[a] \in {"undoing", "leaving"}

\* The page an attempt sets up or drives stays bound to its task and its task
\* stays the active one, whatever an abandoned attempt of the same or of
\* another task releases meanwhile; and the session holds no page of a task
\* that is over: "All pages owned by a task are closed together when that
\* task finishes" (README.md:106).
PageIsMine ==
  /\ \A a \in Attempt :
       pc[a] \in {"setup", "running"} /\ browser[sess[a]] = "open" =>
         owner[a] \in pages[sess[a]] /\ active[sess[a]] = owner[a]
  /\ \A s \in Session : browser[s] = "open" => pages[s] \subseteq {active[s]}

\* Every job comes to its end, though attempts hang, browsers die and
\* sessions stay leased by attempts nobody waits for.
JobEnds == \A t \in BrowserTask : task = t ~> task = NoTask

\* README.md: "Every browser page belongs to a concrete collection task": the
\* manager closes a session only when no lease is left, so that a running
\* task keeps its browser.
IdleSparesLease ==
  [][\A s \in Session : browser[s] = "open" /\ browser'[s] = "closing" => lease'[s] = 0]_vars

=============================================================================
