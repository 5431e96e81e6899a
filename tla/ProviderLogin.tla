--------------------------- MODULE ProviderLogin ---------------------------
(***************************************************************************)
(* The saved login of one provider, between the three processes that use   *)
(* it: the web process that starts a sign-in and resets it                 *)
(* (packages/services/src/agent/auth.ts, the providers route), the sign-in *)
(* process with its browser (apps/agent/src/auth/cli.ts), and the          *)
(* collector, which launches its own browser on the provider's profile     *)
(* (providerSessionManager.ts) and saves the login it finds there.         *)
(*                                                                         *)
(* They share files and nothing else: the saved session, the status with   *)
(* the sign-in's process id, the profile directory, and the metadata that  *)
(* says which session the profile was made from.  A login is the number of *)
(* the sign-in it comes from; what identifies a session (its hash) is that *)
(* number.  A file is written at once.                                     *)
(***************************************************************************)
EXTENDS Integers

CONSTANTS MaxLogin,    \* bound: sign-ins
          MaxLoginKill,\* bound: processes killed
          MaxReset,    \* bound: resets
          Overlaps     \* profiles are wiped under browsers that use them

ASSUME LoginAssumption ==
  /\ MaxLogin \in Nat /\ MaxLoginKill \in Nat /\ MaxReset \in Nat
  /\ Overlaps \in BOOLEAN

VARIABLES
  files,       \* session, status, profile directory and its metadata
  persistent,  \* the sign-in uses the collector's profile
  launcher,    \* spawnProviderAuthLogin in the web process
  signIn,      \* the sign-in process
  browserJob,  \* the collector's browser
  reset,       \* resetProviderAuthData
  loginSpent   \* sign-ins made, processes killed, resets done

loginVars ==
  <<files, persistent, launcher, signIn, browserJob, reset, loginSpent>>

NoLogin == 0
NoProfile == [exists |-> FALSE, login |-> NoLogin, owner |-> "nobody"]
NoSignIn == [step |-> "none", seed |-> NoLogin, login |-> NoLogin, kept |-> NoLogin]
NoBrowser == [step |-> "off", planned |-> NoLogin, bootstrap |-> FALSE,
              login |-> NoLogin, kept |-> NoLogin, resets |-> 0]

LoginInit ==
  /\ files = [session |-> NoLogin, seededBy |-> NoLogin, profile |-> NoProfile,
              connecting |-> FALSE, pid |-> FALSE]
  /\ persistent \in BOOLEAN
  /\ launcher = "idle"
  /\ signIn = NoSignIn
  /\ browserJob = NoBrowser
  /\ reset = "idle"
  /\ loginSpent = [login |-> 0, kill |-> 0, reset |-> 0]

-----------------------------------------------------------------------------
(* Files and processes. *)

Alive == signIn.step # "none"
StatusSays(connecting, pid) ==
  [files EXCEPT !.connecting = connecting, !.pid = pid]

\* findRunningRuntimeProfileProcess, in the list of processes.
SignInBrowser ==
  persistent /\ signIn.step \in {"seed", "open", "session", "status", "mark", "close"}
ProfileInUse ==
  SignInBrowser \/ browserJob.step \in {"seed", "mark", "running", "session", "status", "again"}

\* isAuthProviderReady: a saved session, and no sign-in under way.
Ready == files.session # NoLogin /\ ~(files.connecting /\ files.pid /\ Alive)

Let(process) == [files.profile EXCEPT !.owner = IF @ = process THEN "nobody" ELSE @]

\* What a browser stores reaches the directory it was started on.
Stored(process, login) ==
  IF files.profile.owner = process
  THEN [files.profile EXCEPT !.login = login] ELSE files.profile

-----------------------------------------------------------------------------
(* spawnProviderAuthLogin.  A second request for the provider is turned    *)
(* away while one is in here, and while the sign-in of an earlier one runs.*)

LaunchBegin ==
  /\ launcher = "idle"
  /\ ~(files.connecting /\ files.pid /\ Alive)
  /\ loginSpent.login < MaxLogin
  /\ files' = IF files.connecting THEN StatusSays(FALSE, FALSE) ELSE files
  /\ launcher' = "look"
  /\ UNCHANGED <<persistent, signIn, browserJob, reset, loginSpent>>

LaunchInUse ==
  /\ launcher = "look" /\ persistent /\ ProfileInUse
  /\ files' = StatusSays(FALSE, FALSE)
  /\ launcher' = "idle"
  /\ UNCHANGED <<persistent, signIn, browserJob, reset, loginSpent>>

LaunchAnnounce ==
  /\ launcher = "look" /\ ~(persistent /\ ProfileInUse)
  /\ files' = StatusSays(TRUE, FALSE)
  /\ launcher' = "spawn"
  /\ UNCHANGED <<persistent, signIn, browserJob, reset, loginSpent>>

\* (One that is closing its window has nothing left to write.)
LaunchSpawn ==
  /\ launcher = "spawn" /\ signIn.step \in {"none", "close"}
  /\ signIn' = [NoSignIn EXCEPT !.step = "start"]
  /\ files' = [files EXCEPT !.profile = Let("signIn")]
  /\ launcher' = "spawned"
  /\ UNCHANGED <<persistent, browserJob, reset, loginSpent>>

\* The status with the process id, the process perhaps gone already.
LaunchRecord ==
  /\ launcher = "spawned"
  /\ files' = StatusSays(TRUE, TRUE)
  /\ launcher' = "wait"
  /\ UNCHANGED <<persistent, signIn, browserJob, reset, loginSpent>>

\* waitForAuthLoginStartup: two seconds, or an early exit.
LaunchEnds ==
  /\ launcher = "wait"
  /\ files' = IF Alive THEN files ELSE StatusSays(FALSE, FALSE)
  /\ launcher' = "idle"
  /\ UNCHANGED <<persistent, signIn, browserJob, reset, loginSpent>>

LaunchEndsAnyhow ==
  /\ launcher = "wait" /\ ~Alive
  /\ launcher' = "idle"
  /\ UNCHANGED <<files, persistent, signIn, browserJob, reset, loginSpent>>

-----------------------------------------------------------------------------
(* runAuthLogin. *)

\* The saved session is read; a profile in use ends the sign-in.
SignInStart ==
  /\ signIn.step = "start"
  /\ IF persistent /\ browserJob.step \in {"seed", "mark", "running", "session", "status", "again"}
     THEN signIn' = NoSignIn /\ files' = StatusSays(FALSE, FALSE)
     ELSE signIn' = [signIn EXCEPT !.step = "launch", !.seed = files.session]
          /\ UNCHANGED files
  /\ UNCHANGED <<persistent, launcher, browserJob, reset, loginSpent>>

\* A window on the collector's profile, or one of its own; a new profile is
\* given the saved login, an old one is taken as it is.
SignInOpen ==
  /\ signIn.step = "launch"
  /\ Overlaps \/ ~persistent \/ browserJob.step \notin {"decide", "launch"}
  /\ IF ~persistent
     THEN signIn' = [signIn EXCEPT !.step = "open", !.login = signIn.seed]
          /\ UNCHANGED files
     ELSE IF files.profile.owner # "nobody"
     THEN signIn' = NoSignIn /\ files' = StatusSays(FALSE, FALSE)
     ELSE /\ signIn' = [signIn EXCEPT
               !.step = IF files.profile.exists THEN "open" ELSE "seed",
               !.login = files.profile.login]
          /\ files' = [files EXCEPT !.profile =
               [exists |-> TRUE, login |-> files.profile.login, owner |-> "signIn"]]
  /\ UNCHANGED <<persistent, launcher, browserJob, reset, loginSpent>>

SignInSeed ==
  /\ signIn.step = "seed"
  /\ signIn' = [signIn EXCEPT !.step = "open", !.login = signIn.seed]
  /\ files' = [files EXCEPT !.profile = Stored("signIn", signIn.seed)]
  /\ UNCHANGED <<persistent, launcher, browserJob, reset, loginSpent>>

\* The person signs in.
SignIn ==
  /\ signIn.step = "open" /\ loginSpent.login < MaxLogin
  /\ LET login == loginSpent.login + 1
     IN  /\ loginSpent' = [loginSpent EXCEPT !.login = login]
         /\ signIn' = [signIn EXCEPT !.login = login]
         /\ files' = [files EXCEPT !.profile = Stored("signIn", login)]
  /\ UNCHANGED <<persistent, launcher, browserJob, reset>>

\* The tracker takes a snapshot now and then; the last one is what is saved.
Snapshot ==
  /\ signIn.step = "open" /\ signIn.kept # signIn.login
  /\ signIn' = [signIn EXCEPT !.kept = signIn.login]
  /\ UNCHANGED <<files, persistent, launcher, browserJob, reset, loginSpent>>

\* The window is closed: without a snapshot the sign-in has failed.
WindowClosed ==
  /\ signIn.step = "open"
  /\ IF signIn.kept = NoLogin
     THEN signIn' = NoSignIn
          /\ files' = [StatusSays(FALSE, FALSE) EXCEPT !.profile = Let("signIn")]
     ELSE signIn' = [signIn EXCEPT !.step = "session"] /\ UNCHANGED files
  /\ UNCHANGED <<persistent, launcher, browserJob, reset, loginSpent>>

\* saveAuthSession: the session; then the metadata goes and the status says
\* that nobody is connecting.  saveRuntimeProviderAuthSession adds the mark.
SignInSession ==
  /\ signIn.step = "session"
  /\ files' = [files EXCEPT !.session = signIn.kept]
  /\ signIn' = [signIn EXCEPT !.step = "status"]
  /\ UNCHANGED <<persistent, launcher, browserJob, reset, loginSpent>>

SignInStatus ==
  /\ signIn.step = "status"
  /\ files' = [StatusSays(FALSE, FALSE) EXCEPT !.seededBy = NoLogin]
  /\ signIn' = [signIn EXCEPT !.step = IF persistent THEN "mark" ELSE "close"]
  /\ UNCHANGED <<persistent, launcher, browserJob, reset, loginSpent>>

SignInMark ==
  /\ signIn.step = "mark"
  /\ files' = [files EXCEPT !.seededBy = signIn.kept]
  /\ signIn' = [signIn EXCEPT !.step = "close"]
  /\ UNCHANGED <<persistent, launcher, browserJob, reset, loginSpent>>

SignInClose ==
  /\ signIn.step = "close"
  /\ files' = [files EXCEPT !.profile = Let("signIn")]
  /\ signIn' = NoSignIn
  /\ UNCHANGED <<persistent, launcher, browserJob, reset, loginSpent>>

-----------------------------------------------------------------------------
(* The collector.  handleProviderJob asks for a login; launchSession makes *)
(* the plan, wipes a profile that is not the session's, launches, adds the *)
(* session and says so.                                                    *)

JobReady ==
  /\ browserJob.step = "off" /\ Ready
  /\ browserJob' = [NoBrowser EXCEPT !.step = "plan"]
  /\ UNCHANGED <<files, persistent, launcher, signIn, reset, loginSpent>>

\* getRuntimeProfileSeedPlan reads the session, then the metadata.
PlanSession ==
  /\ browserJob.step = "plan"
  /\ browserJob' = [browserJob EXCEPT !.step = "decide", !.planned = files.session,
                                      !.resets = loginSpent.reset]
  /\ UNCHANGED <<files, persistent, launcher, signIn, reset, loginSpent>>

\* A variant for which any metadata will do.
NeedsSeedMarked(planned) ==
  planned # NoLogin /\ (files.seededBy = NoLogin \/ ~files.profile.exists)

NeedsSeed(planned) ==
  planned # NoLogin /\ (files.seededBy # planned \/ ~files.profile.exists)

\* Nothing here asks for a sign-in: Ready was asked before, and says so again
\* before the window on the profile is closed and the mark made.  Unless
\* Overlaps, no profile is judged while a sign-in has its window on it, and
\* no such window opens between the judgement and the launch.
PlanDecide ==
  /\ browserJob.step = "decide"
  /\ Overlaps \/ ~SignInBrowser
  /\ LET bootstrap == NeedsSeed(browserJob.planned)
     IN  /\ browserJob' = [browserJob EXCEPT !.step = "launch", !.bootstrap = bootstrap]
         /\ files' = IF bootstrap
                     THEN [files EXCEPT !.profile = NoProfile, !.seededBy = NoLogin]
                     ELSE files
  /\ UNCHANGED <<persistent, launcher, signIn, reset, loginSpent>>

\* Two browsers cannot use one directory.
BrowserLaunch ==
  /\ browserJob.step = "launch"
  /\ IF files.profile.owner # "nobody"
     THEN browserJob' = NoBrowser /\ UNCHANGED files
     ELSE /\ browserJob' = [browserJob EXCEPT
               !.step = IF browserJob.bootstrap THEN "seed" ELSE "running",
               !.login = files.profile.login]
          /\ files' = [files EXCEPT !.profile =
               [exists |-> TRUE, login |-> files.profile.login, owner |-> "job"]]
  /\ UNCHANGED <<persistent, launcher, signIn, reset, loginSpent>>

BrowserSeed ==
  /\ browserJob.step = "seed"
  /\ browserJob' = [browserJob EXCEPT !.step = "mark", !.login = browserJob.planned]
  /\ files' = [files EXCEPT !.profile = Stored("job", browserJob.planned)]
  /\ UNCHANGED <<persistent, launcher, signIn, reset, loginSpent>>

BrowserMark ==
  /\ browserJob.step = "mark"
  /\ browserJob' = [browserJob EXCEPT !.step = "running"]
  /\ files' = [files EXCEPT !.seededBy = browserJob.planned]
  /\ UNCHANGED <<persistent, launcher, signIn, reset, loginSpent>>

\* runPromptRunner saves the login of the page it found usable.
Capture ==
  /\ browserJob.step = "running" /\ persistent
  /\ browserJob.login # NoLogin /\ browserJob.kept = NoLogin
  /\ browserJob' = [browserJob EXCEPT !.step = "session", !.kept = browserJob.login]
  /\ UNCHANGED <<files, persistent, launcher, signIn, reset, loginSpent>>

CaptureSession ==
  /\ browserJob.step = "session"
  /\ files' = [files EXCEPT !.session = browserJob.kept]
  /\ browserJob' = [browserJob EXCEPT !.step = "status"]
  /\ UNCHANGED <<persistent, launcher, signIn, reset, loginSpent>>

CaptureStatus ==
  /\ browserJob.step = "status"
  /\ files' = [StatusSays(FALSE, FALSE) EXCEPT !.seededBy = NoLogin]
  /\ browserJob' = [browserJob EXCEPT !.step = "again"]
  /\ UNCHANGED <<persistent, launcher, signIn, reset, loginSpent>>

CaptureMark ==
  /\ browserJob.step = "again"
  /\ files' = [files EXCEPT !.seededBy = browserJob.kept]
  /\ browserJob' = [browserJob EXCEPT !.step = "running"]
  /\ UNCHANGED <<persistent, launcher, signIn, reset, loginSpent>>

\* Or the person signs in in the collector's own window.
SignInThere ==
  /\ browserJob.step = "running" /\ loginSpent.login < MaxLogin
  /\ LET login == loginSpent.login + 1
     IN  /\ loginSpent' = [loginSpent EXCEPT !.login = login]
         /\ browserJob' = [browserJob EXCEPT !.login = login]
         /\ files' = [files EXCEPT !.profile = Stored("job", login)]
  /\ UNCHANGED <<persistent, launcher, signIn, reset>>

BrowserClose ==
  /\ browserJob.step = "running"
  /\ files' = [files EXCEPT !.profile = Let("job")]
  /\ browserJob' = NoBrowser
  /\ UNCHANGED <<persistent, launcher, signIn, reset, loginSpent>>

-----------------------------------------------------------------------------
(* resetProviderAuthData, and processes that are killed with their browser.*)

ResetFiles ==
  /\ reset = "idle" /\ loginSpent.reset < MaxReset
  /\ Overlaps \/ ~ProfileInUse
  /\ reset' = "status"
  /\ loginSpent' = [loginSpent EXCEPT !.reset = @ + 1]
  /\ files' = [files EXCEPT !.session = NoLogin, !.profile = NoProfile,
                            !.seededBy = NoLogin]
  /\ UNCHANGED <<persistent, launcher, signIn, browserJob>>

ResetStatus ==
  /\ reset = "status"
  /\ reset' = "idle"
  /\ files' = StatusSays(FALSE, FALSE)
  /\ UNCHANGED <<persistent, launcher, signIn, browserJob, loginSpent>>

KillSignIn ==
  /\ Alive /\ loginSpent.kill < MaxLoginKill
  /\ loginSpent' = [loginSpent EXCEPT !.kill = @ + 1]
  /\ signIn' = NoSignIn
  /\ files' = [files EXCEPT !.profile = Let("signIn")]
  /\ UNCHANGED <<persistent, launcher, browserJob, reset>>

KillCollector ==
  /\ browserJob.step # "off" /\ loginSpent.kill < MaxLoginKill
  /\ loginSpent' = [loginSpent EXCEPT !.kill = @ + 1]
  /\ browserJob' = NoBrowser
  /\ files' = [files EXCEPT !.profile = Let("job")]
  /\ UNCHANGED <<persistent, launcher, signIn, reset>>

LoginNext ==
  \/ LaunchBegin \/ LaunchInUse \/ LaunchAnnounce \/ LaunchSpawn \/ LaunchRecord
  \/ LaunchEnds \/ LaunchEndsAnyhow
  \/ SignInStart \/ SignInOpen \/ SignInSeed \/ SignIn \/ Snapshot \/ WindowClosed
  \/ SignInSession \/ SignInStatus \/ SignInMark \/ SignInClose
  \/ JobReady \/ PlanSession \/ PlanDecide \/ BrowserLaunch \/ BrowserSeed
  \/ BrowserMark \/ Capture \/ CaptureSession \/ CaptureStatus \/ CaptureMark
  \/ SignInThere \/ BrowserClose
  \/ ResetFiles \/ ResetStatus \/ KillSignIn \/ KillCollector

LoginSpec == LoginInit /\ [][LoginNext]_loginVars

-----------------------------------------------------------------------------
LoginStep == {"off", "plan", "decide", "launch", "seed", "mark", "running",
              "session", "status", "again"}

\* The types; a profile marked as made from a session that is still the saved
\* one holds that login or a later one.
LoginTypeOK ==
  /\ files.session \in 0 .. MaxLogin /\ files.seededBy \in 0 .. MaxLogin
  /\ files.profile \in [exists : BOOLEAN, login : 0 .. MaxLogin,
                        owner : {"nobody", "signIn", "job"}]
  /\ launcher \in {"idle", "look", "spawn", "spawned", "wait"}
  /\ signIn.step \in {"none", "start", "launch", "seed", "open", "session",
                      "status", "mark", "close"}
  /\ browserJob.step \in LoginStep
  /\ loginSpent.kill \in 0 .. MaxLoginKill /\ loginSpent.reset \in 0 .. MaxReset

\* A browser the collector launched has the login that was saved when it was
\* planned, or a later one, unless everything was reset meanwhile: a sign-in
\* that ends during the launch, a killed launch or a killed sign-in never
\* leave a profile that passes for the session's and is not
\* (auth.ts:805-842, 941-984, providerSessionManager.ts:275-336).
LaunchedAsSaved ==
  browserJob.step = "running" /\ browserJob.resets = loginSpent.reset
    => browserJob.login >= browserJob.planned
=============================================================================
