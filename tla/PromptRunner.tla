----------------------------- MODULE PromptRunner -----------------------------
(***************************************************************************)
(* The prompts of one job on a provider's web page: the retry policy of a  *)
(* prompt under the loop over the prompts under the browser retry cycle.   *)
(*                                                                         *)
(*   core/prompt-runner/retryPolicy.ts    attempts at one prompt           *)
(*   core/prompt-runner/index.ts          the prompts of a browser launch  *)
(*   core/prompt-runner/executePrompt.ts  submit, read, validate, sources  *)
(*   lib/browser/proxy/runner.ts          launches, time limits, stop      *)
(*                                                                         *)
(* shouldUseProxyInMode is constantly false, so the branches of the code   *)
(* for proxies are dead: two attempts a prompt, two launches a job.  Dead  *)
(* as well is the resumption of a held page: nothing calls                 *)
(* preserveForHuman.  The providers are the four of a collection run, which*)
(* all have startFreshConversation; their jobs carry pacing delays.        *)
(*                                                                         *)
(* An error is its class, as far as the code tells errors apart:           *)
(*   "local"       neither of the below (submission, editor, time-out,...) *)
(*   "network"     a connection error; during set-up also a refusal (bot   *)
(*                 detection, rate limit), which ends the cycle alike      *)
(*   "crash"       the browser is gone                                     *)
(*   "challenge"   a human challenge        "expired"  logged out          *)
(* and, for errors after a confirmed submission, also                      *)
(*   "unread"      extraction failed, or fetchPromptResponses timed out    *)
(*   "incomplete"  the answer read was structurally incomplete             *)
(*   "plain"       no class of its own: source extraction timed out, the   *)
(*                 response was invalid, the page did not come to rest     *)
(***************************************************************************)
EXTENDS Naturals

CONSTANTS N,             \* prompts of the job
          SendErrors,    \* errors explored before a submission is confirmed
          ReadErrors,    \* errors explored after it
          MaxStoreFault  \* failing stores explored

Class == {"local", "network", "crash", "challenge", "expired"}
ReadClass == {"unread", "incomplete", "plain", "network", "crash", "challenge",
              "expired"}

ASSUME RunnerAssumption ==
  /\ N \in Nat \ {0}
  /\ SendErrors \subseteq Class /\ ReadErrors \subseteq ReadClass
  /\ MaxStoreFault \in Nat

Prompt == 1..N
NoPrompt == 0
Launches == 2     \* attemptsPerCycle
Attempts == 2     \* maxAttempts of a prompt

VARIABLES
  launch,      \* browser launches so far
  list,        \* the prompts of this launch, in the order of the job
  at,          \* the prompt it is at
  try,         \* executePromptWithRetry: its locals
  pc, err,     \* position, and the error being handled
  done,        \* completedByPromptId
  left,        \* a prompt whose store an abandoned executor still awaits
  stop,        \* the stop signal
  storeFaults, \* failing stores spent
  alive,       \* the browser runs
  chat,        \* prompts sent in the conversation that the page shows
  sent,        \* confirmed submissions of each prompt in this launch
  owed,        \* the submission in this conversation has not been re-read
  recorded     \* prompts of which a failed attempt was reported

cycleVars == <<launch, list>>
jobVars == <<done, left, stop, storeFaults>>
pageVars == <<chat, sent, owed>>
vars == <<launch, list, at, try, pc, err, done, left, stop, storeFaults, alive,
          chat, sent, owed, recorded>>

FirstTry == [n |-> 1, max |-> Attempts, recover |-> FALSE, fresh |-> FALSE]
Executing == pc \in {"prompt", "try", "read", "judge", "again", "store"}
BrowserSession == {"crash", "network"}
Fatal == {"challenge", "expired", "crash"}   \* never tried again
Ended == {"finished", "nothing", "stopped", "loggedOut", "blocked",
          "exhausted"}

Init ==
  /\ launch = 0 /\ list = Prompt /\ at = 1
  /\ try = FirstTry /\ pc = "launch" /\ err = "none"
  /\ done = {} /\ left = NoPrompt /\ stop = FALSE /\ storeFaults = 0
  /\ alive = FALSE /\ chat = {} /\ sent = [p \in Prompt |-> 0]
  /\ owed = FALSE /\ recorded = {}

-----------------------------------------------------------------------------
(* The browser retry cycle.                                                *)

\* Mutant of Launch: the list is not filtered.
LaunchUnfiltered ==
  /\ pc = "launch" /\ left = NoPrompt /\ list' = list
  /\ \/ stop /\ pc' = "stopped" /\ launch' = launch + 1
     \/ ~stop /\ pc' = "setup" /\ launch' = launch + 1
  /\ UNCHANGED <<at, try, err, jobVars, alive, pageVars, recorded>>

\* Mutant of Launch: a launch is not counted.
LaunchUncounted ==
  /\ pc = "launch" /\ left = NoPrompt
  /\ list' = list \ done
  /\ \/ list' = {} /\ pc' = "nothing"
     \/ list' # {} /\ stop /\ pc' = "stopped"
     \/ list' # {} /\ ~stop /\ pc' = "setup"
  /\ UNCHANGED <<launch, at, try, err, jobVars, alive, pageVars, recorded>>

\* A launch takes the prompts that are not completed.  The cycle comes here
\* after a pause of seconds and the closing of the browser; a store that an
\* executor left behind is over by then.
Launch ==
  /\ pc = "launch" /\ left = NoPrompt
  /\ list' = list \ done
  /\ \/ list' = {} /\ pc' = "nothing" /\ UNCHANGED launch
     \/ list' # {} /\ stop /\ pc' = "stopped" /\ launch' = launch + 1
     \/ list' # {} /\ ~stop /\ pc' = "setup" /\ launch' = launch + 1
  /\ UNCHANGED <<at, try, err, jobVars, alive, pageVars, recorded>>

SetupWorks ==
  /\ pc = "setup"
  /\ IF stop THEN pc' = "stopped" /\ UNCHANGED <<at, alive, pageVars>>
             ELSE /\ pc' = "prompt" /\ at' = 1 /\ alive' = TRUE /\ chat' = {}
                  /\ sent' = [p \in Prompt |-> 0] /\ owed' = FALSE
  /\ UNCHANGED <<cycleVars, try, err, jobVars, recorded>>

\* The set-up fails, or takes longer than its two minutes.
SetupFails(k) ==
  /\ pc = "setup" /\ pc' = "caught" /\ err' = k
  /\ UNCHANGED <<cycleVars, at, try, jobVars, alive, pageVars, recorded>>

\* What the cycle does with an error, after which it releases the browser.
LaunchFails ==
  /\ pc = "caught"
  /\ pc' = CASE err = "expired" -> "loggedOut"
             [] err = "challenge" -> "blocked"
             [] err = "network" -> "exhausted"
             [] OTHER -> IF launch < Launches THEN "launch" ELSE "exhausted"
  /\ err' = "none"
  /\ UNCHANGED <<cycleVars, at, try, jobVars, alive, pageVars, recorded>>

\* The executor is abandoned where it stands.  Its page goes away under it, so
\* it fails at its next wait, reporting at most a failed attempt; only a store
\* it awaits comes to an end.
Abandon ==
  left' = IF pc = "store" THEN at ELSE left

\* The execution time limit of the launch.
Overrun ==
  /\ Executing /\ Abandon /\ pc' = "caught" /\ err' = "local"
  /\ UNCHANGED <<cycleVars, at, try, done, stop, storeFaults, alive, pageVars,
                 recorded>>

\* The stop signal is raised; a running executor loses the race against it.
Stop ==
  /\ ~stop /\ pc \notin Ended /\ stop' = TRUE
  /\ \/ Executing /\ Abandon /\ pc' = "stopped"
     \/ ~Executing /\ UNCHANGED <<left, pc>>
  /\ UNCHANGED <<cycleVars, at, try, err, done, storeFaults, alive, pageVars,
                 recorded>>

LeftStored ==
  /\ left # NoPrompt
  /\ \/ done' = done \cup {left} /\ UNCHANGED storeFaults
     \/ /\ storeFaults < MaxStoreFault /\ storeFaults' = storeFaults + 1
        /\ UNCHANGED done
  /\ left' = NoPrompt
  /\ UNCHANGED <<cycleVars, at, try, pc, err, stop, alive, pageVars, recorded>>

-----------------------------------------------------------------------------
(* The prompts of a launch.                                                *)

NextPrompt == pc' = "prompt" /\ at' = at + 1 /\ UNCHANGED err

\* An error leaves executePromptWithRetry: one of the browser session ends
\* the launch, after any other the next prompt is taken.
GiveUp(k) ==
  \/ k \in BrowserSession /\ pc' = "caught" /\ err' = k /\ UNCHANGED at
  \/ k \notin BrowserSession /\ NextPrompt

\* A prompt that an earlier launch completed is not in the list.
Skip ==
  /\ pc = "prompt" /\ at \in Prompt \ list /\ NextPrompt
  /\ UNCHANGED <<cycleVars, try, jobVars, alive, pageVars, recorded>>

\* The loop is over: the executor returns what it has.
Return ==
  /\ pc = "prompt" /\ at = N + 1 /\ pc' = "finished"
  /\ UNCHANGED <<cycleVars, at, try, err, jobVars, alive, pageVars, recorded>>

\* The pause before every prompt but the first waits on the page.
PauseFails ==
  /\ pc = "prompt" /\ at \in list /\ ~alive
  /\ \E p \in list : p < at
  /\ pc' = "caught" /\ err' = "crash"
  /\ UNCHANGED <<cycleVars, at, try, jobVars, alive, pageVars, recorded>>

\* Mutant of FreshConversation: the conversation of the last prompt goes on.
FreshConversationSkipped ==
  /\ pc = "prompt" /\ at \in list /\ alive
  /\ owed' = FALSE /\ try' = FirstTry /\ pc' = "try"
  /\ UNCHANGED <<cycleVars, at, err, jobVars, alive, chat, sent, recorded>>

FreshConversation ==
  /\ pc = "prompt" /\ at \in list /\ alive
  /\ chat' = {} /\ owed' = FALSE /\ try' = FirstTry /\ pc' = "try"
  /\ UNCHANGED <<cycleVars, at, err, jobVars, alive, sent, recorded>>

\* Mutant of FreshConversationFails: nothing goes on record.
FreshConversationFailsUnrecorded(k) ==
  /\ pc = "prompt" /\ at \in list /\ alive
  /\ alive' = (k # "crash")
  /\ NextPrompt
  /\ UNCHANGED <<cycleVars, try, jobVars, pageVars, recorded>>

\* A fresh conversation that cannot be opened costs the prompt, whatever the
\* reason is.
FreshConversationFails(k) ==
  /\ pc = "prompt" /\ at \in list /\ alive
  /\ recorded' = recorded \cup {at}
  /\ alive' = (k # "crash")
  /\ NextPrompt
  /\ UNCHANGED <<cycleVars, try, jobVars, pageVars>>

\* onSampleComplete; a sample rejected for its conversation counts as well.
Store ==
  /\ pc = "store" /\ done' = done \cup {at} /\ NextPrompt
  /\ UNCHANGED <<cycleVars, try, left, stop, storeFaults, alive, pageVars,
                 recorded>>

StoreFails ==
  /\ pc = "store" /\ storeFaults < MaxStoreFault
  /\ storeFaults' = storeFaults + 1 /\ pc' = "caught" /\ err' = "local"
  /\ UNCHANGED <<cycleVars, at, try, done, left, stop, alive, pageVars,
                 recorded>>

-----------------------------------------------------------------------------
(* The attempts at one prompt.                                             *)

\* executePrompt submits, and the page confirms it.
Send ==
  /\ pc = "try" /\ ~try.recover
  /\ chat' = chat \cup {at} /\ sent' = [sent EXCEPT ![at] = @ + 1]
  /\ owed' = TRUE /\ pc' = "read"
  /\ UNCHANGED <<cycleVars, at, try, err, jobVars, alive, recorded>>

\* An unconfirmed submission may have gone out all the same.
SendFails(k) ==
  /\ pc = "try" /\ ~try.recover /\ chat' \in {chat, chat \cup {at}}
  /\ alive' = (k # "crash")
  /\ pc' = "judge" /\ err' = k
  /\ UNCHANGED <<cycleVars, at, try, jobVars, sent, owed, recorded>>

\* recoverSubmittedPrompt reads what the page shows and sends nothing.
Reread ==
  /\ pc = "try" /\ try.recover /\ pc' = "read"
  /\ UNCHANGED <<cycleVars, at, try, err, jobVars, alive, pageVars, recorded>>

ReadWorks ==
  /\ pc = "read" /\ pc' = "store" /\ owed' = FALSE
  /\ UNCHANGED <<cycleVars, at, try, err, jobVars, alive, chat, sent,
                 recorded>>

ReadFails(k) ==
  /\ pc = "read" /\ pc' = "judge" /\ err' = k
  /\ owed' = (owed /\ ~(try.recover /\ k = "incomplete"))
  /\ alive' = (k # "crash")
  /\ UNCHANGED <<cycleVars, at, try, jobVars, chat, sent, recorded>>

\* The failed attempt goes on record; then the policy decides.
SubmittedFailure == {"unread", "incomplete"}
Resend == err = "incomplete" /\ try.recover /\ ~try.fresh

\* Mutant of Judged: a failed extraction is not taken for a submission.
JudgedIncompleteOnly ==
  [try EXCEPT !.max = IF Resend /\ @ < try.n + 1 THEN try.n + 1 ELSE @,
              !.recover = @ \/ err = "incomplete"]

\* Mutant of Judged: two more attempts instead of one.
JudgedGenerous ==
  [try EXCEPT !.max = IF Resend THEN try.n + 2 ELSE @,
              !.recover = @ \/ err \in SubmittedFailure]

Judged == [try EXCEPT !.max = IF Resend /\ @ < try.n + 1 THEN try.n + 1 ELSE @,
                      !.recover = @ \/ err \in SubmittedFailure]

JudgeFatal ==
  /\ pc = "judge" /\ err \in Fatal /\ GiveUp(err)
  /\ recorded' = recorded \cup {at}
  /\ UNCHANGED <<cycleVars, try, jobVars, alive, pageVars>>

JudgeResend ==
  /\ pc = "judge" /\ Resend
  /\ try' = Judged /\ pc' = "again" /\ recorded' = recorded \cup {at}
  /\ UNCHANGED <<cycleVars, at, err, jobVars, alive, pageVars>>

\* The page is reset before an attempt that will submit again, after the
\* errors that call for it.
JudgeRetry ==
  /\ pc = "judge" /\ err \notin Fatal /\ ~Resend
  /\ try.n < try.max
  /\ try' = [Judged EXCEPT !.n = @ + 1] /\ pc' = "try"
  /\ recorded' = recorded \cup {at}
  /\ IF Judged.recover THEN UNCHANGED chat ELSE chat' \in {chat, {}}
  /\ UNCHANGED <<cycleVars, at, err, jobVars, alive, sent, owed>>

\* The reset fails, with an error of its own.
ResetFails(k) ==
  /\ pc = "judge" /\ err \notin Fatal /\ ~Resend
  /\ try.n < try.max /\ ~Judged.recover
  /\ recorded' = recorded \cup {at} /\ alive' = (k # "crash") /\ GiveUp(k)
  /\ UNCHANGED <<cycleVars, try, jobVars, pageVars>>

JudgeLast ==
  /\ pc = "judge" /\ err \notin Fatal /\ ~Resend
  /\ try.n = try.max /\ GiveUp(err)
  /\ recorded' = recorded \cup {at}
  /\ UNCHANGED <<cycleVars, try, jobVars, alive, pageVars>>

\* The one fresh conversation for an answer that stayed incomplete.
OpenAgain ==
  /\ pc = "again" /\ chat' = {} /\ owed' = FALSE
  /\ try' = [try EXCEPT !.n = @ + 1, !.fresh = TRUE, !.recover = FALSE]
  /\ pc' = "try"
  /\ UNCHANGED <<cycleVars, at, err, jobVars, alive, sent, recorded>>

OpenAgainFails(k) ==
  /\ pc = "again" /\ GiveUp(k) /\ alive' = (k # "crash")
 
  /\ UNCHANGED <<cycleVars, try, jobVars, pageVars, recorded>>

-----------------------------------------------------------------------------
Cycle ==
  \/ Launch \/ SetupWorks \/ LaunchFails \/ Overrun \/ LeftStored
  \/ \E k \in Class : SetupFails(k)

Prompts ==
  \/ Skip \/ Return \/ PauseFails \/ FreshConversation \/ Store \/ StoreFails
  \/ \E k \in SendErrors : FreshConversationFails(k)

Attempt ==
  \/ Send \/ Reread \/ ReadWorks \/ OpenAgain
  \/ JudgeFatal \/ JudgeResend \/ JudgeRetry \/ JudgeLast
  \/ \E k \in SendErrors : SendFails(k) \/ ResetFails(k) \/ OpenAgainFails(k)
  \/ \E k \in ReadErrors : ReadFails(k)

Runner == Cycle \/ Prompts \/ Attempt
Next == Runner \/ Stop
Spec == Init /\ [][Next]_vars

\* Every operation of the runner ends: it has a time limit of its own.
FairSpec == Spec /\ WF_vars(Runner)

-----------------------------------------------------------------------------
JobOK ==
  /\ launch \in 0..Launches /\ list \subseteq Prompt /\ at \in 1..N + 1
  /\ done \subseteq Prompt /\ left \in Prompt \cup {NoPrompt}
  /\ stop \in BOOLEAN /\ storeFaults \in 0..MaxStoreFault
PolicyOK ==
  /\ try \in [n: 1..Attempts + 1, max: {Attempts, Attempts + 1},
              recover: BOOLEAN, fresh: BOOLEAN]
  /\ pc \in Ended \cup {"launch", "setup", "caught", "prompt", "try", "read",
                        "judge", "again", "store"}
  /\ err \in Class \cup ReadClass \cup {"none"}
PageOK ==
  /\ alive \in BOOLEAN /\ chat \subseteq Prompt /\ sent \in [Prompt -> Nat]
  /\ owed \in BOOLEAN /\ recorded \subseteq Prompt

\* Types.  Three attempts at most, a third only for a fresh conversation.
TypeOK == JobOK /\ PolicyOK /\ PageOK

\* An answer is only ever read from a conversation in which this prompt, and
\* no other, was asked: whatever failed before, whether it is read for the
\* first time or again.
FreshBaseline == pc \in {"read", "store"} => chat = {at}

\* However attempts, re-reads and fresh conversations are chained, a prompt
\* is submitted at most twice in a browser launch.
SendsBounded == \A p \in Prompt : sent[p] <= Attempts

\* When the executor returns, each prompt of the launch is completed or has a
\* failed attempt on record ("every prompt has its own terminal failure
\* record").
Accounted ==
  pc = "finished" => list \subseteq done \cup recorded

\* A completed prompt is not sent again, whatever became of the launch that
\* completed it.
CompletedNotAskedAgain == [][Send => at \notin done]_vars

\* A confirmed submission is not sent again in this browser before its answer
\* has been re-read and found incomplete.
NoBlindResend == [][Send => ~owed]_vars

\* So it is after each error that the policy tells for one after submission:
\* only an error of no class of its own leads to a blind resend, or one of the
\* connection that leaves the browser running.
Unrecognised == {"plain", "network"}
RereadBeforeResend == [][Send => (owed => err \in Unrecognised)]_vars

-----------------------------------------------------------------------------
\* What makes these inductive.  The locals of the policy: a re-read is never
\* the first attempt, and the fresh conversation is the third and last one.
Trying == pc \in {"try", "read", "judge", "again", "store"}
TryInv ==
  /\ pc = "launch" => launch < Launches
  /\ Trying => at \in Prompt
  /\ try.n <= try.max
  /\ pc \in {"try", "read", "judge"} =>
       IF try.fresh THEN try.n = Attempts + 1 ELSE try.max = Attempts
  /\ pc \in {"try", "read", "judge"} /\ try.recover /\ ~try.fresh =>
       try.n = Attempts
  /\ pc = "again" => ~try.fresh /\ try.n = Attempts /\ try.max = Attempts + 1

\* The conversation that the page shows.
ChatInv ==
  /\ pc \in {"try", "judge"} => chat \subseteq {at}
  /\ pc \in {"read", "store"} => chat = {at}
  /\ pc = "try" /\ try.recover => chat = {at}
  /\ pc = "judge" /\ (try.recover \/ err \in SubmittedFailure) => chat = {at}

\* The position in the job and the submissions made so far.
SendsInv ==
  /\ Trying => \A p \in Prompt : p > at => sent[p] = 0
  /\ pc = "prompt" => \A p \in Prompt : p >= at => sent[p] = 0
  /\ pc = "try" => sent[at] < (IF try.fresh THEN Attempts ELSE try.n)
  /\ pc \in {"read", "judge"} /\ ~try.fresh =>
       sent[at] <= (IF try.recover THEN Attempts - 1 ELSE try.n)
  /\ pc = "again" => sent[at] < Attempts

\* What became of the prompts that the loop has passed.
AccountInv ==
  /\ Executing => \A p \in list : p < at => p \in done \cup recorded
  /\ pc = "again" => at \in recorded

\* What is completed lies behind, and no store is left to a later launch.
DoneInv ==
  /\ pc \in Ended \cup {"launch", "caught"} \/ left = NoPrompt
  /\ pc = "setup" => list \cap done = {}
  /\ Executing => \A p \in list : p >= at => p \notin done
  /\ Trying => at \in list

\* An answer that is owed is going to be re-read, or the attempt is the last.
OwedInv ==
  /\ pc = "try" /\ owed =>
       try.recover \/ (err \in Unrecognised /\ try.n = try.max)
  /\ pc = "judge" /\ owed =>
       \/ try.recover \/ try.n = try.max
       \/ err \in SubmittedFailure \cup Unrecognised \cup Fatal

-----------------------------------------------------------------------------
\* The job comes to an end.
RunnerEnds == <>(pc \in Ended)
=============================================================================
