-------------------------- MODULE PromptRunner_proofs -------------------------
(***************************************************************************)
(* For any number of prompts, any errors and any number of failing stores: *)
(* the types of PromptRunner, and the safety properties of a job.  Each    *)
(* part of the invariant is proved on its own, from the parts before it.   *)
(***************************************************************************)
EXTENDS PromptRunner, TLAPS

-----------------------------------------------------------------------------
(* Types, with the locals of the retry policy.                             *)

TypeInv == TypeOK /\ TryInv

LEMMA TypeInvInit == Init => TypeInv
<1> SUFFICES ASSUME Init PROVE TypeInv
  OBVIOUS
<1>1. JobOK
  <2>1. launch \in 0..Launches /\ at \in 1..N + 1
    BY RunnerAssumption DEF Init, Launches
  <2>2. storeFaults \in 0..MaxStoreFault
    BY RunnerAssumption DEF Init
  <2> QED
    BY <2>1, <2>2 DEF Init, JobOK
<1>2. PolicyOK
  BY DEF Init, PolicyOK, FirstTry, Attempts
<1>3. PageOK
  BY DEF Init, PageOK
<1>4. TryInv
  BY DEF Init, TryInv, Trying, FirstTry, Attempts, Launches
<1> QED
  BY <1>1, <1>2, <1>3, <1>4 DEF TypeInv, TypeOK

\* What a step leaves alone keeps its type.
LEMMA Same ==
  ASSUME TypeInv
  PROVE  /\ UNCHANGED <<launch, list, at, jobVars>> => JobOK'
         /\ UNCHANGED <<try, pc, err>> => PolicyOK'
         /\ UNCHANGED <<alive, pageVars, recorded>> => PageOK'
<1>1. UNCHANGED <<launch, list, at, jobVars>> => JobOK'
  BY DEF TypeInv, TypeOK, JobOK, jobVars
<1>2. UNCHANGED <<try, pc, err>> => PolicyOK'
  BY DEF TypeInv, TypeOK, PolicyOK
<1>3. UNCHANGED <<alive, pageVars, recorded>> => PageOK'
  BY DEF TypeInv, TypeOK, PageOK, pageVars
<1> QED
  BY <1>1, <1>2, <1>3

\* A position in front of the end, or at a prompt, has a next one.
LEMMA NextPosition ==
  ASSUME TypeInv, at \in Prompt
  PROVE  at + 1 \in 1..N + 1
BY RunnerAssumption DEF Prompt

\* The browser retry cycle and the stop signal keep the types.
LEMMA CycleTyped ==
  ASSUME TypeInv, Cycle \/ Stop
  PROVE  TypeInv'
<1> USE DEF TypeInv, TypeOK
<1>1. CASE Launch
  <2>1. JobOK'
    BY <1>1 DEF Launch, JobOK, TryInv, Launches, jobVars
  <2>2. PolicyOK'
    BY <1>1 DEF Launch, PolicyOK, Ended
  <2>3. PageOK'
    BY <1>1, Same DEF Launch
  <2>4. TryInv'
    BY <1>1 DEF Launch, TryInv, Trying
  <2> QED
    BY <2>1, <2>2, <2>3, <2>4
<1>2. CASE SetupWorks
  <2>1. JobOK'
    BY <1>2, RunnerAssumption DEF SetupWorks, JobOK, Prompt, jobVars, cycleVars
  <2>2. PolicyOK'
    BY <1>2 DEF SetupWorks, PolicyOK, Ended
  <2>3. PageOK'
    <3>1. sent' \in [Prompt -> Nat]
      BY <1>2 DEF SetupWorks, PageOK, pageVars
    <3> QED
      BY <1>2, <3>1 DEF SetupWorks, PageOK, pageVars
  <2>4. TryInv'
    BY <1>2 DEF SetupWorks, TryInv, Trying, cycleVars
  <2> QED
    BY <2>1, <2>2, <2>3, <2>4
<1>3. CASE LaunchFails
  <2>1. JobOK'
    BY <1>3, Same DEF LaunchFails, cycleVars
  <2>2. PolicyOK'
    BY <1>3 DEF LaunchFails, PolicyOK, Ended
  <2>3. PageOK'
    BY <1>3, Same DEF LaunchFails
  <2>4. TryInv'
    BY <1>3 DEF LaunchFails, TryInv, Trying, cycleVars
  <2> QED
    BY <2>1, <2>2, <2>3, <2>4
<1>4. CASE Overrun
  <2>1. JobOK'
    BY <1>4 DEF Overrun, JobOK, Abandon, TryInv, Trying, cycleVars
  <2>2. PolicyOK'
    BY <1>4 DEF Overrun, PolicyOK, Class
  <2>3. PageOK'
    BY <1>4, Same DEF Overrun
  <2>4. TryInv'
    BY <1>4 DEF Overrun, TryInv, Trying, cycleVars
  <2> QED
    BY <2>1, <2>2, <2>3, <2>4
<1>5. CASE LeftStored
  <2>1. JobOK'
    BY <1>5, RunnerAssumption DEF LeftStored, JobOK, NoPrompt, cycleVars
  <2>2. PolicyOK'
    BY <1>5, Same DEF LeftStored
  <2>3. PageOK'
    BY <1>5, Same DEF LeftStored
  <2>4. TryInv'
    BY <1>5 DEF LeftStored, TryInv, Trying, cycleVars
  <2> QED
    BY <2>1, <2>2, <2>3, <2>4
<1>6. CASE \E k \in Class : SetupFails(k)
  <2> PICK k \in Class : SetupFails(k)
    BY <1>6
  <2>1. JobOK'
    BY Same DEF SetupFails, cycleVars
  <2>2. PolicyOK'
    BY DEF SetupFails, PolicyOK
  <2>3. PageOK'
    BY Same DEF SetupFails
  <2>4. TryInv'
    BY DEF SetupFails, TryInv, Trying, cycleVars
  <2> QED
    BY <2>1, <2>2, <2>3, <2>4
<1>7. CASE Stop
  <2>1. JobOK'
    BY <1>7 DEF Stop, JobOK, Abandon, TryInv, Trying, cycleVars
  <2>2. PolicyOK'
    BY <1>7 DEF Stop, PolicyOK, Ended
  <2>3. PageOK'
    BY <1>7, Same DEF Stop
  <2>4. TryInv'
    BY <1>7 DEF Stop, TryInv, Trying, cycleVars, Ended
  <2> QED
    BY <2>1, <2>2, <2>3, <2>4
<1> QED
  BY <1>1, <1>2, <1>3, <1>4, <1>5, <1>6, <1>7 DEF Cycle

\* The loop over the prompts keeps the types.
LEMMA PromptsTyped ==
  ASSUME TypeInv, Prompts
  PROVE  TypeInv'
<1> USE DEF TypeInv, TypeOK
<1>1. CASE Skip
  <2>1. JobOK'
    BY <1>1, NextPosition DEF Skip, JobOK, NextPrompt, jobVars, cycleVars
  <2>2. PolicyOK'
    BY <1>1 DEF Skip, PolicyOK, NextPrompt
  <2>3. PageOK'
    BY <1>1, Same DEF Skip
  <2>4. TryInv'
    BY <1>1 DEF Skip, TryInv, Trying, NextPrompt, cycleVars
  <2> QED
    BY <2>1, <2>2, <2>3, <2>4
<1>2. CASE Return
  <2>1. JobOK'
    BY <1>2, Same DEF Return, cycleVars
  <2>2. PolicyOK'
    BY <1>2 DEF Return, PolicyOK, Ended
  <2>3. PageOK'
    BY <1>2, Same DEF Return
  <2>4. TryInv'
    BY <1>2 DEF Return, TryInv, Trying, cycleVars
  <2> QED
    BY <2>1, <2>2, <2>3, <2>4
<1>3. CASE PauseFails
  <2>1. JobOK'
    BY <1>3, Same DEF PauseFails, cycleVars
  <2>2. PolicyOK'
    BY <1>3 DEF PauseFails, PolicyOK, Class
  <2>3. PageOK'
    BY <1>3, Same DEF PauseFails
  <2>4. TryInv'
    BY <1>3 DEF PauseFails, TryInv, Trying, cycleVars
  <2> QED
    BY <2>1, <2>2, <2>3, <2>4
<1>4. CASE FreshConversation
  <2>1. JobOK'
    BY <1>4, Same DEF FreshConversation, cycleVars
  <2>2. PolicyOK'
    BY <1>4 DEF FreshConversation, PolicyOK, FirstTry, Attempts
  <2>3. PageOK'
    BY <1>4 DEF FreshConversation, PageOK, pageVars
  <2>4. TryInv'
    BY <1>4
    DEF FreshConversation, TryInv, Trying, FirstTry, Attempts, JobOK, cycleVars
  <2> QED
    BY <2>1, <2>2, <2>3, <2>4
<1>5. CASE Store
  <2>1. JobOK'
    BY <1>5, NextPosition
    DEF Store, JobOK, NextPrompt, TryInv, Trying, cycleVars
  <2>2. PolicyOK'
    BY <1>5 DEF Store, PolicyOK, NextPrompt
  <2>3. PageOK'
    BY <1>5, Same DEF Store
  <2>4. TryInv'
    BY <1>5 DEF Store, TryInv, Trying, NextPrompt, cycleVars
  <2> QED
    BY <2>1, <2>2, <2>3, <2>4
<1>6. CASE StoreFails
  <2>1. JobOK'
    BY <1>6, RunnerAssumption DEF StoreFails, JobOK, cycleVars
  <2>2. PolicyOK'
    BY <1>6 DEF StoreFails, PolicyOK, Class
  <2>3. PageOK'
    BY <1>6, Same DEF StoreFails
  <2>4. TryInv'
    BY <1>6 DEF StoreFails, TryInv, Trying, cycleVars
  <2> QED
    BY <2>1, <2>2, <2>3, <2>4
<1>7. CASE \E k \in SendErrors : FreshConversationFails(k)
  <2> PICK k \in SendErrors : FreshConversationFails(k)
    BY <1>7
  <2>1. JobOK'
    BY NextPosition
    DEF FreshConversationFails, JobOK, NextPrompt, jobVars, cycleVars
  <2>2. PolicyOK'
    BY DEF FreshConversationFails, PolicyOK, NextPrompt
  <2>3. PageOK'
    BY DEF FreshConversationFails, PageOK, JobOK, pageVars
  <2>4. TryInv'
    BY DEF FreshConversationFails, TryInv, Trying, NextPrompt, cycleVars
  <2> QED
    BY <2>1, <2>2, <2>3, <2>4
<1> QED
  BY <1>1, <1>2, <1>3, <1>4, <1>5, <1>6, <1>7 DEF Prompts

\* The attempts at a prompt keep the types.
LEMMA AttemptTyped ==
  ASSUME TypeInv, Attempt
  PROVE  TypeInv'
<1> USE DEF TypeInv, TypeOK
<1>1. CASE Send
  <2>1. JobOK'
    BY <1>1, Same DEF Send, cycleVars
  <2>2. PolicyOK'
    BY <1>1 DEF Send, PolicyOK
  <2>3. PageOK'
    BY <1>1 DEF Send, PageOK, TryInv, Trying, pageVars
  <2>4. TryInv'
    BY <1>1 DEF Send, TryInv, Trying, cycleVars
  <2> QED
    BY <2>1, <2>2, <2>3, <2>4
<1>2. CASE Reread
  <2>1. JobOK'
    BY <1>2, Same DEF Reread, cycleVars
  <2>2. PolicyOK'
    BY <1>2 DEF Reread, PolicyOK
  <2>3. PageOK'
    BY <1>2, Same DEF Reread
  <2>4. TryInv'
    BY <1>2 DEF Reread, TryInv, Trying, cycleVars
  <2> QED
    BY <2>1, <2>2, <2>3, <2>4
<1>3. CASE ReadWorks
  <2>1. JobOK'
    BY <1>3, Same DEF ReadWorks, cycleVars
  <2>2. PolicyOK'
    BY <1>3 DEF ReadWorks, PolicyOK
  <2>3. PageOK'
    BY <1>3 DEF ReadWorks, PageOK, TryInv, Trying, pageVars
  <2>4. TryInv'
    BY <1>3 DEF ReadWorks, TryInv, Trying, cycleVars
  <2> QED
    BY <2>1, <2>2, <2>3, <2>4
<1>4. CASE OpenAgain
  <2>1. JobOK'
    BY <1>4, Same DEF OpenAgain, cycleVars
  <2>2. PolicyOK'
    <3>1. try' = [n |-> try.n + 1, max |-> try.max, recover |-> FALSE,
                 fresh |-> TRUE]
      BY <1>4 DEF OpenAgain, PolicyOK
    <3>2. try.n + 1 \in 1..Attempts + 1
      BY <1>4 DEF OpenAgain, TryInv, Attempts
    <3> QED
      BY <1>4, <3>1, <3>2 DEF OpenAgain, PolicyOK
  <2>3. PageOK'
    BY <1>4 DEF OpenAgain, PageOK, TryInv, Trying, pageVars
  <2>4. TryInv'
    BY <1>4 DEF OpenAgain, TryInv, Trying, PolicyOK, Attempts, cycleVars
  <2> QED
    BY <2>1, <2>2, <2>3, <2>4
<1>5. CASE JudgeFatal
  <2>1. JobOK'
    BY <1>5, NextPosition
    DEF JudgeFatal, JobOK, GiveUp, NextPrompt, TryInv, Trying, jobVars,
        cycleVars
  <2>2. PolicyOK'
    BY <1>5 DEF JudgeFatal, PolicyOK, GiveUp, NextPrompt
  <2>3. PageOK'
    BY <1>5 DEF JudgeFatal, PageOK, TryInv, Trying, pageVars
  <2>4. TryInv'
    BY <1>5 DEF JudgeFatal, TryInv, Trying, GiveUp, NextPrompt, cycleVars
  <2> QED
    BY <2>1, <2>2, <2>3, <2>4
<1>6. CASE JudgeResend
  <2>1. JobOK'
    BY <1>6, Same DEF JudgeResend, cycleVars
  <2>2. PolicyOK'
    BY <1>6 DEF JudgeResend, PolicyOK, Judged, Resend, TryInv, Attempts
  <2>3. PageOK'
    BY <1>6 DEF JudgeResend, PageOK, TryInv, Trying, pageVars
  <2>4. TryInv'
    BY <1>6
    DEF JudgeResend, TryInv, Trying, PolicyOK, Judged, Resend, Attempts,
        cycleVars
  <2> QED
    BY <2>1, <2>2, <2>3, <2>4
<1>7. CASE JudgeRetry
  <2>1. JobOK'
    BY <1>7, Same DEF JudgeRetry, cycleVars
  <2>2. PolicyOK'
    <3>1. try' = [n |-> try.n + 1, max |-> try.max, fresh |-> try.fresh,
                 recover |-> try.recover \/ err \in SubmittedFailure]
      BY <1>7 DEF JudgeRetry, PolicyOK, Judged
    <3>2. try.n + 1 \in 1..Attempts + 1
      BY <1>7 DEF JudgeRetry, PolicyOK, TryInv, Attempts
    <3>3. (try.recover \/ err \in SubmittedFailure) \in BOOLEAN
      OBVIOUS
    <3>4. try' \in [n: 1..Attempts + 1, max: {Attempts, Attempts + 1},
                    recover: BOOLEAN, fresh: BOOLEAN]
      BY <3>1, <3>2, <3>3 DEF PolicyOK
    <3> QED
      BY <1>7, <3>4 DEF JudgeRetry, PolicyOK
  <2>3. PageOK'
    BY <1>7 DEF JudgeRetry, PageOK, TryInv, Trying, pageVars
  <2>4. TryInv'
    BY <1>7
    DEF JudgeRetry, TryInv, Trying, PolicyOK, Judged, Resend, Attempts,
        cycleVars
  <2> QED
    BY <2>1, <2>2, <2>3, <2>4
<1>8. CASE JudgeLast
  <2>1. JobOK'
    BY <1>8, NextPosition
    DEF JudgeLast, JobOK, GiveUp, NextPrompt, TryInv, Trying, jobVars,
        cycleVars
  <2>2. PolicyOK'
    BY <1>8 DEF JudgeLast, PolicyOK, GiveUp, NextPrompt
  <2>3. PageOK'
    BY <1>8 DEF JudgeLast, PageOK, TryInv, Trying, pageVars
  <2>4. TryInv'
    BY <1>8 DEF JudgeLast, TryInv, Trying, GiveUp, NextPrompt, cycleVars
  <2> QED
    BY <2>1, <2>2, <2>3, <2>4
<1>9. CASE \E k \in SendErrors : SendFails(k)
  <2> PICK k \in SendErrors : SendFails(k)
    BY <1>9
  <2>1. JobOK'
    BY Same DEF SendFails, cycleVars
  <2>2. PolicyOK'
    BY RunnerAssumption DEF SendFails, PolicyOK
  <2>3. PageOK'
    BY DEF SendFails, PageOK, TryInv, Trying, pageVars
  <2>4. TryInv'
    BY DEF SendFails, TryInv, Trying, cycleVars
  <2> QED
    BY <2>1, <2>2, <2>3, <2>4
<1>10. CASE \E k \in SendErrors : ResetFails(k)
  <2> PICK k \in SendErrors : ResetFails(k)
    BY <1>10
  <2>1. JobOK'
    BY NextPosition
    DEF ResetFails, JobOK, GiveUp, NextPrompt, TryInv, Trying, jobVars,
        cycleVars
  <2>2. PolicyOK'
    BY RunnerAssumption DEF ResetFails, PolicyOK, GiveUp, NextPrompt
  <2>3. PageOK'
    BY DEF ResetFails, PageOK, TryInv, Trying, pageVars
  <2>4. TryInv'
    BY DEF ResetFails, TryInv, Trying, GiveUp, NextPrompt, cycleVars
  <2> QED
    BY <2>1, <2>2, <2>3, <2>4
<1>11. CASE \E k \in SendErrors : OpenAgainFails(k)
  <2> PICK k \in SendErrors : OpenAgainFails(k)
    BY <1>11
  <2>1. JobOK'
    BY NextPosition
    DEF OpenAgainFails, JobOK, GiveUp, NextPrompt, TryInv, Trying, jobVars,
        cycleVars
  <2>2. PolicyOK'
    BY RunnerAssumption DEF OpenAgainFails, PolicyOK, GiveUp, NextPrompt
  <2>3. PageOK'
    BY DEF OpenAgainFails, PageOK, TryInv, Trying, pageVars
  <2>4. TryInv'
    BY DEF OpenAgainFails, TryInv, Trying, GiveUp, NextPrompt, cycleVars
  <2> QED
    BY <2>1, <2>2, <2>3, <2>4
<1>12. CASE \E k \in ReadErrors : ReadFails(k)
  <2> PICK k \in ReadErrors : ReadFails(k)
    BY <1>12
  <2>1. JobOK'
    BY Same DEF ReadFails, cycleVars
  <2>2. PolicyOK'
    BY RunnerAssumption DEF ReadFails, PolicyOK
  <2>3. PageOK'
    BY DEF ReadFails, PageOK, TryInv, Trying, pageVars
  <2>4. TryInv'
    BY DEF ReadFails, TryInv, Trying, cycleVars
  <2> QED
    BY <2>1, <2>2, <2>3, <2>4
<1> QED
  BY <1>1, <1>2, <1>3, <1>4, <1>5, <1>6, <1>7, <1>8, <1>9, <1>10, <1>11, <1>12
  DEF Attempt

\* The types are kept by every step.
LEMMA TypeInvStep == TypeInv /\ [Next]_vars => TypeInv'
<1> SUFFICES ASSUME TypeInv, [Next]_vars PROVE TypeInv'
  OBVIOUS
<1>1. CASE UNCHANGED vars
  BY <1>1 DEF TypeInv, TypeOK, JobOK, PolicyOK, PageOK, TryInv, Trying, vars
<1> QED
  BY <1>1, CycleTyped, PromptsTyped, AttemptTyped DEF Next, Runner

\* For every number of prompts, set of errors and number of failing stores,
\* the variables of runWithRetryCycles and below keep their types: a prompt
\* is tried three times at most.
THEOREM TypeCorrect == Spec => []TypeOK
<1>1. Spec => []TypeInv
  BY TypeInvInit, TypeInvStep, PTL DEF Spec
<1> QED
  BY <1>1, PTL DEF TypeInv
-----------------------------------------------------------------------------
(* The conversation an answer is read from.                                *)

\* The numbers that the invariants compare.
LEMMA Numbers ==
  ASSUME TypeInv
  PROVE  /\ sent \in [Prompt -> Nat] /\ at \in Nat /\ Prompt \subseteq Nat
         /\ try.n \in Nat \ {0} /\ try.max \in Nat /\ try.n <= try.max
         /\ try.max <= Attempts + 1 /\ Attempts = 2
         /\ Trying => at \in Prompt
BY RunnerAssumption
DEF TypeInv, TypeOK, JobOK, PolicyOK, PageOK, TryInv, Prompt, Attempts

\* What a retry makes of the locals of the policy, and of the page.
LEMMA Retried ==
  ASSUME TypeInv, JudgeRetry
  PROVE  /\ try'.n = try.n + 1 /\ try'.max = try.max /\ try'.fresh = try.fresh
         /\ try'.recover <=> try.recover \/ err \in SubmittedFailure
         /\ try'.recover => chat' = chat
         /\ chat' \in {chat, {}}
         /\ pc = "judge" /\ pc' = "try" /\ try.n < try.max /\ err \notin Fatal
         /\ UNCHANGED <<list, at, err, done, left, sent, owed>>
         /\ recorded' = recorded \cup {at}
<1>1. try' = [n |-> try.n + 1, max |-> try.max, fresh |-> try.fresh,
              recover |-> try.recover \/ err \in SubmittedFailure]
  BY DEF TypeInv, TypeOK, JudgeRetry, PolicyOK, Judged
<1>2. Judged.recover <=> try.recover \/ err \in SubmittedFailure
  BY DEF TypeInv, TypeOK, PolicyOK, Judged
<1> QED
  BY <1>1, <1>2 DEF JudgeRetry, cycleVars, jobVars

\* The page shows no prompt but the one that is being tried.
LEMMA ChatStep ==
  ASSUME TypeInv, ChatInv, [Next]_vars
  PROVE  ChatInv'
<1> USE DEF ChatInv
<1>1. CASE Launch
  BY <1>1 DEF Launch, pageVars
<1>2. CASE SetupWorks
  BY <1>2 DEF SetupWorks, pageVars
<1>3. CASE \E k \in Class : SetupFails(k)
  BY <1>3 DEF SetupFails, pageVars
<1>4. CASE LaunchFails
  BY <1>4 DEF LaunchFails, pageVars
<1>5. CASE Overrun
  BY <1>5 DEF Overrun, Abandon, pageVars
<1>6. CASE Stop
  BY <1>6 DEF Stop, Abandon, pageVars
<1>7. CASE LeftStored
  BY <1>7 DEF LeftStored, pageVars
<1>8. CASE Skip
  BY <1>8 DEF Skip, NextPrompt, pageVars
<1>9. CASE Return
  BY <1>9 DEF Return, pageVars
<1>10. CASE PauseFails
  BY <1>10 DEF PauseFails, pageVars
<1>11. CASE FreshConversation
  BY <1>11 DEF FreshConversation, FirstTry
<1>12. CASE \E k \in SendErrors : FreshConversationFails(k)
  BY <1>12 DEF FreshConversationFails, NextPrompt, pageVars
<1>13. CASE Store
  BY <1>13 DEF Store, NextPrompt, pageVars
<1>14. CASE StoreFails
  BY <1>14 DEF StoreFails, pageVars
<1>15. CASE Send
  BY <1>15 DEF Send
<1>16. CASE \E k \in SendErrors : SendFails(k)
  BY <1>16, RunnerAssumption DEF SendFails, Class, SubmittedFailure
<1>17. CASE Reread
  BY <1>17 DEF Reread, pageVars
<1>18. CASE ReadWorks
  BY <1>18 DEF ReadWorks
<1>19. CASE \E k \in ReadErrors : ReadFails(k)
  BY <1>19 DEF ReadFails
<1>20. CASE JudgeFatal
  BY <1>20 DEF JudgeFatal, GiveUp, NextPrompt, pageVars
<1>21. CASE JudgeResend
  BY <1>21 DEF JudgeResend, pageVars
<1>22. CASE JudgeRetry
  BY <1>22, Retried
<1>23. CASE \E k \in SendErrors : ResetFails(k)
  BY <1>23 DEF ResetFails, GiveUp, NextPrompt, pageVars
<1>24. CASE JudgeLast
  BY <1>24 DEF JudgeLast, GiveUp, NextPrompt, pageVars
<1>25. CASE OpenAgain
  BY <1>25 DEF OpenAgain
<1>26. CASE \E k \in SendErrors : OpenAgainFails(k)
  BY <1>26 DEF OpenAgainFails, GiveUp, NextPrompt, pageVars
<1>27. CASE UNCHANGED vars
  BY <1>27 DEF vars
<1> QED
  BY <1>1, <1>2, <1>3, <1>4, <1>5, <1>6, <1>7, <1>8, <1>9, <1>10, <1>11, <1>12,
     <1>13, <1>14, <1>15, <1>16, <1>17, <1>18, <1>19, <1>20, <1>21, <1>22,
     <1>23, <1>24, <1>25, <1>26, <1>27
  DEF Next, Runner, Cycle, Prompts, Attempt

\* For every number of prompts, and whatever fails on the way: executePrompt
\* and recoverSubmittedPrompt read an answer only from a conversation in which
\* this prompt, and no other, was asked.
THEOREM FreshConversations == Spec => []FreshBaseline
<1>1. Init => ChatInv
  BY DEF Init, ChatInv
<1>2. TypeInv /\ ChatInv /\ [Next]_vars => ChatInv'
  BY ChatStep
<1>3. ChatInv => FreshBaseline
  BY DEF ChatInv, FreshBaseline
<1> QED
  BY <1>1, <1>2, <1>3, TypeInvInit, TypeInvStep, PTL DEF Spec

-----------------------------------------------------------------------------
(* The number of submissions.                                              *)

\* What the decision for a fresh conversation makes of the locals.
LEMMA Resent ==
  ASSUME TypeInv, JudgeResend
  PROVE  /\ try.recover /\ ~try.fresh /\ try.n = Attempts
         /\ UNCHANGED <<at, sent>> /\ pc = "judge" /\ pc' = "again"
<1>1. try.recover /\ ~try.fresh
  BY DEF JudgeResend, Resend
<1> QED
  BY <1>1 DEF TypeInv, TryInv, JudgeResend, pageVars

\* The submissions of a prompt stay within the attempts made.
LEMMA SendsStep ==
  ASSUME TypeInv, SendsInv, SendsBounded, [Next]_vars
  PROVE  (SendsInv /\ SendsBounded)'
<1> USE DEF SendsInv, SendsBounded, Trying, Attempts
<1>1. CASE Launch
  BY <1>1 DEF Launch, pageVars
<1>2. CASE SetupWorks
  BY <1>2 DEF SetupWorks, pageVars
<1>3. CASE \E k \in Class : SetupFails(k)
  BY <1>3 DEF SetupFails, pageVars
<1>4. CASE LaunchFails
  BY <1>4 DEF LaunchFails, pageVars
<1>5. CASE Overrun
  BY <1>5 DEF Overrun, Abandon, pageVars
<1>6. CASE Stop
  BY <1>6 DEF Stop, Abandon, pageVars
<1>7. CASE LeftStored
  BY <1>7 DEF LeftStored, pageVars
<1>8. CASE Skip
  BY <1>8, Numbers DEF Skip, NextPrompt, pageVars, TypeInv, TryInv
<1>9. CASE Return
  BY <1>9 DEF Return, pageVars
<1>10. CASE PauseFails
  BY <1>10 DEF PauseFails, pageVars
<1>11. CASE FreshConversation
  BY <1>11, Numbers DEF FreshConversation, FirstTry, TypeInv, TypeOK, JobOK
<1>12. CASE \E k \in SendErrors : FreshConversationFails(k)
  BY <1>12, Numbers
  DEF FreshConversationFails, NextPrompt, pageVars, TypeInv, TryInv
<1>13. CASE Store
  BY <1>13, Numbers DEF Store, NextPrompt, pageVars, TypeInv, TryInv
<1>14. CASE StoreFails
  BY <1>14 DEF StoreFails, pageVars
<1>15. CASE Send
  BY <1>15, Numbers DEF Send, TypeInv, TryInv
<1>16. CASE \E k \in SendErrors : SendFails(k)
  BY <1>16, Numbers DEF SendFails, TypeInv, TryInv
<1>17. CASE Reread
  BY <1>17, Numbers DEF Reread, pageVars, TypeInv, TryInv
<1>18. CASE ReadWorks
  BY <1>18, Numbers DEF ReadWorks, TypeInv, TryInv
<1>19. CASE \E k \in ReadErrors : ReadFails(k)
  BY <1>19, Numbers DEF ReadFails, TypeInv, TryInv
<1>20. CASE JudgeFatal
  BY <1>20, Numbers
  DEF JudgeFatal, GiveUp, NextPrompt, pageVars, TypeInv, TryInv
<1>21. CASE JudgeResend
  <2>1. sent[at] < Attempts /\ Trying
    BY <1>21, Resent, Numbers
  <2> QED
    BY <1>21, <2>1, Resent
<1>22. CASE JudgeRetry
  <2>1. ~try.fresh /\ sent[at] <= try.n /\ Trying
    BY <1>22, Retried, Numbers DEF TypeInv, TryInv
  <2> QED
    BY <1>22, <2>1, Retried, Numbers
<1>23. CASE \E k \in SendErrors : ResetFails(k)
  BY <1>23, Numbers
  DEF ResetFails, GiveUp, NextPrompt, pageVars, TypeInv, TryInv
<1>24. CASE JudgeLast
  BY <1>24, Numbers
  DEF JudgeLast, GiveUp, NextPrompt, pageVars, TypeInv, TryInv
<1>25. CASE OpenAgain
  BY <1>25, Numbers DEF OpenAgain, TypeInv, TryInv
<1>26. CASE \E k \in SendErrors : OpenAgainFails(k)
  BY <1>26, Numbers
  DEF OpenAgainFails, GiveUp, NextPrompt, pageVars, TypeInv, TryInv
<1>27. CASE UNCHANGED vars
  BY <1>27 DEF vars
<1> QED
  BY <1>1, <1>2, <1>3, <1>4, <1>5, <1>6, <1>7, <1>8, <1>9, <1>10, <1>11, <1>12,
     <1>13, <1>14, <1>15, <1>16, <1>17, <1>18, <1>19, <1>20, <1>21, <1>22,
     <1>23, <1>24, <1>25, <1>26, <1>27
  DEF Next, Runner, Cycle, Prompts, Attempt

\* For every number of prompts and every chain of failures: a prompt is
\* submitted at most twice in a browser launch, by all the attempts of
\* executePromptWithRetry together.
THEOREM SubmissionsBounded == Spec => []SendsBounded
<1>1. Init => SendsInv /\ SendsBounded
  BY DEF Init, SendsInv, SendsBounded, Trying, Attempts
<1>2. TypeInv /\ SendsInv /\ SendsBounded /\ [Next]_vars
        => (SendsInv /\ SendsBounded)'
  BY SendsStep
<1> QED
  BY <1>1, <1>2, TypeInvInit, TypeInvStep, PTL DEF Spec

-----------------------------------------------------------------------------
(* What becomes of every prompt.                                           *)

\* The prompts that the loop has passed are accounted for.
LEMMA AccountStep ==
  ASSUME TypeInv, AccountInv, Accounted, [Next]_vars
  PROVE  (AccountInv /\ Accounted)'
<1> USE DEF AccountInv, Accounted, Executing
<1>1. CASE Launch
  BY <1>1 DEF Launch, jobVars
<1>2. CASE SetupWorks
  BY <1>2, RunnerAssumption
  DEF SetupWorks, cycleVars, jobVars, Prompt, TypeInv, TypeOK, JobOK
<1>3. CASE \E k \in Class : SetupFails(k)
  BY <1>3 DEF SetupFails, cycleVars, jobVars
<1>4. CASE LaunchFails
  BY <1>4 DEF LaunchFails, cycleVars, jobVars
<1>5. CASE Overrun
  BY <1>5 DEF Overrun, Abandon, cycleVars
<1>6. CASE Stop
  BY <1>6 DEF Stop, Abandon, cycleVars, Ended
<1>7. CASE LeftStored
  BY <1>7 DEF LeftStored, cycleVars
<1>8. CASE Skip
  BY <1>8, Numbers
  DEF Skip, NextPrompt, cycleVars, jobVars, TypeInv, TypeOK, JobOK
<1>9. CASE Return
  BY <1>9, RunnerAssumption
  DEF Return, cycleVars, jobVars, Prompt, TypeInv, TypeOK, JobOK
<1>10. CASE PauseFails
  BY <1>10 DEF PauseFails, cycleVars, jobVars
<1>11. CASE FreshConversation
  BY <1>11 DEF FreshConversation, cycleVars, jobVars
<1>12. CASE \E k \in SendErrors : FreshConversationFails(k)
  BY <1>12, Numbers
  DEF FreshConversationFails, NextPrompt, cycleVars, jobVars, TypeInv, TypeOK,
      JobOK
<1>13. CASE Store
  BY <1>13, Numbers
  DEF Store, NextPrompt, cycleVars, TypeInv, TypeOK, JobOK
<1>14. CASE StoreFails
  BY <1>14 DEF StoreFails, cycleVars
<1>15. CASE Send
  BY <1>15 DEF Send, cycleVars, jobVars
<1>16. CASE \E k \in SendErrors : SendFails(k)
  BY <1>16 DEF SendFails, cycleVars, jobVars
<1>17. CASE Reread
  BY <1>17 DEF Reread, cycleVars, jobVars
<1>18. CASE ReadWorks
  BY <1>18 DEF ReadWorks, cycleVars, jobVars
<1>19. CASE \E k \in ReadErrors : ReadFails(k)
  BY <1>19 DEF ReadFails, cycleVars, jobVars
<1>20. CASE JudgeFatal
  BY <1>20, Numbers
  DEF JudgeFatal, GiveUp, NextPrompt, cycleVars, jobVars, TypeInv, TypeOK,
      JobOK
<1>21. CASE JudgeResend
  BY <1>21 DEF JudgeResend, cycleVars, jobVars
<1>22. CASE JudgeRetry
  BY <1>22, Retried
<1>23. CASE \E k \in SendErrors : ResetFails(k)
  BY <1>23, Numbers
  DEF ResetFails, GiveUp, NextPrompt, cycleVars, jobVars, TypeInv, TypeOK,
      JobOK
<1>24. CASE JudgeLast
  BY <1>24, Numbers
  DEF JudgeLast, GiveUp, NextPrompt, cycleVars, jobVars, TypeInv, TypeOK, JobOK
<1>25. CASE OpenAgain
  BY <1>25 DEF OpenAgain, cycleVars, jobVars
<1>26. CASE \E k \in SendErrors : OpenAgainFails(k)
  BY <1>26, Numbers
  DEF OpenAgainFails, GiveUp, NextPrompt, cycleVars, jobVars, TypeInv, TypeOK,
      JobOK
<1>27. CASE UNCHANGED vars
  BY <1>27 DEF vars
<1> QED
  BY <1>1, <1>2, <1>3, <1>4, <1>5, <1>6, <1>7, <1>8, <1>9, <1>10, <1>11, <1>12,
     <1>13, <1>14, <1>15, <1>16, <1>17, <1>18, <1>19, <1>20, <1>21, <1>22,
     <1>23, <1>24, <1>25, <1>26, <1>27
  DEF Next, Runner, Cycle, Prompts, Attempt

\* For every number of prompts: when runPrompts returns, no prompt of the
\* launch is forgotten; it was completed, or a failed attempt was reported.
THEOREM PromptsAccounted == Spec => []Accounted
<1>1. Init => AccountInv /\ Accounted
  BY DEF Init, AccountInv, Executing, Accounted
<1>2. TypeInv /\ AccountInv /\ Accounted /\ [Next]_vars
        => (AccountInv /\ Accounted)'
  BY AccountStep
<1> QED
  BY <1>1, <1>2, TypeInvInit, TypeInvStep, PTL DEF Spec

\* What is completed lies behind the position in the job.
LEMMA DoneStep ==
  ASSUME TypeInv, DoneInv, [Next]_vars
  PROVE  DoneInv'
<1> USE DEF DoneInv, Executing, Trying, Ended
<1>1. CASE Launch
  BY <1>1 DEF Launch, jobVars
<1>2. CASE SetupWorks
  BY <1>2, Numbers DEF SetupWorks, cycleVars, jobVars, TypeInv, TypeOK, JobOK
<1>3. CASE \E k \in Class : SetupFails(k)
  BY <1>3 DEF SetupFails, cycleVars, jobVars
<1>4. CASE LaunchFails
  BY <1>4 DEF LaunchFails, cycleVars, jobVars
<1>5. CASE Overrun
  BY <1>5 DEF Overrun, Abandon, cycleVars
<1>6. CASE Stop
  BY <1>6 DEF Stop, Abandon, cycleVars
<1>7. CASE LeftStored
  BY <1>7 DEF LeftStored, cycleVars
<1>8. CASE Skip
  BY <1>8, Numbers
  DEF Skip, NextPrompt, cycleVars, jobVars, TypeInv, TypeOK, JobOK
<1>9. CASE Return
  BY <1>9 DEF Return, cycleVars, jobVars
<1>10. CASE PauseFails
  BY <1>10 DEF PauseFails, cycleVars, jobVars
<1>11. CASE FreshConversation
  BY <1>11 DEF FreshConversation, cycleVars, jobVars
<1>12. CASE \E k \in SendErrors : FreshConversationFails(k)
  BY <1>12, Numbers
  DEF FreshConversationFails, NextPrompt, cycleVars, jobVars, TypeInv, TypeOK,
      JobOK
<1>13. CASE Store
  BY <1>13, Numbers DEF Store, NextPrompt, cycleVars, TypeInv, TypeOK, JobOK
<1>14. CASE StoreFails
  BY <1>14 DEF StoreFails, cycleVars
<1>15. CASE Send
  BY <1>15 DEF Send, cycleVars, jobVars
<1>16. CASE \E k \in SendErrors : SendFails(k)
  BY <1>16 DEF SendFails, cycleVars, jobVars
<1>17. CASE Reread
  BY <1>17 DEF Reread, cycleVars, jobVars
<1>18. CASE ReadWorks
  BY <1>18 DEF ReadWorks, cycleVars, jobVars
<1>19. CASE \E k \in ReadErrors : ReadFails(k)
  BY <1>19 DEF ReadFails, cycleVars, jobVars
<1>20. CASE JudgeFatal
  BY <1>20, Numbers
  DEF JudgeFatal, GiveUp, NextPrompt, cycleVars, jobVars, TypeInv, TypeOK,
      JobOK
<1>21. CASE JudgeResend
  BY <1>21 DEF JudgeResend, cycleVars, jobVars
<1>22. CASE JudgeRetry
  BY <1>22, Retried
<1>23. CASE \E k \in SendErrors : ResetFails(k)
  BY <1>23, Numbers
  DEF ResetFails, GiveUp, NextPrompt, cycleVars, jobVars, TypeInv, TypeOK,
      JobOK
<1>24. CASE JudgeLast
  BY <1>24, Numbers
  DEF JudgeLast, GiveUp, NextPrompt, cycleVars, jobVars, TypeInv, TypeOK, JobOK
<1>25. CASE OpenAgain
  BY <1>25 DEF OpenAgain, cycleVars, jobVars
<1>26. CASE \E k \in SendErrors : OpenAgainFails(k)
  BY <1>26, Numbers
  DEF OpenAgainFails, GiveUp, NextPrompt, cycleVars, jobVars, TypeInv, TypeOK,
      JobOK
<1>27. CASE UNCHANGED vars
  BY <1>27 DEF vars
<1> QED
  BY <1>1, <1>2, <1>3, <1>4, <1>5, <1>6, <1>7, <1>8, <1>9, <1>10, <1>11, <1>12,
     <1>13, <1>14, <1>15, <1>16, <1>17, <1>18, <1>19, <1>20, <1>21, <1>22,
     <1>23, <1>24, <1>25, <1>26, <1>27
  DEF Next, Runner, Cycle, Prompts, Attempt

\* For every number of prompts, and wherever the execution limit, a crash or a
\* failing store ends a launch: runRetryCycle asks no completed prompt again.
THEOREM CompletedNotRepeated == Spec => CompletedNotAskedAgain
<1>1. Init => DoneInv
  BY DEF Init, DoneInv, Executing, Trying
<1>2. TypeInv /\ DoneInv /\ [Next]_vars => DoneInv'
  BY DoneStep
<1>3. TypeInv /\ DoneInv /\ [Next]_vars => [Send => at \notin done]_vars
  <2>1. TypeInv /\ DoneInv /\ Send => at \notin done
    BY Numbers DEF DoneInv, Send, Executing, Trying
  <2> QED
    BY <2>1
<1> QED
  BY <1>1, <1>2, <1>3, TypeInvInit, TypeInvStep, PTL
  DEF Spec, CompletedNotAskedAgain

-----------------------------------------------------------------------------
(* Re-reading before sending again.                                        *)

\* An answer that is owed will be re-read, unless the policy cannot tell.
LEMMA OwedStep ==
  ASSUME TypeInv, OwedInv, [Next]_vars
  PROVE  OwedInv'
<1> USE DEF OwedInv
<1>1. CASE Launch
  BY <1>1 DEF Launch, pageVars
<1>2. CASE SetupWorks
  BY <1>2 DEF SetupWorks, pageVars
<1>3. CASE \E k \in Class : SetupFails(k)
  BY <1>3 DEF SetupFails, pageVars
<1>4. CASE LaunchFails
  BY <1>4 DEF LaunchFails, pageVars
<1>5. CASE Overrun
  BY <1>5 DEF Overrun, Abandon, pageVars
<1>6. CASE Stop
  BY <1>6 DEF Stop, Abandon, pageVars
<1>7. CASE LeftStored
  BY <1>7 DEF LeftStored, pageVars
<1>8. CASE Skip
  BY <1>8 DEF Skip, NextPrompt, pageVars
<1>9. CASE Return
  BY <1>9 DEF Return, pageVars
<1>10. CASE PauseFails
  BY <1>10 DEF PauseFails, pageVars
<1>11. CASE FreshConversation
  BY <1>11 DEF FreshConversation
<1>12. CASE \E k \in SendErrors : FreshConversationFails(k)
  BY <1>12 DEF FreshConversationFails, NextPrompt, pageVars
<1>13. CASE Store
  BY <1>13 DEF Store, NextPrompt, pageVars
<1>14. CASE StoreFails
  BY <1>14 DEF StoreFails, pageVars
<1>15. CASE Send
  BY <1>15 DEF Send
<1>16. CASE \E k \in SendErrors : SendFails(k)
  BY <1>16 DEF SendFails
<1>17. CASE Reread
  BY <1>17 DEF Reread, pageVars
<1>18. CASE ReadWorks
  BY <1>18 DEF ReadWorks
<1>19. CASE \E k \in ReadErrors : ReadFails(k)
  BY <1>19, RunnerAssumption
  DEF ReadFails, ReadClass, SubmittedFailure, Unrecognised, Fatal
<1>20. CASE JudgeFatal
  BY <1>20 DEF JudgeFatal, GiveUp, NextPrompt, pageVars
<1>21. CASE JudgeResend
  BY <1>21 DEF JudgeResend, pageVars
<1>22. CASE JudgeRetry
  BY <1>22, Retried, Numbers DEF TypeInv, TryInv
<1>23. CASE \E k \in SendErrors : ResetFails(k)
  BY <1>23 DEF ResetFails, GiveUp, NextPrompt, pageVars
<1>24. CASE JudgeLast
  BY <1>24 DEF JudgeLast, GiveUp, NextPrompt, pageVars
<1>25. CASE OpenAgain
  BY <1>25 DEF OpenAgain
<1>26. CASE \E k \in SendErrors : OpenAgainFails(k)
  BY <1>26 DEF OpenAgainFails, GiveUp, NextPrompt, pageVars
<1>27. CASE UNCHANGED vars
  BY <1>27 DEF vars
<1> QED
  BY <1>1, <1>2, <1>3, <1>4, <1>5, <1>6, <1>7, <1>8, <1>9, <1>10, <1>11, <1>12,
     <1>13, <1>14, <1>15, <1>16, <1>17, <1>18, <1>19, <1>20, <1>21, <1>22,
     <1>23, <1>24, <1>25, <1>26, <1>27
  DEF Next, Runner, Cycle, Prompts, Attempt

\* For every number of prompts: the policy of executePromptWithRetry sends a
\* confirmed prompt again only after an error that it cannot tell from one
\* before the submission.
THEOREM RereadFirst == Spec => RereadBeforeResend
<1>1. Init => OwedInv
  BY DEF Init, OwedInv
<1>2. TypeInv /\ OwedInv /\ [Next]_vars => OwedInv'
  BY OwedStep
<1>3. OwedInv /\ [Next]_vars => [Send => (owed => err \in Unrecognised)]_vars
  BY DEF OwedInv, Send
<1> QED
  BY <1>1, <1>2, <1>3, TypeInvInit, TypeInvStep, PTL
  DEF Spec, RereadBeforeResend

=============================================================================
