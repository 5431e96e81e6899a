------------------------------- MODULE MCAgent -------------------------------
(***************************************************************************)
(* The parts of a provider job that share no state: the gate it waits at,  *)
(* the runner of its prompts, and the wait for one answer.  TLC checks     *)
(* them in one run: `part` picks the component that moves and the others   *)
(* stay where they are, so that a behaviour is one of that component.      *)
(***************************************************************************)
EXTENDS PromptRunner, ConcurrencyGate, AnswerWait

VARIABLE part

AgentPart == {"gate", "runner", "answer"}

agentVars == <<part, gateVars, vars, answerVars>>

\* The answers stay still in one of their initial states only, and which of its
\* texts are wanting matters only for an answer that is long enough.
AgentInit ==
  /\ part \in AgentPart
  /\ GateInit /\ Init /\ AnswerInit
  /\ answerPage.size # "long" => answerPage.wanting = {}
  /\ part # "answer" =>
       /\ answerPage.size = "long"
       /\ ~ answerPage.indicator /\ ~ answerPage.overview /\ answerPage.wanting = {}

AgentNext ==
  \/ part = "gate" /\ GateNext /\ UNCHANGED <<part, vars, answerVars>>
  \/ part = "runner" /\ Next /\ UNCHANGED <<part, gateVars, answerVars>>
  \/ part = "answer" /\ AnswerNext /\ UNCHANGED <<part, gateVars, vars>>

\* The fairness of the gate and of the runner.  Where another part moves, the
\* actions named are disabled for good and this asks nothing.
AgentSpec ==
  /\ AgentInit /\ [][AgentNext]_agentVars
  /\ GateFairness /\ WF_vars(part = "runner" /\ Runner)

\* The types of the three components.
AgentTypeOK ==
  /\ part \in AgentPart
  /\ TypeOK /\ GateTypeOK /\ AnswerTypeOK

\* RunnerEnds for the behaviours in which the runner is the part that moves:
\* whatever fails, the job comes to an end.
MovingRunnerEnds == part = "runner" => RunnerEnds
=============================================================================
