---------------------------- MODULE MCControlPlane ----------------------------
(***************************************************************************)
(* The parts of the control plane beside the queue, which share no state:  *)
(* the remote collectors of a run, the detection schedules and the plan of *)
(* a detection's batches.  TLC checks them in one run: `part` picks the    *)
(* one that moves, the others stay where they are.                         *)
(***************************************************************************)
EXTENDS MCRemoteCollector, DetectionSchedule, RunPlan

VARIABLE part

controlVars == <<part, vars, scheduleVars, planVars>>

Parts == {"remote", "schedule", "plan"}

\* One request, and one state of the run, stand for the others where the plan
\* and the collectors stay where they are.
StillRequest == CHOOSE r \in PlanRequest : r.prompts = 1 /\ r.rounds = 1

ControlInit ==
  /\ part \in Parts
  /\ Init /\ ScheduleInit /\ PlanInit
  /\ part # "plan" => request = StillRequest
  /\ part # "remote" => run = "queued"

ControlNext ==
  \/ part = "remote" /\ Next /\ UNCHANGED <<part, scheduleVars, planVars>>
  \/ part = "schedule" /\ ScheduleNext /\ UNCHANGED <<part, vars, planVars>>
  \/ part = "plan" /\ PlanRound /\ UNCHANGED <<part, vars, scheduleVars>>

\* The fairness of RemoteCollector.  Where another part moves, the actions
\* named are disabled for good and this asks nothing.
ControlSpec ==
  /\ ControlInit /\ [][ControlNext]_controlVars
  /\ WF_vars(part = "remote" /\ Serve) /\ WF_vars(part = "remote" /\ ServeLate)
  /\ WF_vars(part = "remote" /\ Collect) /\ WF_vars(part = "remote" /\ GoOn)

\* The types of the components.
ControlTypeOK ==
  part \in Parts /\ TypeOK /\ ScheduleTypeOK /\ PlanTypeOK

\* EverySampleSettles where the collectors move and are only ever late with
\* uploads: whatever uploads fail, are repeated or come late, every sample the
\* user leaves alone is settled in the end, again and again.
RemoteSamplesSettle ==
  part = "remote" => (OnlyUploadsLost => EverySampleSettles)
=============================================================================
