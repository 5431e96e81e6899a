------------------------- MODULE ControlPlane_proofs -------------------------
(***************************************************************************)
(* The parts of the control plane beside the queue, for every value of     *)
(* their constants: no occurrence of a schedule is started twice unless a  *)
(* belated write puts it back, no checkpoint of a remote collector is      *)
(* completed without a stored row, an uploaded sample stays unless it is   *)
(* reopened, and the batches of a detection are sound.  Each part has an   *)
(* inductive invariant of its own; as they share no state, the types of    *)
(* all of them hold together.                                              *)
(***************************************************************************)
EXTENDS MCControlPlane, SequenceTheorems, FiniteSetTheorems, WellFoundedInduction, TLAPS

-----------------------------------------------------------------------------
(* The detection schedules (DetectionSchedule).                            *)

\* An occurrence that is computed lies in the future.
LEMMA NextAtLater ==
  ASSUME NEW c \in Nat \ {0}, NEW t \in Nat
  PROVE  NextAt(c, t) \in Nat /\ NextAt(c, t) > t
<1> DEFINE q == t \div c
<1>1. q \in Nat /\ t % c \in 0 .. c - 1 /\ t = c * q + (t % c)
  BY SMT
<1>2. (q + 1) * c = c * q + c /\ (q + 1) * c \in Nat
  BY <1>1, SMT
<1> QED
  BY <1>1, <1>2 DEF NextAt

\* What the types do not say: a row that exists has the id of a request to
\* save, and nothing refers to a row that is still to be saved.
IdsInUse ==
  /\ schedule # NoSchedule => schedule.id \in 1 .. saves
  /\ \A w \in Pass : pass[w].step # "idle" => pass[w].row.id \in 1 .. saves
  /\ \A i \in DOMAIN claims : claims[i].id \in 1 .. saves
  /\ \A e \in Editor : edit[e].kind # "none" => edit[e].id \in 1 .. saves

\* A pass is about the past, and a request that enables the row says when.
TimesInOrder ==
  /\ \A w \in Pass : pass[w].now <= clock
  /\ \A e \in Editor :
       /\ edit[e].enabled => edit[e].nextRunAt \in Nat
       /\ edit[e].kind = "save" => edit[e].enabled /\ edit[e].cadence \in Cadence

\* No belated write came since the claim i.
Fresh(i) == ~belated.since /\ \A k \in i + 1 .. Len(claims) : ~claims[k].after

\* What was claimed lies before now, and before the next occurrence, unless a
\* belated write came since.
ClaimsPast ==
  \A i \in DOMAIN claims :
    /\ claims[i].at <= clock
    /\ Fresh(i) /\ schedule.enabled /\ schedule.id = claims[i].id
         => claims[i].at < schedule.nextRunAt

\* A row that a pass has read and may still claim was not saved since, unless
\* the write was belated.
ReadInForce ==
  \A w \in Pass :
    pass[w].step = "claim" /\ pass[w].row.id = schedule.id /\ IsDue(schedule, pass[w].now)
      => pass[w].row.cadence = schedule.cadence \/ w \in belated.reads

\* A pass between runs holds nothing, and one under way a row that was saved.
PassShape ==
  \A w \in Pass :
    /\ pass[w].step = "idle" => pass[w] = NoPass
    /\ pass[w].step # "idle" => pass[w].row.cadence \in Cadence

\* The inductive invariant of the schedules.
ScheduleInv ==
  /\ ScheduleTypeOK
  /\ schedule # NoSchedule => schedule.cadence \in Cadence
  /\ schedule.enabled => schedule # NoSchedule
  /\ IdsInUse /\ TimesInOrder /\ PassShape /\ ClaimsPast /\ ReadInForce
  /\ StartedOnceUnlessBelated

\* The types of a pass and of a claim.
PassType == [step : {"idle", "claim", "start"}, now : 0 .. MaxClock,
             row : [id : 0 .. MaxSave, cadence : Cadence \cup {0}]]
ClaimType == [id : 1 .. MaxSave, at : Int, read : Cadence, saved : Cadence,
              after : BOOLEAN, late : BOOLEAN]

\* It holds when there is no schedule yet.
LEMMA ScheduleInitInv == ScheduleInit => ScheduleInv
<1> SUFFICES ASSUME ScheduleInit PROVE ScheduleInv
  OBVIOUS
<1> USE ScheduleAssumption
<1>1. /\ NoSchedule \in Rows /\ NoSchedule.cadence = 0 /\ ~NoSchedule.enabled
      /\ NoPass \in PassType /\ NoPass.step = "idle" /\ NoPass.now = 0
      /\ NoEdit \in Edits /\ NoEdit.kind = "none" /\ ~NoEdit.enabled
  BY DEF NoSchedule, Rows, Never, NoPass, PassType, NoEdit, Edits
<1>2. /\ schedule = NoSchedule /\ clock = 0 /\ saves = 0 /\ claims = << >>
      /\ pass = [w \in Pass |-> NoPass] /\ edit = [e \in Editor |-> NoEdit]
      /\ belated = [since |-> FALSE, reads |-> {}]
  BY DEF ScheduleInit
<1>3. ScheduleTypeOK
  <2>1. pass \in [Pass -> PassType] /\ edit \in [Editor -> Edits]
    BY <1>1, <1>2
  <2>2. claims \in Seq(ClaimType) /\ belated \in [since : BOOLEAN, reads : SUBSET Pass]
    BY <1>2
  <2> QED
    BY <1>1, <1>2, <2>1, <2>2 DEF ScheduleTypeOK, PassType, ClaimType
<1> QED
  BY <1>1, <1>2, <1>3 DEF ScheduleInv, IdsInUse, TimesInOrder, PassShape,
     ClaimsPast, ReadInForce, StartedOnceUnlessBelated, StartedAsConfigured

\* The types of the parts of the state that the steps below need.
LEMMA ScheduleTypes ==
  ASSUME ScheduleInv
  PROVE  /\ schedule \in Rows /\ NoSchedule \in Rows /\ NoSchedule.id = 0
         /\ ~NoSchedule.enabled
         /\ clock \in Nat /\ saves \in Nat
         /\ pass \in [Pass -> PassType] /\ edit \in [Editor -> Edits]
         /\ claims \in Seq(ClaimType) /\ DOMAIN claims = 1 .. Len(claims)
         /\ Len(claims) \in Nat
         /\ \A w \in Pass : pass[w].now \in Nat
         /\ \A i \in DOMAIN claims : claims[i].at \in Int
         /\ belated.reads \subseteq Pass
<1> USE ScheduleAssumption
<1>1. NoSchedule \in Rows /\ NoSchedule.id = 0 /\ ~NoSchedule.enabled
  BY DEF NoSchedule, Rows, Never
<1>2. claims \in Seq(ClaimType)
  BY DEF ScheduleInv, ScheduleTypeOK, ClaimType
<1>3. DOMAIN claims = 1 .. Len(claims) /\ Len(claims) \in Nat
      /\ \A i \in DOMAIN claims : claims[i] \in ClaimType
  <2> HIDE DEF ClaimType
  <2> QED
    BY <1>2
<1>4. \A i \in DOMAIN claims : claims[i].at \in Int
  BY <1>3 DEF ClaimType
<1>5. schedule \in Rows /\ clock \in Nat /\ saves \in Nat /\ belated.reads \subseteq Pass
  BY DEF ScheduleInv, ScheduleTypeOK
<1>6. pass \in [Pass -> PassType] /\ edit \in [Editor -> Edits]
  BY DEF ScheduleInv, ScheduleTypeOK, PassType
<1>7. \A w \in Pass : pass[w].now \in Nat
  BY <1>6 DEF PassType
<1> QED
  BY <1>1, <1>2, <1>3, <1>4, <1>5, <1>6, <1>7

\* The types again, from those of the parts.
LEMMA ScheduleTyped ==
  ASSUME schedule \in Rows,
         schedule.enabled => schedule.cadence # 0 /\ schedule.nextRunAt # Never,
         clock \in 0 .. MaxClock, saves \in 0 .. MaxSave, pass \in [Pass -> PassType],
         edit \in [Editor -> Edits], claims \in Seq(ClaimType),
         belated \in [since : BOOLEAN, reads : SUBSET Pass]
  PROVE  ScheduleTypeOK
BY DEF ScheduleTypeOK, PassType, ClaimType

\* A request that computes what it will write disturbs nothing else.
LEMMA ComputeInv ==
  ASSUME ScheduleInv, NEW e \in Editor, NEW new \in Edits,
         edit' = [edit EXCEPT ![e] = new],
         saves' \in 0 .. MaxSave, saves <= saves', new.id \in 1 .. saves',
         new.enabled => new.nextRunAt \in Nat,
         new.kind = "save" => new.enabled /\ new.cadence \in Cadence,
         UNCHANGED <<schedule, clock, pass, claims, belated>>
  PROVE  ScheduleInv'
<1> USE ScheduleAssumption
<1>1. edit' \in [Editor -> Edits] /\ \A d \in Editor : edit'[d] = edit[d] \/ edit'[d] = new
  BY ScheduleTypes
<1>2. saves \in Nat /\ saves' \in Nat
  BY ScheduleTypes
<1>3. 1 .. saves \subseteq 1 .. saves'
  BY <1>2
<1>4. ScheduleTypeOK'
  BY <1>1 DEF ScheduleInv, ScheduleTypeOK
<1>5. IdsInUse'
  BY <1>1, <1>3 DEF ScheduleInv, IdsInUse
<1>6. TimesInOrder'
  BY <1>1 DEF ScheduleInv, TimesInOrder
<1> QED
  BY <1>4, <1>5, <1>6 DEF ScheduleInv, PassShape, ClaimsPast, Fresh, ReadInForce, IsDue,
     StartedOnceUnlessBelated, StartedAsConfigured

\* A request to save that begins.
LEMMA SaveComputeInv ==
  ASSUME ScheduleInv, NEW e \in Editor, SaveCompute(e)
  PROVE  ScheduleInv'
<1> USE ScheduleAssumption
<1>1. PICK c \in Cadence :
        edit' = [edit EXCEPT ![e] = [kind |-> "save", id |-> saves + 1, enabled |-> TRUE,
                                     cadence |-> c, nextRunAt |-> NextAt(c, clock)]]
  BY DEF SaveCompute
<1>2. clock \in Nat /\ saves \in Nat /\ saves < MaxSave /\ saves' = saves + 1
      /\ UNCHANGED <<schedule, clock, pass, claims, belated>>
  BY ScheduleTypes DEF SaveCompute
<1> DEFINE next == NextAt(c, clock)
           new == [kind |-> "save", id |-> saves + 1, enabled |-> TRUE,
                   cadence |-> c, nextRunAt |-> next]
<1>3. next \in Nat
  BY <1>2, NextAtLater
<1>4. edit' = [edit EXCEPT ![e] = new]
  BY <1>1
<1> HIDE DEF next
<1>5. /\ new \in Edits /\ new.id = saves + 1 /\ new.enabled /\ new.nextRunAt = next
      /\ new.cadence = c
  BY <1>2, <1>3 DEF Edits
<1> HIDE DEF new
<1>6. saves' \in 0 .. MaxSave /\ saves <= saves' /\ saves + 1 \in 1 .. saves'
  BY <1>2
<1> QED
  BY <1>2, <1>3, <1>4, <1>5, <1>6, ComputeInv

\* A request to pause or resume that begins.
LEMMA PauseReadInv ==
  ASSUME ScheduleInv, NEW e \in Editor, PauseRead(e)
  PROVE  ScheduleInv'
<1> USE ScheduleAssumption
<1>1. PICK on \in BOOLEAN :
        edit' = [edit EXCEPT ![e] =
          [kind |-> "pause", id |-> schedule.id, enabled |-> on, cadence |-> 0,
           nextRunAt |-> IF on THEN NextAt(schedule.cadence, clock) ELSE Never]]
  BY DEF PauseRead
<1>2. /\ schedule # NoSchedule /\ UNCHANGED <<schedule, clock, pass, saves, claims, belated>>
      /\ clock \in Nat /\ saves \in 0 .. MaxSave /\ schedule.cadence \in Nat \ {0}
      /\ schedule.id \in 1 .. saves
  BY ScheduleTypes DEF PauseRead, ScheduleInv, IdsInUse, ScheduleTypeOK
<1> DEFINE next == IF on THEN NextAt(schedule.cadence, clock) ELSE Never
           new == [kind |-> "pause", id |-> schedule.id, enabled |-> on, cadence |-> 0,
                   nextRunAt |-> next]
<1>3. next \in Int /\ (on => next \in Nat)
  <2>1. NextAt(schedule.cadence, clock) \in Nat
    BY <1>2, NextAtLater
  <2> QED
    BY <2>1 DEF Never
<1>4. edit' = [edit EXCEPT ![e] = new]
  BY <1>1
<1> HIDE DEF next
<1>5. /\ new \in Edits /\ new.id = schedule.id /\ new.enabled = on /\ new.nextRunAt = next
      /\ new.kind = "pause"
  BY <1>2, <1>3 DEF Edits
<1> HIDE DEF new
<1>6. /\ saves' = saves /\ saves' \in 0 .. MaxSave /\ saves <= saves' /\ new.id \in 1 .. saves'
      /\ (new.enabled => new.nextRunAt \in Nat) /\ new.kind # "save"
  BY <1>2, <1>3, <1>5
<1> QED
  BY <1>2, <1>4, <1>5, <1>6, ComputeInv

\* The write of a request: in time it names an occurrence after every claim,
\* which no pass finds due; belated it is recorded as such.
LEMMA RowWrittenInv ==
  ASSUME ScheduleInv, NEW e \in Editor, edit[e].kind # "none",
         schedule' \in Rows, schedule' # NoSchedule,
         schedule'.id \in 1 .. saves, schedule'.cadence \in Cadence,
         schedule'.enabled = edit[e].enabled, schedule'.nextRunAt = edit[e].nextRunAt,
         belated' = Belated(edit[e]), edit' = [edit EXCEPT ![e] = NoEdit],
         UNCHANGED <<clock, pass, saves, claims>>
  PROVE  ScheduleInv'
<1> USE ScheduleAssumption
<1>1. NoEdit \in Edits /\ NoEdit.kind = "none" /\ ~NoEdit.enabled
  BY DEF NoEdit, Edits, Never
<1>2. edit' \in [Editor -> Edits] /\ \A d \in Editor : edit'[d] = edit[d] \/ edit'[d] = NoEdit
  BY <1>1, ScheduleTypes
<1>3. edit[e].enabled => edit[e].nextRunAt \in Nat
  BY DEF ScheduleInv, TimesInOrder
<1>4. /\ belated' \in [since : BOOLEAN, reads : SUBSET Pass]
      /\ belated.since => belated'.since
      /\ belated.reads \subseteq belated'.reads
      /\ schedule'.enabled /\ schedule'.nextRunAt <= clock =>
           belated'.since /\ \A w \in Pass : pass[w].step = "claim" => w \in belated'.reads
  BY DEF Belated, ScheduleInv, ScheduleTypeOK
<1>5. ScheduleTypeOK'
  <2>1. schedule'.enabled => schedule'.cadence # 0 /\ schedule'.nextRunAt # Never
    BY <1>3 DEF Never
  <2>2. /\ clock' \in 0 .. MaxClock /\ saves' \in 0 .. MaxSave /\ pass' \in [Pass -> PassType]
        /\ claims' \in Seq(ClaimType)
    BY ScheduleTypes DEF ScheduleInv, ScheduleTypeOK
  <2> QED
    BY <1>2, <1>4, <2>1, <2>2 DEF ScheduleTypeOK, PassType, ClaimType
<1>6. IdsInUse' /\ TimesInOrder'
  BY <1>1, <1>2 DEF ScheduleInv, IdsInUse, TimesInOrder
<1>7. PassShape' /\ StartedOnceUnlessBelated'
  BY DEF ScheduleInv, PassShape, StartedOnceUnlessBelated, StartedAsConfigured
<1>8. ClaimsPast'
  <2> SUFFICES ASSUME NEW i \in DOMAIN claims
               PROVE  /\ claims[i].at <= clock
                      /\ Fresh(i)' /\ schedule'.enabled => claims[i].at < schedule'.nextRunAt
    BY DEF ClaimsPast
  <2>1. claims[i].at \in Int /\ claims[i].at <= clock /\ clock \in Nat
    BY ScheduleTypes DEF ClaimsPast, ScheduleInv
  <2>2. Fresh(i)' /\ schedule'.enabled => ~ (schedule'.nextRunAt <= clock)
    BY <1>4 DEF Fresh
  <2> QED
    BY <1>3, <2>1, <2>2
<1>9. ReadInForce'
  <2> SUFFICES ASSUME NEW w \in Pass, pass[w].step = "claim", schedule'.enabled,
                      schedule'.nextRunAt <= pass[w].now
               PROVE  w \in belated'.reads
    BY DEF ReadInForce, IsDue
  <2>1. pass[w].now \in Nat /\ pass[w].now <= clock /\ clock \in Nat
    BY ScheduleTypes DEF TimesInOrder, ScheduleInv
  <2>2. schedule'.nextRunAt <= clock
    BY <1>3, <2>1
  <2> QED
    BY <1>4, <2>2
<1> QED
  BY <1>5, <1>6, <1>7, <1>8, <1>9 DEF ScheduleInv

\* Saving the row.
LEMMA SaveWriteInv ==
  ASSUME ScheduleInv, NEW e \in Editor, SaveWrite(e)
  PROVE  ScheduleInv'
<1> USE ScheduleAssumption
<1> DEFINE c == edit[e].cadence
           next == edit[e].nextRunAt
           old == IF schedule = NoSchedule
                  THEN [NoSchedule EXCEPT !.id = edit[e].id] ELSE schedule
<1>1. /\ edit[e].kind = "save" /\ belated' = Belated(edit[e])
      /\ edit' = [edit EXCEPT ![e] = NoEdit] /\ UNCHANGED <<clock, pass, saves, claims>>
      /\ schedule' = [old EXCEPT !.enabled = TRUE, !.cadence = c, !.nextRunAt = next,
                                 !.lastError = FALSE]
  BY DEF SaveWrite
<1>2. /\ edit[e].enabled = TRUE /\ c \in Cadence /\ next \in Int
      /\ edit[e].id \in 1 .. saves /\ edit[e] \in Edits /\ saves \in 0 .. MaxSave
  <2>1. edit[e] \in Edits /\ saves \in 0 .. MaxSave
    BY ScheduleTypes DEF ScheduleInv, ScheduleTypeOK
  <2>2. edit[e].enabled /\ c \in Cadence /\ edit[e].id \in 1 .. saves
    BY <1>1 DEF ScheduleInv, TimesInOrder, IdsInUse
  <2> QED
    BY <2>1, <2>2 DEF Edits
<1>3. old \in Rows /\ old.id \in 1 .. saves
  <2>1. CASE schedule = NoSchedule
    <3>1. edit[e].id \in 0 .. MaxSave /\ NoSchedule \in Rows
      BY <1>2, ScheduleTypes
    <3>2. old = [NoSchedule EXCEPT !.id = edit[e].id]
      BY <2>1
    <3> HIDE DEF old
    <3> QED
      BY <1>2, <3>1, <3>2 DEF Rows
  <2>2. CASE schedule # NoSchedule
    BY <2>2, ScheduleTypes DEF ScheduleInv, IdsInUse
  <2> QED
    BY <2>1, <2>2
<1> HIDE DEF c, next, old
<1>4. /\ schedule' \in Rows /\ schedule'.id = old.id /\ schedule'.cadence = c
      /\ schedule'.enabled = TRUE /\ schedule'.nextRunAt = next
  BY <1>1, <1>2, <1>3 DEF Rows
<1>5. schedule' # NoSchedule
  BY <1>4, ScheduleTypes
<1> QED
  BY <1>1, <1>2, <1>3, <1>4, <1>5, RowWrittenInv DEF c, next

\* Pausing or resuming it, whatever was saved since it was read.
LEMMA PauseWriteInv ==
  ASSUME ScheduleInv, NEW e \in Editor, PauseWrite(e)
  PROVE  ScheduleInv'
<1> USE ScheduleAssumption
<1>1. /\ edit[e].kind = "pause" /\ edit' = [edit EXCEPT ![e] = NoEdit]
      /\ UNCHANGED <<clock, pass, saves, claims>>
      /\ edit[e] \in Edits /\ edit[e].id \in 1 .. saves
  BY ScheduleTypes DEF PauseWrite, ScheduleInv, IdsInUse
<1>2. CASE UNCHANGED <<schedule, belated>>
  <2>1. NoEdit \in Edits /\ NoEdit.kind = "none" /\ ~NoEdit.enabled
    BY DEF NoEdit, Edits, Never
  <2>2. /\ edit' \in [Editor -> Edits]
        /\ \A d \in Editor : edit'[d] = edit[d] \/ edit'[d] = NoEdit
    BY <1>1, <2>1, ScheduleTypes
  <2>3. ScheduleTypeOK'
    BY <1>1, <1>2, <2>2 DEF ScheduleInv, ScheduleTypeOK
  <2>4. IdsInUse' /\ TimesInOrder'
    BY <1>1, <1>2, <2>1, <2>2 DEF ScheduleInv, IdsInUse, TimesInOrder
  <2> QED
    BY <1>1, <1>2, <2>3, <2>4 DEF ScheduleInv, PassShape, ClaimsPast, Fresh, ReadInForce,
       IsDue, StartedOnceUnlessBelated, StartedAsConfigured
<1>3. CASE /\ schedule.id = edit[e].id /\ belated' = Belated(edit[e])
           /\ schedule' = [schedule EXCEPT !.enabled = edit[e].enabled,
                                           !.nextRunAt = edit[e].nextRunAt]
  <2>1. schedule # NoSchedule
    BY <1>1, <1>3, ScheduleTypes
  <2>2. schedule.cadence \in Cadence /\ schedule \in Rows
    BY <2>1, ScheduleTypes DEF ScheduleInv
  <2>3. edit[e].enabled \in BOOLEAN /\ edit[e].nextRunAt \in Int
    BY <1>1 DEF Edits
  <2>4. /\ schedule' \in Rows /\ schedule'.id = schedule.id
        /\ schedule'.cadence = schedule.cadence
        /\ schedule'.enabled = edit[e].enabled /\ schedule'.nextRunAt = edit[e].nextRunAt
    BY <1>3, <2>2, <2>3 DEF Rows
  <2>5. schedule' # NoSchedule
    <3>1. schedule'.id \in 1 .. saves /\ saves \in Nat
      BY <1>1, <1>3, <2>4, ScheduleTypes
    <3>2. schedule'.id # 0
      BY <3>1
    <3> QED
      BY <3>2, ScheduleTypes
  <2> QED
    BY <1>1, <1>3, <2>2, <2>4, <2>5, RowWrittenInv
<1> QED
  BY <1>2, <1>3 DEF PauseWrite

\* Deleting the row keeps it.
LEMMA DeleteScheduleInv ==
  ASSUME ScheduleInv, DeleteSchedule
  PROVE  ScheduleInv'
<1> USE ScheduleAssumption
<1>0. /\ schedule' = NoSchedule /\ UNCHANGED <<clock, pass, edit, saves, claims, belated>>
      /\ NoSchedule \in Rows /\ ~NoSchedule.enabled
  BY ScheduleTypes DEF DeleteSchedule
<1>1. ScheduleTypeOK'
  BY <1>0 DEF ScheduleInv, ScheduleTypeOK
<1> QED
  BY <1>0, <1>1 DEF ScheduleInv, IdsInUse, TimesInOrder, PassShape, ClaimsPast, ReadInForce,
     IsDue, StartedOnceUnlessBelated, StartedAsConfigured

\* A pass that ends, or stops: nothing else is disturbed.
LEMMA PassEndsInv ==
  ASSUME ScheduleInv, NEW w \in Pass, pass' = [pass EXCEPT ![w] = NoPass],
         schedule' \in Rows, schedule' = NoSchedule <=> schedule = NoSchedule,
         schedule'.id = schedule.id, schedule'.enabled = schedule.enabled,
         schedule'.cadence = schedule.cadence, schedule'.nextRunAt = schedule.nextRunAt,
         UNCHANGED <<clock, edit, saves, claims, belated>>
  PROVE  ScheduleInv'
<1> USE ScheduleAssumption
<1>0. NoPass.step = "idle" /\ NoPass.now = 0 /\ NoPass \in PassType
  BY DEF NoPass, PassType
<1>1. pass' \in [Pass -> PassType] /\ \A v \in Pass : pass'[v] = pass[v] \/ pass'[v] = NoPass
  BY <1>0, ScheduleTypes
<1>2. ScheduleTypeOK'
  BY <1>1 DEF ScheduleInv, ScheduleTypeOK, PassType
<1>3. IdsInUse'
  BY <1>0, <1>1 DEF ScheduleInv, IdsInUse
<1>4. TimesInOrder' /\ PassShape'
  BY <1>0, <1>1, ScheduleTypes DEF ScheduleInv, TimesInOrder, PassShape
<1>5. ReadInForce'
  BY <1>0, <1>1 DEF ScheduleInv, ReadInForce, IsDue
<1>6. ClaimsPast'
  BY DEF ScheduleInv, ClaimsPast, Fresh
<1> QED
  BY <1>2, <1>3, <1>4, <1>5, <1>6 DEF ScheduleInv, StartedOnceUnlessBelated, StartedAsConfigured

\* A pass that reads the row keeps it.
LEMMA ScheduleReadInv ==
  ASSUME ScheduleInv, NEW w \in Pass, ScheduleRead(w)
  PROVE  ScheduleInv'
<1> USE ScheduleAssumption
<1> DEFINE new == [step |-> "claim", now |-> clock,
                   row |-> [id |-> schedule.id, cadence |-> schedule.cadence]]
<1>0. /\ pass' = [pass EXCEPT ![w] = new] /\ belated' = [belated EXCEPT !.reads = @ \ {w}]
      /\ UNCHANGED <<schedule, clock, edit, saves, claims>> /\ schedule.enabled
  BY DEF ScheduleRead, IsDue
<1>1. /\ schedule # NoSchedule /\ schedule.cadence \in Cadence /\ schedule.id \in 1 .. saves
      /\ schedule \in Rows /\ clock \in 0 .. MaxClock
      /\ belated \in [since : BOOLEAN, reads : SUBSET Pass]
  BY <1>0 DEF ScheduleInv, IdsInUse, ScheduleTypeOK
<1>2. new \in PassType
  BY <1>1 DEF PassType, Rows
<1>3. /\ new.step = "claim" /\ new.now = clock /\ new.row.id = schedule.id
      /\ new.row.cadence = schedule.cadence
  OBVIOUS
<1> HIDE DEF new
<1>4. /\ pass' \in [Pass -> PassType]
      /\ \A v \in Pass : v # w => pass'[v] = pass[v]
      /\ pass'[w] = new
  BY <1>0, <1>2, ScheduleTypes
<1>5. /\ belated' \in [since : BOOLEAN, reads : SUBSET Pass] /\ belated'.since = belated.since
      /\ \A v \in Pass : v # w /\ v \in belated.reads => v \in belated'.reads
  BY <1>0, <1>1
<1>6. ScheduleTypeOK'
  BY <1>0, <1>4, <1>5 DEF ScheduleInv, ScheduleTypeOK, PassType
<1>7. IdsInUse'
  BY <1>0, <1>1, <1>3, <1>4 DEF ScheduleInv, IdsInUse
<1>8. TimesInOrder'
  BY <1>0, <1>1, <1>3, <1>4 DEF ScheduleInv, TimesInOrder
<1>9. PassShape'
  BY <1>0, <1>1, <1>3, <1>4 DEF ScheduleInv, PassShape
<1>10. ReadInForce'
  BY <1>0, <1>3, <1>4, <1>5 DEF ScheduleInv, ReadInForce, IsDue
<1>11. ClaimsPast'
  BY <1>0, <1>5 DEF ScheduleInv, ClaimsPast, Fresh
<1> QED
  BY <1>0, <1>6, <1>7, <1>8, <1>9, <1>10, <1>11
     DEF ScheduleInv, StartedOnceUnlessBelated, StartedAsConfigured

\* The claim keeps it: it takes an occurrence that is due, once, and names a
\* later one in the same statement.
LEMMA DispatchClaimInv ==
  ASSUME ScheduleInv, NEW w \in Pass, DispatchClaim(w)
  PROVE  ScheduleInv'
<1> USE ScheduleAssumption
<1> DEFINE row == pass[w].row
           now == pass[w].now
           next == NextAt(row.cadence, now)
           claim == [id |-> row.id, at |-> schedule.nextRunAt,
                     read |-> row.cadence, saved |-> schedule.cadence,
                     after |-> belated.since, late |-> w \in belated.reads]
<1>0. CASE /\ pass' = [pass EXCEPT ![w] = NoPass]
           /\ UNCHANGED <<schedule, clock, edit, saves, claims, belated>>
  BY <1>0, PassEndsInv, ScheduleTypes
<1>1. CASE /\ pass[w].step = "claim" /\ schedule.id = row.id /\ IsDue(schedule, now)
           /\ schedule' = [schedule EXCEPT !.nextRunAt = next]
           /\ claims' = Append(claims, claim)
           /\ belated' = [since |-> FALSE, reads |-> belated.reads \ {w}]
           /\ pass' = [pass EXCEPT ![w].step = "start"]
           /\ UNCHANGED <<clock, edit, saves>>
  <2>0. /\ schedule \in Rows /\ clock \in 0 .. MaxClock /\ saves \in 0 .. MaxSave
        /\ pass \in [Pass -> PassType] /\ claims \in Seq(ClaimType) /\ pass[w] \in PassType
        /\ edit \in [Editor -> Edits] /\ DOMAIN claims = 1 .. Len(claims)
        /\ Len(claims) \in Nat
        /\ belated \in [since : BOOLEAN, reads : SUBSET Pass]
    BY ScheduleTypes DEF ScheduleInv, ScheduleTypeOK
  <2>1. /\ schedule.enabled /\ schedule.nextRunAt \in Int /\ schedule.nextRunAt <= now
        /\ now \in 0 .. MaxClock /\ now <= clock
        /\ row.cadence \in Cadence /\ schedule.cadence \in Cadence
        /\ row.cadence = schedule.cadence \/ w \in belated.reads
        /\ row.id \in 1 .. saves /\ schedule # NoSchedule
    <3>1. schedule.enabled /\ schedule.nextRunAt <= now
      BY <1>1 DEF IsDue
    <3>2. schedule.nextRunAt \in Int /\ now \in 0 .. MaxClock
      BY <2>0 DEF Rows, PassType
    <3>3. now <= clock /\ row.cadence \in Cadence /\ row.id \in 1 .. saves
      BY <1>1 DEF ScheduleInv, TimesInOrder, PassShape, IdsInUse
    <3>4. row.cadence = schedule.cadence \/ w \in belated.reads
      BY <1>1 DEF ScheduleInv, ReadInForce
    <3>5. schedule # NoSchedule /\ schedule.cadence \in Cadence
      BY <3>1 DEF ScheduleInv
    <3> QED
      BY <3>1, <3>2, <3>3, <3>4, <3>5
  <2>2. next \in Nat /\ next > now
    <3> HIDE DEF row, now
    <3>1. row.cadence \in Cadence /\ now \in 0 .. MaxClock
      BY <2>1
    <3>2. row.cadence \in Nat \ {0}
      BY <3>1
    <3>3. now \in Nat
      BY <3>1
    <3> QED
      BY <3>2, <3>3, NextAtLater
  <2>3. /\ claim \in ClaimType /\ claim.id = schedule.id /\ claim.id \in 1 .. saves
        /\ claim.at = schedule.nextRunAt /\ claim.after = belated.since
        /\ claim.read = claim.saved \/ claim.late
    <3>1. /\ row.id \in 1 .. MaxSave /\ schedule.nextRunAt \in Int /\ row.cadence \in Cadence
          /\ schedule.cadence \in Cadence /\ belated.since \in BOOLEAN
      BY <2>0, <2>1
    <3>2. claim \in ClaimType
      <4> HIDE DEF row
      <4> QED
        BY <3>1 DEF ClaimType
    <3>3. row.cadence = schedule.cadence \/ w \in belated.reads
      BY <2>1
    <3>4. row.id = schedule.id /\ row.id \in 1 .. saves
      BY <1>1, <2>1
    <3> HIDE DEF row
    <3> QED
      BY <3>2, <3>3, <3>4
  <2> HIDE DEF next, claim
  <2>4. /\ schedule' \in Rows /\ schedule'.enabled /\ schedule'.id = schedule.id
        /\ schedule'.cadence = schedule.cadence /\ schedule'.nextRunAt = next
    <3>1. schedule' = [schedule EXCEPT !.nextRunAt = next] /\ next \in Int
      BY <1>1, <2>2 DEF next
    <3> QED
      BY <2>0, <2>1, <3>1 DEF Rows
  <2>5. /\ pass' \in [Pass -> PassType]
        /\ \A v \in Pass : /\ pass'[v].now = pass[v].now /\ pass'[v].row = pass[v].row
                           /\ pass'[v] = pass[v] \/ (v = w /\ pass'[v].step = "start")
    <3>1. pass' = [pass EXCEPT ![w].step = "start"]
      BY <1>1
    <3> HIDE <1>1
    <3> QED
      BY <2>0, <3>1 DEF PassType
  <2>6. /\ claims' \in Seq(ClaimType) /\ Len(claims') = Len(claims) + 1
        /\ DOMAIN claims' = 1 .. Len(claims) + 1
        /\ \A i \in 1 .. Len(claims) : claims'[i] = claims[i]
        /\ claims'[Len(claims) + 1] = claim
    <3>1. claim \in ClaimType /\ claims \in Seq(ClaimType) /\ claims' = Append(claims, claim)
      BY <1>1, <2>0, <2>3 DEF claim
    <3> QED
      BY <3>1, AppendProperties
  <2>16. /\ belated' \in [since : BOOLEAN, reads : SUBSET Pass] /\ ~belated'.since
         /\ \A v \in Pass : v # w /\ v \in belated.reads => v \in belated'.reads
    BY <1>1, <2>0
  <2>7. \A i \in 1 .. Len(claims) :
          /\ claims[i].at \in Int /\ claims[i].at <= clock /\ claims[i].id \in 1 .. saves
          /\ Fresh(i) /\ schedule.id = claims[i].id => claims[i].at < schedule.nextRunAt
          /\ claims[i].read = claims[i].saved \/ claims[i].late
    BY <2>0, <2>1, ScheduleTypes DEF ScheduleInv, ClaimsPast, IdsInUse,
       StartedOnceUnlessBelated, StartedAsConfigured
  \* A claim that is still fresh was so before, and no write was belated.
  <2>17. \A i \in 1 .. Len(claims) : Fresh(i)' => Fresh(i)
    <3> SUFFICES ASSUME NEW i \in 1 .. Len(claims), Fresh(i)' PROVE Fresh(i)
      OBVIOUS
    <3>1. \A k \in i + 1 .. Len(claims) + 1 : ~claims'[k].after
      BY <2>6 DEF Fresh
    <3>2. ~belated.since
      <4>1. Len(claims) + 1 \in i + 1 .. Len(claims) + 1
        BY <2>0
      <4> QED
        BY <2>3, <2>6, <3>1, <4>1
    <3>3. ASSUME NEW k \in i + 1 .. Len(claims) PROVE ~claims[k].after
      <4>1. k \in i + 1 .. Len(claims) + 1 /\ k \in 1 .. Len(claims)
        BY <2>0
      <4> QED
        BY <2>6, <3>1, <4>1
    <3> QED
      BY <3>2, <3>3 DEF Fresh
  <2>8. ScheduleTypeOK'
    <3>1. schedule'.cadence # 0 /\ schedule'.nextRunAt # Never
      BY <2>1, <2>2, <2>4 DEF Never
    <3>2. clock' \in 0 .. MaxClock /\ saves' \in 0 .. MaxSave /\ edit' \in [Editor -> Edits]
      BY <1>1, <2>0
    <3> QED
      BY <2>4, <2>5, <2>6, <2>16, <3>1, <3>2 DEF ScheduleTypeOK, PassType, ClaimType
  <2>9. IdsInUse'
    <3>1. \A v \in Pass : pass'[v].step # "idle" => pass'[v].row.id \in 1 .. saves
      BY <1>1, <2>1, <2>5 DEF ScheduleInv, IdsInUse
    <3>2. ASSUME NEW i \in DOMAIN claims' PROVE claims'[i].id \in 1 .. saves
      <4>1. CASE i \in 1 .. Len(claims)
        BY <2>6, <2>7, <4>1
      <4>2. CASE i = Len(claims) + 1
        BY <2>3, <2>6, <4>2
      <4> QED
        BY <2>0, <2>6, <3>2, <4>1, <4>2
    <3> QED
      BY <1>1, <2>3, <2>4, <3>1, <3>2 DEF ScheduleInv, IdsInUse
  <2>10. TimesInOrder'
    BY <1>1, <2>5 DEF ScheduleInv, TimesInOrder
  <2>11. PassShape'
    BY <1>1, <2>1, <2>5 DEF ScheduleInv, PassShape
  <2>12. ReadInForce'
    <3> SUFFICES ASSUME NEW v \in Pass, pass'[v].step = "claim", pass'[v].row.id = schedule'.id,
                        IsDue(schedule', pass'[v].now)
                 PROVE  pass'[v].row.cadence = schedule'.cadence \/ v \in belated'.reads
      BY DEF ReadInForce
    <3>1. /\ pass[v].step = "claim" /\ pass[v].row.id = schedule.id /\ v # w
          /\ pass[v].now \in 0 .. MaxClock /\ next <= pass[v].now
      <4>1. v # w /\ pass'[v] = pass[v]
        BY <1>1, <2>0, <2>5 DEF PassType
      <4>2. pass[v] \in PassType
        BY <2>0
      <4> QED
        BY <2>4, <4>1, <4>2 DEF PassType, IsDue
    <3>2. IsDue(schedule, pass[v].now)
      <4> HIDE DEF now
      <4> QED
        BY <2>1, <2>2, <3>1 DEF IsDue
    <3>3. pass[v].row.cadence = schedule.cadence \/ v \in belated.reads
      BY <3>1, <3>2 DEF ScheduleInv, ReadInForce
    <3> QED
      BY <2>4, <2>5, <2>16, <3>1, <3>3
  <2>13. ClaimsPast'
    <3>1. ASSUME NEW i \in DOMAIN claims'
          PROVE  /\ claims'[i].at <= clock
                 /\ Fresh(i)' /\ schedule.id = claims'[i].id => claims'[i].at < next
      <4>1. CASE i \in 1 .. Len(claims)
        <5>1. claims'[i] = claims[i]
          BY <2>6, <4>1
        <5>2. Fresh(i)' /\ schedule.id = claims[i].id => claims[i].at < schedule.nextRunAt
          BY <2>7, <2>17, <4>1
        <5>3. claims[i].at \in Int /\ claims[i].at <= clock
          BY <2>7, <4>1
        <5> HIDE DEF now
        <5> QED
          BY <2>1, <2>2, <5>1, <5>2, <5>3
      <4>2. CASE i = Len(claims) + 1
        <5>1. claims'[i].at = schedule.nextRunAt
          BY <2>3, <2>6, <4>2
        <5> HIDE DEF now
        <5> QED
          BY <2>0, <2>1, <2>2, <5>1
      <4> QED
        BY <2>0, <2>6, <3>1, <4>1, <4>2
    <3> QED
      BY <1>1, <2>4, <3>1 DEF ClaimsPast
  <2>14. StartedOnceUnlessBelated'
    <3>1. ASSUME NEW i \in DOMAIN claims' PROVE claims'[i].read = claims'[i].saved \/ claims'[i].late
      <4>1. CASE i \in 1 .. Len(claims)
        BY <2>6, <2>7, <4>1
      <4>2. CASE i = Len(claims) + 1
        BY <2>3, <2>6, <4>2
      <4> QED
        BY <2>0, <2>6, <3>1, <4>1, <4>2
    <3>2. ASSUME NEW i \in DOMAIN claims', NEW j \in DOMAIN claims',
                 i < j, claims'[i].id = claims'[j].id
          PROVE  claims'[i].at < claims'[j].at \/ \E k \in i + 1 .. j : claims'[k].after
      <4>0. i \in 1 .. Len(claims) /\ claims'[i] = claims[i]
        BY <2>0, <2>6, <3>2
      <4>1. CASE j \in 1 .. Len(claims)
        <5>1. claims'[j] = claims[j] /\ \A k \in i + 1 .. j : claims'[k] = claims[k]
          BY <2>0, <2>6, <4>0, <4>1
        <5>2. claims[i].at < claims[j].at \/ \E k \in i + 1 .. j : claims[k].after
          BY <2>0, <3>2, <4>0, <4>1, <5>1 DEF ScheduleInv, StartedOnceUnlessBelated
        <5> QED
          BY <4>0, <5>1, <5>2
      <4>2. CASE j = Len(claims) + 1
        <5>1. claims'[j] = claim /\ j \in i + 1 .. j
          BY <2>0, <2>6, <4>0, <4>2
        <5>2. CASE Fresh(i)
          BY <2>3, <2>7, <3>2, <4>0, <5>1, <5>2
        <5>3. CASE belated.since
          BY <2>3, <5>1, <5>3
        <5>4. CASE \E k \in i + 1 .. Len(claims) : claims[k].after
          <6>1. PICK k \in i + 1 .. Len(claims) : claims[k].after
            BY <5>4
          <6>2. k \in i + 1 .. j /\ claims'[k] = claims[k]
            BY <2>0, <2>6, <4>0, <4>2, <6>1
          <6> QED
            BY <6>1, <6>2
        <5> QED
          BY <5>2, <5>3, <5>4 DEF Fresh
      <4> QED
        BY <2>0, <2>6, <4>1, <4>2
    <3> QED
      BY <3>1, <3>2 DEF StartedOnceUnlessBelated, StartedAsConfigured
  <2>15. schedule' # NoSchedule
    BY <1>1, <2>0, <2>1, <2>4, ScheduleTypes
  <2> QED
    BY <2>15, <2>1, <2>4, <2>8, <2>9, <2>10, <2>11, <2>12, <2>13, <2>14 DEF ScheduleInv
<1> QED
  BY <1>0, <1>1 DEF DispatchClaim, ClaimIf

\* Starting the run of a claimed occurrence keeps it.
LEMMA DispatchStartInv ==
  ASSUME ScheduleInv, NEW w \in Pass, DispatchStart(w)
  PROVE  ScheduleInv'
<1> USE ScheduleAssumption
<1>0. /\ pass' = [pass EXCEPT ![w] = NoPass]
      /\ UNCHANGED <<clock, edit, saves, claims, belated>>
  BY DEF DispatchStart
<1>1. PICK fails \in BOOLEAN :
        schedule' = IF schedule.id # pass[w].row.id THEN schedule
                    ELSE IF fails THEN [schedule EXCEPT !.lastError = TRUE]
                    ELSE [schedule EXCEPT !.lastError = FALSE, !.lastRunAt = pass[w].now]
  BY DEF DispatchStart
<1>2. CASE schedule' = schedule
  BY <1>0, <1>2, PassEndsInv, ScheduleTypes
<1>3. CASE schedule' # schedule
  <2>1. schedule \in Rows /\ pass[w].now \in Int
    BY ScheduleTypes
  <2>2. \/ schedule' = [schedule EXCEPT !.lastError = TRUE]
        \/ schedule' = [schedule EXCEPT !.lastError = FALSE, !.lastRunAt = pass[w].now]
    BY <1>1, <1>3
  <2>3. /\ schedule' \in Rows /\ schedule'.id = schedule.id
        /\ schedule'.enabled = schedule.enabled /\ schedule'.cadence = schedule.cadence
        /\ schedule'.nextRunAt = schedule.nextRunAt
    <3>1. CASE schedule' = [schedule EXCEPT !.lastError = TRUE]
      BY <2>1, <3>1 DEF Rows
    <3>2. CASE schedule' = [schedule EXCEPT !.lastError = FALSE, !.lastRunAt = pass[w].now]
      BY <2>1, <3>2 DEF Rows
    <3> QED
      BY <2>2, <3>1, <3>2
  <2>4. schedule # NoSchedule /\ schedule' # NoSchedule
    <3>1. schedule.id = pass[w].row.id /\ pass[w].step # "idle"
      BY <1>1, <1>3 DEF DispatchStart
    <3>2. schedule.id \in 1 .. saves /\ saves \in Nat
      BY <3>1, ScheduleTypes DEF ScheduleInv, IdsInUse
    <3>3. schedule.id # 0 /\ schedule'.id # 0
      BY <2>3, <3>2
    <3> QED
      BY <3>3, ScheduleTypes
  <2> QED
    BY <1>0, <2>3, <2>4, PassEndsInv
<1> QED
  BY <1>2, <1>3

\* The passage of time keeps it.
LEMMA ScheduleTickInv ==
  ASSUME ScheduleInv, ScheduleTick
  PROVE  ScheduleInv'
<1> USE ScheduleAssumption
<1>0. /\ clock' = clock + 1 /\ clock' \in 0 .. MaxClock
      /\ UNCHANGED <<schedule, pass, edit, saves, claims, belated>>
  BY DEF ScheduleTick, ScheduleInv, ScheduleTypeOK
<1>1. ScheduleTypeOK'
  BY <1>0 DEF ScheduleInv, ScheduleTypeOK
<1>2. TimesInOrder'
  BY <1>0, ScheduleTypes DEF ScheduleInv, TimesInOrder
<1>3. ClaimsPast'
  BY <1>0, ScheduleTypes DEF ScheduleInv, ClaimsPast, Fresh
<1> QED
  BY <1>0, <1>1, <1>2, <1>3 DEF ScheduleInv, IdsInUse, PassShape, ReadInForce, IsDue,
     StartedOnceUnlessBelated, StartedAsConfigured

\* So every step of the schedules keeps it.
LEMMA ScheduleStepInv ==
  ASSUME ScheduleInv, [ScheduleNext]_scheduleVars
  PROVE  ScheduleInv'
<1>1. ASSUME NEW e \in Editor, EditStep(e)
      PROVE  ScheduleInv'
  BY <1>1, SaveComputeInv, SaveWriteInv, PauseReadInv, PauseWriteInv DEF EditStep
<1>2. CASE DeleteSchedule
  BY <1>2, DeleteScheduleInv
<1>3. ASSUME NEW w \in Pass, DispatchStep(w) \/ DispatchStops(w)
      PROVE  ScheduleInv'
  <2>1. CASE ScheduleRead(w)
    BY <2>1, ScheduleReadInv
  <2>2. CASE DispatchClaim(w)
    BY <2>2, DispatchClaimInv
  <2>3. CASE DispatchStart(w)
    BY <2>3, DispatchStartInv
  <2>4. CASE DispatchStops(w)
    BY <2>4, PassEndsInv, ScheduleTypes DEF DispatchStops
  <2> QED
    BY <1>3, <2>1, <2>2, <2>3, <2>4 DEF DispatchStep
<1>4. CASE ScheduleTick
  BY <1>4, ScheduleTickInv
<1>5. CASE UNCHANGED scheduleVars
  BY <1>5 DEF scheduleVars, ScheduleInv, ScheduleTypeOK, IdsInUse, TimesInOrder, PassShape,
     ClaimsPast, Fresh, ReadInForce, IsDue, StartedOnceUnlessBelated, StartedAsConfigured
<1> QED
  BY <1>1, <1>2, <1>3, <1>4, <1>5 DEF ScheduleNext

\* It holds in every state of every behaviour.
LEMMA ScheduleInductive == ScheduleSpec => []ScheduleInv
<1>1. ScheduleInit => ScheduleInv
  BY ScheduleInitInv
<1>2. ScheduleInv /\ [ScheduleNext]_scheduleVars => ScheduleInv'
  BY ScheduleStepInv
<1> QED
  BY <1>1, <1>2, PTL DEF ScheduleSpec

\* The schedule, its passes and its requests keep their types
\* (detectionSchedules.ts), with any number of passes and requests at once.
THEOREM ScheduleTypeCorrect == ScheduleSpec => []ScheduleTypeOK
<1>1. ScheduleInv => ScheduleTypeOK
  BY DEF ScheduleInv
<1> QED
  BY <1>1, ScheduleInductive, PTL

\* No occurrence of a schedule is started twice, and each as the row in force
\* says, unless a request to save or resume wrote, in between, an occurrence
\* that had fallen due since it was computed; and each such write undoes it
\* once.  So for any number of passes and requests, in every order of their
\* reads, claims and writes (detectionSchedules.ts:101-168, 212-234).
THEOREM StartedOnce == ScheduleSpec => []StartedOnceUnlessBelated
<1>1. ScheduleInv => StartedOnceUnlessBelated
  BY DEF ScheduleInv
<1> QED
  BY <1>1, ScheduleInductive, PTL

-----------------------------------------------------------------------------
(* The remote collectors (RemoteCollector).                                *)

\* The request the collector waits for belongs to where it stands.
CallMatches ==
  /\ client = "idle" => call.op \in {"none", "claim"}
  /\ call.op = "claim" => client = "idle"
  /\ client = "asking" => call.op = "none"
  /\ client \in {"prompting", "reporting"} <=> call.op = "attempt"
  /\ client = "uploading" <=> call.op = "sample"
  /\ client \in {"completing", "failing"} <=> call.op = "complete"
  /\ call.op = "none" => call.step = "done"
  /\ call.op \in {"attempt", "sample"} => call.set = cur
  /\ call.op = "complete" => call.set = task

\* Between tasks it holds none, and it has one sample in hand at a time.
InHand ==
  /\ client = "idle" => task = {}
  /\ client \in {"prompting", "uploading", "reporting"} => \E s \in Sample : cur = {s}

\* What a handler h has read, and what it is about to write, when there are r
\* rows: an upload names a row of its sample that exists.
HandlerShape(h, r) ==
  /\ h.op = "sample" =>
       \E s \in Sample : h.set = {s} /\ (h.step = "stored" => h.row \in 1 .. r[s])
  /\ h.op = "attempt" => h.status \in {"running", "failed"}
  /\ h.op = "complete" => h.status # "none"

\* The inductive invariant: the types, the shape of every request and handler,
\* and a row for every checkpoint that is completed.
StoredInv ==
  /\ TypeOK /\ CallMatches /\ InHand
  /\ \A h \in late \cup {call} : HandlerShape(h, rows)
  /\ CompletedHasRow

\* It holds when the run is queued.
LEMMA RemoteInitStored == Init => StoredInv
<1> SUFFICES ASSUME Init PROVE StoredInv
  OBVIOUS
<1> USE RemoteAssumption
<1>1. NoCall \in HandlerType /\ NoCall.op = "none" /\ NoCall.step = "done"
  BY DEF NoCall, HandlerType
<1>2. /\ ckpt \in [Sample -> CkptState] /\ named \in [Sample -> Nat] /\ rows \in [Sample -> Nat]
      /\ call \in HandlerType /\ late \subseteq HandlerType
      /\ \A h \in late : h.step \notin {"done", "lost"}
      /\ retry \in [step : {"none", "selected", "reopened"}, ids : SUBSET Sample]
  BY <1>1 DEF Init, NoRetry, CkptState, Open
<1>3. TypeOK
  <2>1. /\ run \in {"queued", "waiting_runner", "running"} \cup Terminal
        /\ client = "idle" /\ task = {} /\ todo = {} /\ done = {} /\ cur = {} /\ again = {}
    BY DEF Init
  <2>4. undone = {}
    BY DEF Init
  <2>2. /\ launch \in 0 .. 2 /\ losses \in 0 .. MaxLoss /\ crashes \in 0 .. MaxCrash
        /\ retries \in 0 .. MaxRetry
    BY DEF Init
  <2>3. freed \in BOOLEAN
    BY DEF Init
  <2> QED
    BY <1>2, <2>1, <2>2, <2>3, <2>4 DEF TypeOK
<1> QED
  BY <1>1, <1>3 DEF Init, StoredInv, CallMatches, InHand, HandlerShape, CompletedHasRow

\* A handler that has no more to write than before keeps its shape.
LEMMA HandlerKeepsShape ==
  ASSUME NEW h, NEW r \in [Sample -> Nat], NEW q \in [Sample -> Nat],
         \A s \in Sample : r[s] <= q[s], h.row \in Nat, HandlerShape(h, r)
  PROVE  HandlerShape(h, q)
<1>1. ASSUME h.op = "sample"
      PROVE  \E s \in Sample : h.set = {s} /\ (h.step = "stored" => h.row \in 1 .. q[s])
  <2>1. PICK s \in Sample : h.set = {s} /\ (h.step = "stored" => h.row \in 1 .. r[s])
    BY <1>1 DEF HandlerShape
  <2>2. r[s] \in Nat /\ q[s] \in Nat /\ r[s] <= q[s]
    OBVIOUS
  <2> QED
    BY <2>1, <2>2
<1> QED
  BY <1>1 DEF HandlerShape

\* A step of a handler that leaves the request and its kind alone.
LEMMA HandlerStepStored ==
  ASSUME StoredInv, NEW h \in Handlers, NEW h2 \in HandlerType,
         h2.op = h.op, h2.set = h.set, h2.step # "lost", HandlerShape(h2, rows'),
         Proceed(h, h2), UNCHANGED <<clientVars, userVars, losses, crashes>>,
         ckpt' \in [Sample -> CkptState], named' \in [Sample -> Nat], rows' \in [Sample -> Nat],
         \A s \in Sample : rows[s] <= rows'[s],
         run' \in {"queued", "waiting_runner", "running"} \cup Terminal,
         undone' \subseteq Sample, CompletedHasRow'
  PROVE  StoredInv'
<1>1. /\ call \in HandlerType /\ late \subseteq HandlerType /\ rows \in [Sample -> Nat]
      /\ \A g \in late : g.step \notin {"done", "lost"}
  BY DEF StoredInv, TypeOK
<1>2. /\ call' \in HandlerType /\ late' \subseteq HandlerType
      /\ \A g \in late' : g.step \notin {"done", "lost"}
      /\ \A g \in late' \cup {call'} : g = h2 \/ g \in late \cup {call}
      /\ call'.op = call.op /\ call'.set = call.set
      /\ call.op = "none" => call' = call
  <2>1. CASE h = call
    <3>1. call' = h2 /\ late' = late
      BY <2>1 DEF Proceed
    <3>2. call.op # "none"
      BY <1>1, <2>1 DEF Handlers, StoredInv, CallMatches
    <3> QED
      BY <1>1, <2>1, <3>1, <3>2
  <2>2. CASE h # call
    <3>1. /\ call' = call /\ h \in late
          /\ late' = (late \ {h}) \cup (IF h2.step = "done" THEN {} ELSE {h2})
      BY <2>2 DEF Proceed, Handlers
    <3> QED
      BY <1>1, <3>1
  <2> QED
    BY <2>1, <2>2
<1>3. TypeOK'
  BY <1>2 DEF StoredInv, TypeOK, clientVars, userVars
<1>4. CallMatches' /\ InHand'
  BY <1>2 DEF StoredInv, CallMatches, InHand, clientVars
<1>5. ASSUME NEW g \in late' \cup {call'} PROVE HandlerShape(g, rows')
  <2>1. CASE g = h2
    BY <2>1
  <2>2. CASE g \in late \cup {call}
    <3>1. HandlerShape(g, rows) /\ g.row \in Nat
      BY <1>1, <2>2 DEF StoredInv, HandlerType
    <3> QED
      BY <1>1, <3>1, HandlerKeepsShape
  <2> QED
    BY <1>2, <1>5, <2>1, <2>2
<1> QED
  BY <1>3, <1>4, <1>5 DEF StoredInv

\* Every step of a handler, in time or late, keeps it.
LEMMA ServeStored ==
  ASSUME StoredInv, Serve
  PROVE  StoredInv'
<1> USE RemoteAssumption
<1>0. /\ UNCHANGED <<clientVars, userVars, losses, crashes>>
      /\ call \in HandlerType /\ late \subseteq HandlerType
      /\ ckpt \in [Sample -> CkptState] /\ named \in [Sample -> Nat] /\ rows \in [Sample -> Nat]
      /\ run \in {"queued", "waiting_runner", "running"} \cup Terminal
      /\ CompletedHasRow /\ undone \subseteq Sample
  BY DEF Serve, StoredInv, TypeOK
<1>1. PICK h \in Handlers : HandlerStep(h)
  BY DEF Serve
<1>2. h \in late \cup {call} /\ h \in HandlerType /\ HandlerShape(h, rows)
  BY <1>0 DEF Handlers, StoredInv
<1>3. UNCHANGED serverVars => /\ CompletedHasRow' /\ rows' = rows /\ ckpt' = ckpt
                              /\ named' = named /\ run' = run /\ undone' = undone
  BY <1>0 DEF serverVars, CompletedHasRow
<1>15. undone' \subseteq Sample
  <2>1. \A samples \in SUBSET Sample : Reopens(h, samples) => undone' \subseteq Sample
    BY <1>0 DEF Reopens
  <2>2. h.ids \subseteq Sample /\ h.set \subseteq Sample
    BY <1>2 DEF HandlerType
  <2>3. CASE ClaimWrite(h)
    BY <2>1, <2>2, <2>3 DEF ClaimWrite
  <2>4. CASE AttemptWrite(h)
    BY <2>1, <2>2, <2>4 DEF AttemptWrite
  <2>5. CASE undone' = undone
    BY <1>0, <2>5
  <2> QED
    BY <1>1, <2>3, <2>4, <2>5 DEF HandlerStep, ClaimRead, AttemptRead, SampleStore,
       SamplePersist, CompleteRead, CompleteSweep, CompleteTally, CompleteSettle, serverVars
<1>4. \A s \in Sample : rows[s] <= rows[s]
  BY <1>0

<1>5. CASE ClaimRead(h)
  <2>1. PICK i \in SUBSET Sample, st \in {"read", "done"} :
           Proceed(h, [h EXCEPT !.step = st, !.ids = i])
    <3>1. CASE Proceed(h, [h EXCEPT !.step = "done"])
      <4>1. [h EXCEPT !.step = "done"] = [h EXCEPT !.step = "done", !.ids = h.ids] /\ h.ids \in SUBSET Sample
        BY <1>2 DEF HandlerType
      <4> QED
        BY <3>1, <4>1
    <3>2. CASE \E s \in Sample : Proceed(h, [h EXCEPT !.step = "read", !.ids = {t \in Sample : ckpt[t] = "queued"} \cap Of(s[1])])
      BY <3>2
    <3> QED
      BY <1>5, <3>1, <3>2 DEF ClaimRead
  <2> DEFINE h2 == [h EXCEPT !.step = st, !.ids = i]
  <2>2. h2 \in HandlerType /\ h2.op = h.op /\ h2.set = h.set /\ h2.step # "lost" /\ h.op = "claim"
    BY <1>2, <1>5 DEF HandlerType, ClaimRead, At
  <2>3. Proceed(h, h2) /\ UNCHANGED serverVars
    BY <1>5, <2>1 DEF ClaimRead
  <2> HIDE DEF h2
  <2> QED
    BY <1>0, <1>2, <1>3, <1>4, <2>2, <2>3, <1>15, HandlerStepStored DEF HandlerShape
<1>6. CASE ClaimWrite(h)
  <2> DEFINE h2 == [h EXCEPT !.step = "done"]
  <2>2. h2 \in HandlerType /\ h2.op = h.op /\ h2.set = h.set /\ h2.step # "lost" /\ h.op = "claim"
    BY <1>2, <1>6 DEF HandlerType, ClaimWrite, At
  <2>3. /\ Proceed(h, h2) /\ UNCHANGED <<named, rows>> /\ run' = "running"
        /\ ckpt' = [s \in Sample |-> IF s \in h.ids THEN "running" ELSE ckpt[s]]
    BY <1>6 DEF ClaimWrite
  <2> HIDE DEF h2
  <2>4. ckpt' \in [Sample -> CkptState] /\ CompletedHasRow'
    BY <1>0, <2>3 DEF CompletedHasRow, CkptState, Open
  <2> QED
    BY <1>0, <1>2, <1>4, <2>2, <2>3, <2>4, <1>15, HandlerStepStored DEF HandlerShape
<1>7. CASE AttemptRead(h)
  <2>1. PICK st \in {"read", "done"} : Proceed(h, [h EXCEPT !.step = st])
    BY <1>7 DEF AttemptRead
  <2> DEFINE h2 == [h EXCEPT !.step = st]
  <2>2. /\ h2 \in HandlerType /\ h2.op = h.op /\ h2.set = h.set /\ h2.step # "lost"
        /\ h.op = "attempt" /\ h2.status = h.status
    BY <1>2, <1>7 DEF HandlerType, AttemptRead, At
  <2>3. Proceed(h, h2) /\ UNCHANGED serverVars
    BY <1>7, <2>1 DEF AttemptRead
  <2> HIDE DEF h2
  <2> QED
    BY <1>0, <1>2, <1>3, <1>4, <2>2, <2>3, <1>15, HandlerStepStored DEF HandlerShape
<1>8. CASE AttemptWrite(h)
  <2> DEFINE h2 == [h EXCEPT !.step = "done"]
  <2>2. /\ h2 \in HandlerType /\ h2.op = h.op /\ h2.set = h.set /\ h2.step # "lost"
        /\ h.op = "attempt" /\ h2.status = h.status /\ h.status \in {"running", "failed"}
    BY <1>2, <1>8 DEF HandlerType, AttemptWrite, At, HandlerShape
  <2>3. /\ Proceed(h, h2) /\ UNCHANGED <<named, rows, run>>
        /\ ckpt' = [s \in Sample |-> IF s \in h.set THEN h.status ELSE ckpt[s]]
    BY <1>8 DEF AttemptWrite
  <2> HIDE DEF h2
  <2>4. ckpt' \in [Sample -> CkptState] /\ CompletedHasRow'
    BY <1>0, <2>2, <2>3 DEF CompletedHasRow, CkptState, Open, Closed
  <2> QED
    BY <1>0, <1>2, <1>4, <2>2, <2>3, <2>4, <1>15, HandlerStepStored DEF HandlerShape
<1>9. CASE SampleStore(h)
  <2>1. /\ rows' = [s \in Sample |-> IF s \in h.set THEN rows[s] + 1 ELSE rows[s]]
        /\ UNCHANGED <<ckpt, named, run, undone>> /\ h.op = "sample"
    BY <1>9 DEF SampleStore, At
  <2>2. PICK s \in Sample : h.set = {s} /\ Proceed(h, [h EXCEPT !.step = "stored", !.row = rows[s] + 1])
    BY <1>2, <1>9, <2>1 DEF SampleStore, HandlerShape
  <2> DEFINE h2 == [h EXCEPT !.step = "stored", !.row = rows[s] + 1]
  <2>3. rows[s] \in Nat
    BY <1>0
  <2>4. /\ h2 \in HandlerType /\ h2.op = h.op /\ h2.set = h.set /\ h2.step = "stored"
        /\ h2.row = rows[s] + 1
    <3>1. rows[s] + 1 \in Nat /\ h \in HandlerType
      BY <1>2, <2>3
    <3> QED
      BY ONLY <3>1 DEF HandlerType
  <2>5. Proceed(h, h2)
    BY <2>2
  <2> HIDE DEF h2
  <2>6. rows' \in [Sample -> Nat] /\ \A t \in Sample : rows[t] <= rows'[t]
    BY <1>0, <2>1
  <2>7. rows'[s] = rows[s] + 1
    BY <2>1, <2>2
  <2>8. HandlerShape(h2, rows')
    BY <2>1, <2>2, <2>3, <2>4, <2>7 DEF HandlerShape
  <2>9. CompletedHasRow'
    <3> SUFFICES ASSUME NEW t \in Sample, ckpt[t] = "completed" PROVE named[t] \in 1 .. rows'[t]
      BY <2>1 DEF CompletedHasRow
    <3>1. named[t] \in 1 .. rows[t] /\ rows[t] \in Nat /\ rows'[t] \in Nat /\ rows[t] <= rows'[t]
      BY <1>0, <2>6 DEF CompletedHasRow
    <3> QED
      BY <3>1
  <2> QED
    BY <1>0, <1>2, <2>1, <2>4, <2>5, <2>6, <2>8, <2>9, <1>15, HandlerStepStored
<1>10. CASE SamplePersist(h)
  <2> DEFINE h2 == [h EXCEPT !.step = "done"]
  <2>1. /\ h2 \in HandlerType /\ h2.op = h.op /\ h2.set = h.set /\ h2.step = "done"
        /\ h.op = "sample" /\ h.step = "stored" /\ h.row \in Nat
    BY <1>2, <1>10 DEF HandlerType, SamplePersist, At
  <2>2. /\ Proceed(h, h2) /\ UNCHANGED <<rows, run>>
        /\ ckpt' = [s \in Sample |-> IF s \in h.set THEN "completed" ELSE ckpt[s]]
        /\ named' = [s \in Sample |-> IF s \in h.set THEN h.row ELSE named[s]]
    BY <1>10 DEF SamplePersist
  <2> HIDE DEF h2
  <2>3. PICK s \in Sample : h.set = {s} /\ h.row \in 1 .. rows[s]
    BY <1>2, <2>1 DEF HandlerShape
  <2>4. ckpt' \in [Sample -> CkptState] /\ named' \in [Sample -> Nat] /\ CompletedHasRow'
    BY <1>0, <2>1, <2>2, <2>3 DEF CompletedHasRow, CkptState
  <2>5. HandlerShape(h2, rows')
    BY <2>1, <2>3 DEF HandlerShape
  <2> QED
    BY <1>0, <1>2, <1>4, <2>1, <2>2, <2>4, <2>5, <1>15, HandlerStepStored
<1>11. CASE CompleteRead(h)
  <2>1. PICK i \in SUBSET Sample, st \in {"swept", "read"} :
           Proceed(h, [h EXCEPT !.step = st, !.ids = i])
    <3>1. CASE Proceed(h, [h EXCEPT !.step = "swept"])
      <4>1. [h EXCEPT !.step = "swept"] = [h EXCEPT !.step = "swept", !.ids = h.ids] /\ h.ids \in SUBSET Sample
        BY <1>2 DEF HandlerType
      <4> QED
        BY <3>1, <4>1
    <3>2. CASE Proceed(h, [h EXCEPT !.step = "read",
                      !.ids = {s \in Sample : /\ \E t \in h.set : t[1] = s[1]
                                              /\ ckpt[s] \in Open}])
      BY <3>2
    <3> QED
      BY <1>11, <3>1, <3>2 DEF CompleteRead
  <2> DEFINE h2 == [h EXCEPT !.step = st, !.ids = i]
  <2>2. /\ h2 \in HandlerType /\ h2.op = h.op /\ h2.set = h.set /\ h2.step # "lost"
        /\ h.op = "complete" /\ h2.status = h.status
    BY <1>2, <1>11 DEF HandlerType, CompleteRead, At
  <2>3. Proceed(h, h2) /\ UNCHANGED serverVars
    BY <1>11, <2>1 DEF CompleteRead
  <2> HIDE DEF h2
  <2> QED
    BY <1>0, <1>2, <1>3, <1>4, <2>2, <2>3, <1>15, HandlerStepStored DEF HandlerShape
<1>12. CASE CompleteSweep(h)
  <2> DEFINE h2 == [h EXCEPT !.step = "swept", !.ids = {}]
  <2>2. /\ h2 \in HandlerType /\ h2.op = h.op /\ h2.set = h.set /\ h2.step # "lost"
        /\ h.op = "complete" /\ h2.status = h.status
    BY <1>2, <1>12 DEF HandlerType, CompleteSweep, At
  <2>3. /\ Proceed(h, h2) /\ UNCHANGED <<named, rows, run>>
        /\ ckpt' = [s \in Sample |-> IF s \in h.ids THEN "not_attempted" ELSE ckpt[s]]
    BY <1>12 DEF CompleteSweep
  <2> HIDE DEF h2
  <2>4. ckpt' \in [Sample -> CkptState] /\ CompletedHasRow'
    BY <1>0, <2>3 DEF CompletedHasRow, CkptState, Closed
  <2> QED
    BY <1>0, <1>2, <1>4, <2>2, <2>3, <2>4, <1>15, HandlerStepStored DEF HandlerShape
<1>13. CASE CompleteTally(h)
  <2>1. Verdict \in {"running"} \cup Terminal
    BY DEF Verdict, Terminal
  <2> DEFINE h2 == [h EXCEPT !.step = "tallied", !.status = Verdict]
  <2>2. /\ h2 \in HandlerType /\ h2.op = h.op /\ h2.set = h.set /\ h2.step # "lost"
        /\ h.op = "complete" /\ h2.status # "none"
    BY <1>2, <1>13, <2>1 DEF HandlerType, CompleteTally, At, Terminal
  <2>3. Proceed(h, h2) /\ UNCHANGED serverVars
    BY <1>13 DEF CompleteTally
  <2> HIDE DEF h2
  <2> QED
    BY <1>0, <1>2, <1>3, <1>4, <2>2, <2>3, <1>15, HandlerStepStored DEF HandlerShape
<1>14. CASE CompleteSettle(h)
  <2> DEFINE h2 == [h EXCEPT !.step = "done"]
  <2>2. /\ h2 \in HandlerType /\ h2.op = h.op /\ h2.set = h.set /\ h2.step # "lost"
        /\ h.op = "complete" /\ h2.status = h.status /\ h.status \in {"running"} \cup Terminal
    BY <1>2, <1>14 DEF HandlerType, CompleteSettle, At, HandlerShape
  <2>3. /\ Proceed(h, h2) /\ UNCHANGED <<ckpt, named, rows>> /\ run' = h.status
    BY <1>14 DEF CompleteSettle
  <2> HIDE DEF h2
  <2>4. CompletedHasRow'
    BY <1>0, <2>3 DEF CompletedHasRow
  <2> QED
    BY <1>0, <1>2, <1>4, <2>2, <2>3, <2>4, <1>15, HandlerStepStored DEF HandlerShape
<1> QED
  BY <1>1, <1>5, <1>6, <1>7, <1>8, <1>9, <1>10, <1>11, <1>12, <1>13, <1>14 DEF HandlerStep

\* A request that is given up on, and may still be carried out, keeps it.
LEMMA GiveUpStored ==
  ASSUME StoredInv, GiveUp
  PROVE  StoredInv'
<1> USE RemoteAssumption
<1>1. /\ call' = [call EXCEPT !.step = "lost", !.ids = {}] /\ losses' = losses + 1
      /\ losses' \in 0 .. MaxLoss
      /\ late' = late \/ (call.step \notin {"done", "lost"} /\ late' = late \cup {call})
      /\ UNCHANGED <<serverVars, clientVars, userVars, crashes>>
      /\ call.op \in {"claim", "attempt", "sample", "complete"}
  BY DEF GiveUp, Outlives, Over, StoredInv, TypeOK
<1>2. /\ call \in HandlerType /\ late \subseteq HandlerType
      /\ \A g \in late : g.step \notin {"done", "lost"}
  BY DEF StoredInv, TypeOK
<1>3. /\ call' \in HandlerType /\ call'.op = call.op /\ call'.set = call.set
      /\ call'.status = call.status /\ call'.step = "lost"
  BY <1>1, <1>2 DEF HandlerType
<1>4. late' \subseteq HandlerType /\ \A g \in late' : g.step \notin {"done", "lost"}
  BY <1>1, <1>2
<1>5. TypeOK'
  BY <1>1, <1>3, <1>4 DEF StoredInv, TypeOK, serverVars, clientVars, userVars
<1>6. CallMatches' /\ InHand'
  BY <1>1, <1>3 DEF StoredInv, CallMatches, InHand, clientVars
<1>7. \A h \in late' \cup {call'} : HandlerShape(h, rows)
  <2>1. \A h \in late \cup {call} : HandlerShape(h, rows)
    BY DEF StoredInv
  <2>2. HandlerShape(call', rows)
    BY <1>3, <2>1 DEF HandlerShape
  <2>3. late' \subseteq late \cup {call}
    BY <1>1
  <2> QED
    BY <2>1, <2>2, <2>3
<1> QED
  BY <1>1, <1>5, <1>6, <1>7 DEF StoredInv, CompletedHasRow, serverVars

\* A collector that is killed keeps it.
LEMMA CrashStored ==
  ASSUME StoredInv, Crash
  PROVE  StoredInv'
<1> USE RemoteAssumption
<1>1. /\ call' = NoCall /\ crashes' \in 0 .. MaxCrash
      /\ client' = "idle" /\ task' = {} /\ todo' = {} /\ done' = {} /\ cur' = {} /\ launch' = 0
      /\ late' = late \/ (call.step \notin {"done", "lost"} /\ late' = late \cup {call})
      /\ UNCHANGED <<serverVars, userVars, losses>>
  BY DEF Crash, Outlives, Over, StoredInv, TypeOK
<1>2. NoCall \in HandlerType /\ NoCall.op = "none" /\ NoCall.step = "done"
  BY DEF NoCall, HandlerType
<1>3. late' \subseteq HandlerType /\ \A g \in late' : g.step \notin {"done", "lost"}
  BY <1>1 DEF StoredInv, TypeOK
<1>4. TypeOK'
  BY <1>1, <1>2, <1>3 DEF StoredInv, TypeOK, serverVars, userVars
<1>5. CallMatches' /\ InHand'
  BY <1>1, <1>2 DEF CallMatches, InHand
<1>6. \A h \in late' \cup {call'} : HandlerShape(h, rows)
  <2>1. HandlerShape(call', rows)
    BY <1>1, <1>2 DEF HandlerShape
  <2>2. \A h \in late \cup {call} : HandlerShape(h, rows)
    BY DEF StoredInv
  <2>3. late' \subseteq late \cup {call}
    BY <1>1
  <2> QED
    BY <2>1, <2>2, <2>3
<1> QED
  BY <1>1, <1>4, <1>5, <1>6 DEF StoredInv, CompletedHasRow, serverVars

\* A request as it is made.
LEMMA RequestType ==
  ASSUME StoredInv, NEW op \in {"claim", "attempt", "sample", "complete"},
         NEW set \in SUBSET Sample, NEW status \in {"none", "running"} \cup Terminal
  PROVE  /\ Request(op, set, status) \in HandlerType
         /\ Request(op, set, status).op = op /\ Request(op, set, status).set = set
         /\ Request(op, set, status).status = status
         /\ Request(op, set, status).step = "sent"
<1>1. losses \in 0 .. MaxLoss /\ crashes \in 0 .. MaxCrash /\ MaxLoss \in Nat /\ MaxCrash \in Nat
  BY RemoteAssumption DEF StoredInv, TypeOK
<1>2. losses + crashes \in 0 .. MaxLoss + MaxCrash
  BY <1>1
<1> QED
  BY <1>2 DEF Request, HandlerType

\* Every step of the collector keeps it.
LEMMA CollectStored ==
  ASSUME StoredInv, Collect
  PROVE  StoredInv'
<1> USE RemoteAssumption
<1>0. /\ UNCHANGED <<serverVars, userVars, late, losses, crashes>> /\ ClientStep
      /\ \A h \in late : HandlerShape(h, rows)
      /\ call \in HandlerType /\ call.ids \subseteq Sample
      /\ task \subseteq Sample /\ todo \subseteq task /\ cur \subseteq todo
      /\ done \subseteq task /\ todo \cap done = {} /\ launch \in 0 .. 2
  BY DEF Collect, StoredInv, TypeOK, HandlerType
\* What a step of the collector has to establish.
<1>1. ASSUME call' \in HandlerType, HandlerShape(call', rows), CallMatches', InHand',
             client' \in {"idle", "asking", "prompting", "uploading", "reporting",
                          "completing", "failing"},
             task' \subseteq Sample, todo' \subseteq task', cur' \subseteq todo',
             done' \subseteq task', todo' \cap done' = {}, launch' \in 0 .. 2
      PROVE  StoredInv'
  <2>1. TypeOK'
    BY <1>0, <1>1 DEF StoredInv, TypeOK, serverVars, userVars
  <2> QED
    BY <1>0, <1>1, <2>1 DEF StoredInv, CompletedHasRow, serverVars
<1>2. NoCall \in HandlerType /\ NoCall.op = "none" /\ NoCall.step = "done"
      /\ HandlerShape(NoCall, rows)
  BY DEF NoCall, HandlerType, HandlerShape
<1>3. CASE Poll
  <2>1. call' \in HandlerType /\ call'.op = "claim" /\ UNCHANGED clientVars /\ client = "idle"
    <3>1. Request("claim", {}, "none") \in HandlerType /\ Request("claim", {}, "none").op = "claim"
      BY RequestType
    <3> QED
      BY <1>3, <3>1 DEF Poll
  <2> QED
    BY <1>0, <1>1, <2>1 DEF StoredInv, TypeOK, CallMatches, InHand, HandlerShape, clientVars
<1>4. CASE Claimed
  BY <1>0, <1>1, <1>2, <1>4 DEF Claimed, CallMatches, InHand
<1>5. CASE NotClaimed
  <2>1. call' = NoCall /\ UNCHANGED clientVars /\ client = "idle"
    BY <1>5 DEF NotClaimed, StoredInv, CallMatches
  <2> QED
    BY <1>0, <1>1, <1>2, <2>1 DEF StoredInv, TypeOK, CallMatches, InHand, clientVars
<1>6. CASE StartPrompt
  <2>1. PICK s \in todo : call' = Request("attempt", {s}, "running") /\ cur' = {s}
    BY <1>6 DEF StartPrompt
  <2>2. /\ call' \in HandlerType /\ call'.op = "attempt" /\ call'.set = cur'
        /\ call'.status = "running"
    <3>1. {s} \in SUBSET Sample
      BY <1>0
    <3> QED
      BY <2>1, <3>1, RequestType
  <2>3. client' = "prompting" /\ UNCHANGED <<task, todo, done, launch>>
    BY <1>6 DEF StartPrompt
  <2>4. HandlerShape(call', rows) /\ CallMatches' /\ InHand'
    BY <1>0, <2>1, <2>2, <2>3 DEF CallMatches, InHand, HandlerShape
  <2> QED
    BY <1>0, <1>1, <2>1, <2>2, <2>3, <2>4
<1>7. CASE Answer
  <2>1. /\ call' = Request("sample", cur, "none") /\ client' = "uploading" /\ client = "prompting"
        /\ UNCHANGED <<task, todo, done, cur, launch>>
    BY <1>7 DEF Answer
  <2>2. /\ call' \in HandlerType /\ call'.op = "sample" /\ call'.set = cur /\ call'.step = "sent"
    <3>1. cur \in SUBSET Sample
      BY <1>0
    <3> QED
      BY <2>1, <3>1, RequestType
  <2>3. \E s \in Sample : cur = {s}
    BY <2>1 DEF StoredInv, InHand
  <2>4. HandlerShape(call', rows) /\ CallMatches' /\ InHand'
    BY <1>0, <2>1, <2>2, <2>3 DEF CallMatches, InHand, HandlerShape
  <2> QED
    BY <1>0, <1>1, <2>1, <2>2, <2>4
<1>8. CASE PromptFails
  <2>1. /\ call' = Request("attempt", cur, "failed") /\ client' = "reporting" /\ client = "prompting"
        /\ UNCHANGED <<task, todo, done, cur, launch>>
    BY <1>8 DEF PromptFails
  <2>2. /\ call' \in HandlerType /\ call'.op = "attempt" /\ call'.set = cur /\ call'.step = "sent"
        /\ call'.status = "failed"
    <3>1. cur \in SUBSET Sample /\ "failed" \in {"none", "running"} \cup Terminal
      BY <1>0 DEF Terminal
    <3> QED
      BY <2>1, <3>1, RequestType
  <2>3. \E s \in Sample : cur = {s}
    BY <2>1 DEF StoredInv, InHand
  <2>4. HandlerShape(call', rows) /\ CallMatches' /\ InHand'
    BY <1>0, <2>1, <2>2, <2>3 DEF CallMatches, InHand, HandlerShape
  <2> QED
    BY <1>0, <1>1, <2>1, <2>2, <2>4
<1>9. CASE Reported \/ Uploaded
  <2>1. /\ call' = NoCall /\ client' = "asking" /\ cur' = {} /\ todo' = todo \ cur
        /\ UNCHANGED <<task, launch>> /\ (done' = done \/ done' = done \cup cur)
    BY <1>9 DEF Reported, Uploaded
  <2>2. CallMatches' /\ InHand'
    BY <1>2, <2>1 DEF CallMatches, InHand
  <2> QED
    BY <1>0, <1>1, <1>2, <2>1, <2>2
<1>10. CASE Relaunch
  <2>1. /\ call' = NoCall /\ client' = "asking" /\ cur' = {} /\ todo' = task \ done
        /\ UNCHANGED <<task, done>> /\ launch' = 2
    BY <1>10 DEF Relaunch
  <2>2. CallMatches' /\ InHand'
    BY <1>2, <2>1 DEF CallMatches, InHand
  <2> QED
    BY <1>0, <1>1, <1>2, <2>1, <2>2
<1>11. CASE Finish \/ Throw \/ CompleteAgain
  <2>1. /\ client' \in {"completing", "failing"} /\ UNCHANGED <<task, done, launch>>
        /\ \/ cur' = {} /\ todo' = {}
           \/ UNCHANGED <<cur, todo>>
        /\ \E st \in {"completed", "partial", "failed"} : call' = Request("complete", task, st)
    BY <1>11 DEF Finish, Throw, CompleteAgain, TaskStatus, ErrorStatus
  <2>2. /\ call' \in HandlerType /\ call'.op = "complete" /\ call'.set = task /\ call'.status # "none"
    <3>1. PICK st \in {"completed", "partial", "failed"} : call' = Request("complete", task, st)
      BY <2>1
    <3>2. task \in SUBSET Sample /\ st \in {"none", "running"} \cup Terminal /\ st # "none"
      BY <1>0 DEF Terminal
    <3> QED
      BY <3>1, <3>2, RequestType
  <2>3. HandlerShape(call', rows) /\ CallMatches' /\ InHand'
    BY <2>1, <2>2 DEF CallMatches, InHand, HandlerShape
  <2> QED
    BY <1>0, <1>1, <2>1, <2>2, <2>3
<1>12. CASE Completed
  <2>1. /\ call' = NoCall /\ client' = "idle" /\ task' = {} /\ todo' = {} /\ done' = {}
        /\ cur' = {} /\ launch' = 0
    BY <1>12 DEF Completed, IdleTask
  <2>2. CallMatches' /\ InHand'
    BY <1>2, <2>1 DEF CallMatches, InHand
  <2> QED
    BY <1>1, <1>2, <2>1, <2>2
<1> QED
  BY <1>0, <1>3, <1>4, <1>5, <1>6, <1>7, <1>8, <1>9, <1>10, <1>11, <1>12 DEF ClientStep

\* Every step of the dispatcher and of the user's retry keeps it.
LEMMA UserStored ==
  ASSUME StoredInv, Select \/ GoOn
  PROVE  StoredInv'
<1> USE RemoteAssumption
<1>0. /\ UNCHANGED <<clientVars, wireVars, rows, undone>>
      /\ ckpt \in [Sample -> CkptState] /\ named \in [Sample -> Nat] /\ rows \in [Sample -> Nat]
      /\ retry \in [step : {"none", "selected", "reopened"}, ids : SUBSET Sample]
      /\ retries \in 0 .. MaxRetry /\ again \subseteq Sample /\ freed \in BOOLEAN
      /\ CompletedHasRow
  BY DEF Select, GoOn, RetrySelect, RetryReopen, RetryMark, DispatchRead, DispatchMark,
     serverVars, StoredInv, TypeOK
<1>1. ASSUME ckpt' \in [Sample -> CkptState], named' \in [Sample -> Nat],
             run' \in {"queued", "waiting_runner", "running"} \cup Terminal,
             retry' \in [step : {"none", "selected", "reopened"}, ids : SUBSET Sample],
             retries' \in 0 .. MaxRetry, again' \subseteq Sample, freed' \in BOOLEAN,
             CompletedHasRow'
      PROVE  StoredInv'
  <2>1. TypeOK'
    BY <1>0, <1>1 DEF StoredInv, TypeOK, clientVars, wireVars
  <2> QED
    BY <1>0, <1>1, <2>1 DEF StoredInv, CallMatches, InHand, clientVars, wireVars
<1>2. CASE Select
  <2>1. PICK p \in Providers : retry' = [step |-> "selected", ids |-> {s \in Of(p) : ckpt[s] \in Closed}]
    BY <1>2 DEF Select, RetrySelect
  <2>2. {s \in Of(p) : ckpt[s] \in Closed} \subseteq Sample
    BY DEF Of
  <2>3. /\ retry' \in [step : {"none", "selected", "reopened"}, ids : SUBSET Sample]
        /\ retry'.ids \subseteq Sample
    BY <2>1, <2>2
  <2> QED
    BY <1>0, <1>1, <1>2, <2>3 DEF Select, RetrySelect, serverVars, CompletedHasRow, StoredInv, TypeOK
<1>3. CASE RetryReopen
  <2>1. /\ ckpt' = [s \in Sample |-> IF s \in retry.ids THEN "queued" ELSE ckpt[s]]
        /\ named' = [s \in Sample |-> IF s \in retry.ids THEN 0 ELSE named[s]]
        /\ retry' = [retry EXCEPT !.step = "reopened"]
        /\ UNCHANGED <<run, retries, again, freed>>
    BY <1>3 DEF RetryReopen
  <2>2. ckpt' \in [Sample -> CkptState] /\ named' \in [Sample -> Nat] /\ CompletedHasRow'
    BY <1>0, <2>1 DEF CompletedHasRow, CkptState, Open
  <2>3. retry' \in [step : {"none", "selected", "reopened"}, ids : SUBSET Sample]
    BY <1>0, <2>1
  <2> QED
    BY <1>0, <1>1, <2>1, <2>2, <2>3 DEF StoredInv, TypeOK
<1>4. CASE RetryMark
  BY <1>0, <1>1, <1>4 DEF RetryMark, NoRetry, CompletedHasRow
<1>5. CASE DispatchRead \/ DispatchMark
  BY <1>0, <1>1, <1>5 DEF DispatchRead, DispatchMark, serverVars, CompletedHasRow, StoredInv, TypeOK
<1> QED
  BY <1>2, <1>3, <1>4, <1>5 DEF GoOn

\* So every step keeps it.
LEMMA RemoteStepStored ==
  ASSUME StoredInv, [Next]_vars
  PROVE  StoredInv'
<1>1. CASE UNCHANGED vars
  BY <1>1 DEF vars, serverVars, clientVars, wireVars, userVars, StoredInv, TypeOK, CallMatches,
     InHand, CompletedHasRow
<1> QED
  BY <1>1, ServeStored, GiveUpStored, CrashStored, CollectStored, UserStored DEF Next

\* It holds in every state of every behaviour.
LEMMA RemoteStored == Spec => []StoredInv
<1>1. StoredInv /\ [Next]_vars => StoredInv'
  BY RemoteStepStored
<1> QED
  BY <1>1, RemoteInitStored, PTL DEF Spec

\* The samples of the providers of a set.
Beside(set) == {s \in Sample : \E t \in set : t[1] = s[1]}

\* Nothing but a retry queues a sample of these providers any more.
Taken(set) == \A s \in Beside(set) : ckpt[s] = "queued" => s \in again

\* A claim h, where the checkpoints are c, is for one provider and leaves none
\* of its samples queued; what a late completion may still close is not in it.
ClaimExact(h, c) ==
  /\ h.step = "sent" => h.ids = {}
  /\ h.step \in {"read", "done"} =>
       /\ \A s \in Beside(h.ids) :
            c[s] = "queued" => s \in again \/ (h.step = "read" /\ s \in h.ids)
       /\ \A g \in late : g.op = "complete" => Beside(g.set) \cap h.ids \subseteq again

\* What the user, or a late claim or attempt, may have reopened.
Reopened == again \cup undone

\* A handler that closes what it did not upload.
Closes(h) == h.ids \subseteq Beside(h.set) /\ h.ids \cap done \subseteq Reopened

\* A sample whose upload was answered stays completed, until it is reopened.
Stays(s) == ckpt[s] = "completed" \/ s \in Reopened

\* The invariant that keeps uploaded samples, beside StoredInv.
KeptInv ==
  /\ \A s \in done : Stays(s)
  /\ call.op = "sample" /\ call.step = "done" => \A s \in cur : Stays(s)
  /\ retry.step # "none" => retry.ids \subseteq again
  /\ Taken(task)
  /\ call.op = "claim" => ClaimExact(call, ckpt)
  /\ \A h \in late \cup {call} : h.op = "complete" =>
       Taken(h.set) /\ (h.step = "read" => Closes(h))
  /\ client \in {"asking", "prompting", "uploading", "reporting"} =>
       \A h \in late : h.op = "complete" => Beside(h.set) \cap task \subseteq again

\* It holds when nothing was uploaded.
LEMMA RemoteInitKept == Init => KeptInv
BY DEF Init, KeptInv, NoCall, NoRetry, Taken, Beside

\* A step of one handler keeps it.
LEMMA HandlerStepKept ==
  ASSUME StoredInv, KeptInv, NEW h \in Handlers, NEW h2 \in HandlerType,
         h2.op = h.op, h2.set = h.set,
         Proceed(h, h2), UNCHANGED <<clientVars, userVars>>,
         \A s \in Sample : ckpt'[s] = "queued" => ckpt[s] = "queued",
         undone \subseteq undone',
         \A s \in done : Stays(s) => ckpt'[s] = "completed" \/ s \in Reopened',
         h.op = "sample" /\ h2.step = "done" =>
           \A s \in h.set : ckpt'[s] = "completed" \/ s \in Reopened',
         h.op # "sample" \/ h # call =>
           \A s \in cur : call.op = "sample" /\ Stays(s) => ckpt'[s] = "completed" \/ s \in Reopened',
         h = call /\ h.op = "claim" => ClaimExact(h2, ckpt'),
         h.op = "complete" /\ h2.step = "read" => Closes(h2)
  PROVE  KeptInv'
<1>0. /\ UNCHANGED <<client, task, todo, done, cur, launch, retry, again>>
      /\ Reopened \subseteq Reopened'
      /\ task \subseteq Sample /\ cur \subseteq Sample /\ done \subseteq Sample
      /\ \A g \in late \cup {call} : g \in HandlerType
      /\ call.op = "none" => call.step = "done"
      /\ \A g \in late : g.step # "done"
      /\ call.op = "sample" => call.set = cur
  BY DEF clientVars, userVars, StoredInv, TypeOK, CallMatches, Reopened
<1>1. /\ \A g \in late' \cup {call'} : g = h2 \/ g \in late \cup {call}
      /\ \A g \in late' : \E f \in late : g.op = f.op /\ g.set = f.set
      /\ h \in late \cup {call}
      /\ \/ h = call /\ call' = h2 /\ late' = late
         \/ h # call /\ h \in late /\ call' = call
      /\ call'.op = call.op
  <2>1. CASE h = call
    BY <2>1 DEF Proceed, Handlers
  <2>2. CASE h # call
    <3>1. h \in late /\ call' = call /\ late' \subseteq late \cup {h2}
      BY <2>2 DEF Proceed, Handlers
    <3> QED
      BY <2>2, <3>1
  <2> QED
    BY <2>1, <2>2
<1>2. \A set \in SUBSET Sample : Taken(set) => Taken(set)'
  BY <1>0 DEF Taken, Beside
<1>3. \A s \in done' : Stays(s)'
  BY <1>0 DEF KeptInv, Stays
<1>4. call'.op = "sample" /\ call'.step = "done" => \A s \in cur' : Stays(s)'
  <2>1. CASE h = call /\ h.op = "sample"
    BY <1>0, <1>1, <2>1 DEF Stays
  <2>2. CASE ~(h = call /\ h.op = "sample")
    BY <1>0, <1>1, <2>2 DEF KeptInv, Stays
  <2> QED
    BY <2>1, <2>2
<1>5. retry'.step # "none" => retry'.ids \subseteq again'
  BY <1>0 DEF KeptInv
<1>7. Taken(task)'
  BY <1>0, <1>2 DEF KeptInv
<1>8. call'.op = "claim" => ClaimExact(call, ckpt)'
  <2> SUFFICES ASSUME call.op = "claim" PROVE ClaimExact(call, ckpt)'
    BY <1>1
  <2>1. CASE h = call
    BY <1>0, <1>1, <2>1 DEF ClaimExact
  <2>2. CASE h # call
    BY <1>0, <1>1, <2>2 DEF KeptInv, ClaimExact, Beside, HandlerType
  <2> QED
    BY <2>1, <2>2
<1>9. ASSUME NEW g \in late' \cup {call'}, g.op = "complete"
      PROVE  Taken(g.set)' /\ (g.step = "read" => Closes(g)')
  <2>1. CASE g = h2
    BY <1>0, <1>1, <1>2, <1>9, <2>1 DEF KeptInv, Closes, HandlerType
  <2>2. CASE g \in late \cup {call}
    BY <1>0, <1>2, <1>9, <2>2 DEF KeptInv, Closes, HandlerType
  <2> QED
    BY <1>1, <1>9, <2>1, <2>2
<1>10. client' \in {"asking", "prompting", "uploading", "reporting"} =>
       \A g \in late' : g.op = "complete" => Beside(g.set) \cap task' \subseteq again'
  BY <1>0, <1>1 DEF KeptInv
<1> QED
  BY <1>3, <1>4, <1>5, <1>7, <1>8, <1>9, <1>10 DEF KeptInv

\* So do the handlers, in time and late.
LEMMA ServeKept ==
  ASSUME StoredInv, KeptInv, Serve
  PROVE  KeptInv'
<1> USE RemoteAssumption
<1>0. /\ UNCHANGED <<clientVars, userVars>>
      /\ call \in HandlerType /\ late \subseteq HandlerType
      /\ task \subseteq Sample /\ cur \subseteq Sample /\ done \subseteq Sample
      /\ cur \cap done = {} /\ cur \subseteq task
  BY DEF Serve, StoredInv, TypeOK
<1>1. PICK h \in Handlers : HandlerStep(h)
  BY DEF Serve
<1>2. h \in late \cup {call} /\ h \in HandlerType /\ HandlerShape(h, rows)
  BY <1>0 DEF Handlers, StoredInv
\* A claim is under way between tasks only.
<1>3. h = call /\ h.op = "claim" => task = {} /\ done = {} /\ cur = {}
  BY DEF StoredInv, TypeOK, CallMatches, InHand
<1>4. UNCHANGED serverVars => ckpt' = ckpt /\ undone' = undone
  BY DEF serverVars
<1>15. undone \subseteq undone' /\ Reopened \subseteq Reopened'
  BY <1>0, <1>1 DEF HandlerStep, ClaimRead, ClaimWrite, AttemptRead, AttemptWrite, SampleStore,
     SamplePersist, CompleteRead, CompleteSweep, CompleteTally, CompleteSettle, Reopens, serverVars,
     userVars, Reopened
\* What a late claim or attempt writes over is recorded.
<1>16. \A samples : Reopens(h, samples) /\ h \in late =>
         \A s \in samples : Stays(s) => s \in Reopened'
  BY <1>15 DEF Reopens, Stays, Reopened
<1>17. \A s \in Sample : Stays(s) /\ ckpt'[s] = ckpt[s] => ckpt'[s] = "completed" \/ s \in Reopened'
  BY <1>15 DEF Stays
<1>5. CASE ClaimRead(h)
  <2>0. /\ h.op = "claim" /\ h.step = "sent" /\ UNCHANGED serverVars
        /\ h = call => h.ids = {}
    BY <1>5 DEF ClaimRead, At, KeptInv, ClaimExact
  <2>1. CASE Proceed(h, [h EXCEPT !.step = "done"])
    <3> DEFINE h2 == [h EXCEPT !.step = "done"]
    <3>1. h2 \in HandlerType /\ h2.op = h.op /\ h2.set = h.set /\ h2.step = "done" /\ h2.ids = h.ids
      BY <1>2 DEF HandlerType
    <3>2. Proceed(h, h2)
      BY <2>1
    <3> HIDE DEF h2
    <3>3. h = call => ClaimExact(h2, ckpt')
      BY <2>0, <3>1 DEF ClaimExact, Beside
    <3> QED
      BY <1>0, <1>3, <1>4, <2>0, <3>1, <3>2, <3>3, <1>15, <1>17, HandlerStepKept DEF Stays
  <2>2. ASSUME NEW s \in Sample,
               Proceed(h, [h EXCEPT !.step = "read",
                                    !.ids = {t \in Sample : ckpt[t] = "queued"} \cap Of(s[1])])
        PROVE  KeptInv'
    <3> DEFINE i == {t \in Sample : ckpt[t] = "queued"} \cap Of(s[1])
               h2 == [h EXCEPT !.step = "read", !.ids = i]
    <3>1. i \subseteq Sample /\ \A t \in i : t \in Sample /\ ckpt[t] = "queued" /\ t[1] = s[1]
      BY DEF Of
    <3>2. \A t \in Sample : ckpt[t] = "queued" /\ t[1] = s[1] => t \in i
      BY DEF Of
    <3>3. Proceed(h, h2)
      BY <2>2
    <3> HIDE DEF i
    <3>4. h2 \in HandlerType /\ h2.op = h.op /\ h2.set = h.set /\ h2.step = "read" /\ h2.ids = i
      BY <1>2, <3>1 DEF HandlerType
    <3> HIDE DEF h2
    <3>5. \A g \in late : g.op = "complete" => Beside(g.set) \cap i \subseteq again
      BY <3>1 DEF KeptInv, Taken
    <3>6. h = call => ClaimExact(h2, ckpt')
      BY <1>4, <2>0, <3>1, <3>2, <3>4, <3>5 DEF ClaimExact, Beside
    <3> QED
      BY <1>0, <1>3, <1>4, <2>0, <3>4, <3>3, <3>6, <1>15, <1>17, HandlerStepKept DEF Stays
  <2> QED
    BY <1>5, <2>1, <2>2 DEF ClaimRead
<1>6. CASE ClaimWrite(h)
  <2> DEFINE h2 == [h EXCEPT !.step = "done"]
  <2>1. /\ h2 \in HandlerType /\ h2.op = h.op /\ h2.set = h.set /\ h2.step = "done"
        /\ h2.ids = h.ids /\ h.op = "claim" /\ h.step = "read"
    BY <1>2, <1>6 DEF HandlerType, ClaimWrite, At
  <2>2. /\ Proceed(h, h2)
        /\ ckpt' = [s \in Sample |-> IF s \in h.ids THEN "running" ELSE ckpt[s]]
        /\ Reopens(h, h.ids)
    BY <1>6 DEF ClaimWrite
  <2> HIDE DEF h2
  <2>3. h = call => ClaimExact(h2, ckpt')
    BY <2>1, <2>2 DEF KeptInv, ClaimExact, Beside
  <2>4. \A s \in Sample : ckpt'[s] = "queued" => ckpt[s] = "queued"
    BY <2>2
  <2>5. ASSUME NEW s \in Sample, s \in done \/ call.op = "sample", h # call \/ s \in done, Stays(s)
        PROVE  ckpt'[s] = "completed" \/ s \in Reopened'
    <3>1. h \in late
      BY <1>2, <1>3, <2>1, <2>5
    <3> QED
      BY <1>16, <1>17, <2>2, <2>5, <3>1
  <2>6. \A s \in cur : call.op = "sample" /\ Stays(s) => ckpt'[s] = "completed" \/ s \in Reopened'
    BY <1>0, <2>1, <2>5
  <2> QED
    BY <1>0, <1>15, <2>1, <2>2, <2>3, <2>4, <2>5, <2>6, HandlerStepKept
<1>7. CASE AttemptRead(h)
  <2>1. PICK st \in {"read", "done"} : Proceed(h, [h EXCEPT !.step = st])
    BY <1>7 DEF AttemptRead
  <2> DEFINE h2 == [h EXCEPT !.step = st]
  <2>2. h2 \in HandlerType /\ h2.op = h.op /\ h2.set = h.set /\ h.op = "attempt"
    BY <1>2, <1>7 DEF HandlerType, AttemptRead, At
  <2>3. Proceed(h, h2) /\ UNCHANGED serverVars
    BY <1>7, <2>1 DEF AttemptRead
  <2> HIDE DEF h2
  <2> QED
    BY <1>0, <1>4, <2>2, <2>3, <1>15, <1>17, HandlerStepKept DEF Stays
<1>8. CASE AttemptWrite(h)
  <2> DEFINE h2 == [h EXCEPT !.step = "done"]
  <2>1. /\ h2 \in HandlerType /\ h2.op = h.op /\ h2.set = h.set
        /\ h.op = "attempt" /\ h.status \in {"running", "failed"}
    BY <1>2, <1>8 DEF HandlerType, AttemptWrite, At, HandlerShape
  <2>2. /\ Proceed(h, h2)
        /\ ckpt' = [s \in Sample |-> IF s \in h.set THEN h.status ELSE ckpt[s]]
        /\ Reopens(h, h.set)
    BY <1>8 DEF AttemptWrite
  <2>3. h = call => h.set = cur
    BY <2>1 DEF StoredInv, CallMatches
  <2> HIDE DEF h2
  <2>4. \A s \in Sample : ckpt'[s] = "queued" => ckpt[s] = "queued"
    BY <2>1, <2>2
  <2>5. ASSUME NEW s \in Sample, s \in done \/ call.op = "sample", Stays(s)
        PROVE  ckpt'[s] = "completed" \/ s \in Reopened'
    <3>1. CASE h \in late
      BY <1>16, <1>17, <2>2, <2>5, <3>1
    <3>2. CASE h = call
      <4>1. s \notin h.set
        BY <1>0, <2>1, <2>3, <2>5, <3>2
      <4> QED
        BY <1>17, <2>2, <2>5, <4>1
    <3> QED
      BY <1>2, <3>1, <3>2
  <2> QED
    BY <1>0, <1>15, <2>1, <2>2, <2>4, <2>5, HandlerStepKept
<1>9. CASE SampleStore(h)
  <2>1. UNCHANGED ckpt /\ h.op = "sample"
    BY <1>9 DEF SampleStore, At
  <2>2. PICK s \in h.set : Proceed(h, [h EXCEPT !.step = "stored", !.row = rows[s] + 1])
    BY <1>9 DEF SampleStore
  <2> DEFINE h2 == [h EXCEPT !.step = "stored", !.row = rows[s] + 1]
  <2>3. h2 \in HandlerType /\ h2.op = h.op /\ h2.set = h.set /\ h2.step = "stored"
    <3>1. rows[s] + 1 \in Nat /\ h \in HandlerType
      BY <1>2 DEF StoredInv, TypeOK, HandlerType
    <3> QED
      BY ONLY <3>1 DEF HandlerType
  <2>4. Proceed(h, h2)
    BY <2>2
  <2> HIDE DEF h2
  <2> QED
    BY <1>0, <2>1, <2>3, <2>4, <1>15, <1>17, HandlerStepKept DEF Stays
<1>10. CASE SamplePersist(h)
  <2> DEFINE h2 == [h EXCEPT !.step = "done"]
  <2>1. h2 \in HandlerType /\ h2.op = h.op /\ h2.set = h.set /\ h.op = "sample"
    BY <1>2, <1>10 DEF HandlerType, SamplePersist, At
  <2>2. /\ Proceed(h, h2) /\ h.set \subseteq Sample
        /\ ckpt' = [s \in Sample |-> IF s \in h.set THEN "completed" ELSE ckpt[s]]
    BY <1>2, <1>10 DEF SamplePersist, HandlerType
  <2> HIDE DEF h2
  <2> QED
    BY <1>0, <2>1, <2>2, <1>15, <1>17, HandlerStepKept DEF Stays
<1>11. CASE CompleteRead(h)
  <2>0. UNCHANGED serverVars /\ h.op = "complete"
    BY <1>11 DEF CompleteRead, At
  <2>1. CASE Proceed(h, [h EXCEPT !.step = "swept"])
    <3> DEFINE h2 == [h EXCEPT !.step = "swept"]
    <3>1. h2 \in HandlerType /\ h2.op = h.op /\ h2.set = h.set /\ h2.step = "swept"
      BY <1>2 DEF HandlerType
    <3>2. Proceed(h, h2)
      BY <2>1
    <3> HIDE DEF h2
    <3> QED
      BY <1>0, <1>4, <2>0, <3>1, <3>2, <1>15, <1>17, HandlerStepKept DEF Stays
  <2>2. CASE Proceed(h, [h EXCEPT !.step = "read",
                      !.ids = {s \in Sample : /\ \E t \in h.set : t[1] = s[1]
                                              /\ ckpt[s] \in Open}])
    <3> DEFINE i == {s \in Sample : /\ \E t \in h.set : t[1] = s[1]
                                    /\ ckpt[s] \in Open}
               h2 == [h EXCEPT !.step = "read", !.ids = i]
    <3>1. i \subseteq Sample /\ i \subseteq Beside(h.set) /\ i \cap done \subseteq Reopened
      BY DEF Beside, KeptInv, Stays, Open
    <3>2. Proceed(h, h2)
      BY <2>2
    <3> HIDE DEF i
    <3>3. /\ h2 \in HandlerType /\ h2.op = h.op /\ h2.set = h.set /\ h2.step = "read"
          /\ h2.ids = i
      BY <1>2, <3>1 DEF HandlerType
    <3> HIDE DEF h2
    <3>4. Closes(h2)
      BY <3>1, <3>3 DEF Closes
    <3> QED
      BY <1>0, <1>4, <2>0, <3>2, <3>3, <3>4, <1>15, <1>17, HandlerStepKept DEF Stays
  <2> QED
    BY <1>11, <2>1, <2>2 DEF CompleteRead
<1>12. CASE CompleteSweep(h)
  <2> DEFINE h2 == [h EXCEPT !.step = "swept", !.ids = {}]
  <2>1. /\ h2 \in HandlerType /\ h2.op = h.op /\ h2.set = h.set /\ h2.step = "swept"
        /\ h.op = "complete" /\ h.step = "read"
    BY <1>2, <1>12 DEF HandlerType, CompleteSweep, At
  <2>2. /\ Proceed(h, h2)
        /\ ckpt' = [s \in Sample |-> IF s \in h.ids THEN "not_attempted" ELSE ckpt[s]]
    BY <1>12 DEF CompleteSweep
  <2> HIDE DEF h2
  <2>3. h.ids \subseteq Beside(h.set) /\ h.ids \cap done \subseteq Reopened
    BY <1>2, <2>1 DEF KeptInv, Closes
  <2>4. \A s \in done : Stays(s) => ckpt'[s] = "completed" \/ s \in Reopened'
    BY <1>0, <1>15, <1>17, <2>2, <2>3
  <2>5. \A s \in cur : call.op = "sample" /\ Stays(s) => ckpt'[s] = "completed" \/ s \in Reopened'
    <3> SUFFICES ASSUME NEW s \in cur, call.op = "sample", s \in h.ids PROVE s \in again
      BY <1>0, <1>15, <1>17, <2>2 DEF Reopened
    <3>1. client = "uploading" /\ h \in late
      BY <1>2, <2>1 DEF StoredInv, CallMatches
    <3>2. Beside(h.set) \cap task \subseteq again
      BY <2>1, <3>1 DEF KeptInv
    <3> QED
      BY <1>0, <2>3, <3>2
  <2> QED
    BY <1>0, <2>1, <2>2, <2>4, <2>5, <1>15, <1>17, HandlerStepKept
<1>13. CASE CompleteTally(h)
  <2>1. Verdict \in {"running"} \cup Terminal
    BY DEF Verdict, Terminal
  <2> DEFINE h2 == [h EXCEPT !.step = "tallied", !.status = Verdict]
  <2>2. /\ h2 \in HandlerType /\ h2.op = h.op /\ h2.set = h.set /\ h2.step = "tallied"
        /\ h.op = "complete"
    BY <1>2, <1>13, <2>1 DEF HandlerType, CompleteTally, At, Terminal
  <2>3. Proceed(h, h2) /\ UNCHANGED serverVars
    BY <1>13 DEF CompleteTally
  <2> HIDE DEF h2
  <2> QED
    BY <1>0, <1>4, <2>2, <2>3, <1>15, <1>17, HandlerStepKept DEF Stays
<1>14. CASE CompleteSettle(h)
  <2> DEFINE h2 == [h EXCEPT !.step = "done"]
  <2>2. /\ h2 \in HandlerType /\ h2.op = h.op /\ h2.set = h.set /\ h2.step = "done"
        /\ h.op = "complete"
    BY <1>2, <1>14 DEF HandlerType, CompleteSettle, At
  <2>3. Proceed(h, h2) /\ UNCHANGED ckpt
    BY <1>14 DEF CompleteSettle
  <2> HIDE DEF h2
  <2> QED
    BY <1>0, <2>2, <2>3, <1>15, <1>17, HandlerStepKept DEF Stays
<1> QED
  BY <1>1, <1>5, <1>6, <1>7, <1>8, <1>9, <1>10, <1>11, <1>12, <1>13, <1>14 DEF HandlerStep

\* A request that is given up on keeps it.
LEMMA GiveUpKept ==
  ASSUME StoredInv, KeptInv, GiveUp
  PROVE  KeptInv'
<1>1. /\ call' = [call EXCEPT !.step = "lost", !.ids = {}] /\ call \in HandlerType
      /\ late' = late \/ late' = late \cup {call}
      /\ UNCHANGED <<serverVars, clientVars, userVars>>
      /\ call.op # "none"
  BY RemoteAssumption DEF GiveUp, Outlives, StoredInv, TypeOK
<1>2. call'.op = call.op /\ call'.set = call.set /\ call'.step = "lost"
  BY <1>1 DEF HandlerType
<1>3. UNCHANGED <<ckpt, undone, client, task, todo, done, cur, launch, retry, again>>
  BY <1>1 DEF serverVars, clientVars, userVars
<1>6. call'.op = "claim" => ClaimExact(call, ckpt)'
  BY <1>2 DEF ClaimExact
<1>4. ASSUME NEW g \in late' \cup {call'}, g.op = "complete"
      PROVE  Taken(g.set)' /\ (g.step = "read" => Closes(g)')
  BY <1>1, <1>2, <1>3, <1>4 DEF KeptInv, Taken, Closes, Reopened
<1>5. client' \in {"asking", "prompting", "uploading", "reporting"} =>
       \A g \in late' : g.op = "complete" => Beside(g.set) \cap task' \subseteq again'
  BY <1>1, <1>3 DEF KeptInv, StoredInv, CallMatches
<1> QED
  BY <1>1, <1>2, <1>3, <1>4, <1>5, <1>6 DEF KeptInv, Taken, Stays, Reopened

\* A collector that is killed forgets what it uploaded.
LEMMA CrashKept ==
  ASSUME StoredInv, KeptInv, Crash
  PROVE  KeptInv'
<1>1. /\ call' = NoCall /\ client' = "idle" /\ task' = {} /\ done' = {} /\ cur' = {}
      /\ late' \subseteq late \cup {call}
      /\ UNCHANGED <<ckpt, undone, retry, again>>
  BY DEF Crash, Outlives, serverVars, userVars
<1>2. NoCall.op = "none"
  BY DEF NoCall
<1>3. \A h \in late' : h.op = "complete" => Taken(h.set)' /\ (h.step = "read" => Closes(h)')
  BY <1>1 DEF KeptInv, Taken, Closes
<1> QED
  BY <1>1, <1>2, <1>3 DEF KeptInv, Taken, Beside

\* Every step of the collector keeps it.
LEMMA CollectKept ==
  ASSUME StoredInv, KeptInv, Collect
  PROVE  KeptInv'
<1>0. /\ UNCHANGED <<ckpt, undone, retry, again, late>> /\ ClientStep
      /\ task \subseteq Sample /\ todo \subseteq task /\ cur \subseteq todo
  BY DEF Collect, serverVars, userVars, StoredInv, TypeOK
<1>1. /\ NoCall.op = "none"
      /\ \A op, set, status : /\ Request(op, set, status).op = op
                              /\ Request(op, set, status).set = set
                              /\ Request(op, set, status).step = "sent"
                              /\ Request(op, set, status).ids = {}
  BY DEF NoCall, Request
<1>2. CASE Poll
  BY <1>0, <1>1, <1>2 DEF Poll, clientVars, KeptInv, Stays, Taken, Closes, Reopened, ClaimExact
<1>3. CASE Claimed
  <2>1. /\ call.op = "claim" /\ call.step = "done"
        /\ client' = "asking" /\ task' = call.ids /\ done' = {} /\ call' = NoCall
    BY <1>3 DEF Claimed, Answered
  <2>2. ClaimExact(call, ckpt)
    BY <2>1 DEF KeptInv
  <2>3. Taken(task)'
    BY <1>0, <2>1, <2>2 DEF Taken, ClaimExact
  <2>4. \A g \in late : g.op = "complete" => Beside(g.set) \cap task' \subseteq again
    BY <2>1, <2>2 DEF ClaimExact
  <2> QED
    BY <1>0, <1>1, <2>1, <2>3, <2>4 DEF KeptInv, Stays, Taken, Closes, Reopened
<1>4. CASE NotClaimed
  BY <1>0, <1>1, <1>4 DEF NotClaimed, clientVars, KeptInv, Stays, Taken, Closes, Reopened
<1>5. CASE StartPrompt
  <2>1. /\ call'.op = "attempt" /\ UNCHANGED <<task, done>> /\ client = "asking"
    BY <1>1, <1>5 DEF StartPrompt
  <2> QED
    BY <1>0, <2>1 DEF KeptInv, Stays, Taken, Closes, Reopened
<1>6. CASE Answer
  <2>1. /\ call'.op = "sample" /\ call'.step = "sent" /\ UNCHANGED <<task, done>>
        /\ client = "prompting"
    BY <1>1, <1>6 DEF Answer
  <2> QED
    BY <1>0, <2>1 DEF KeptInv, Stays, Taken, Closes, Reopened
<1>7. CASE PromptFails
  <2>1. /\ call'.op = "attempt" /\ UNCHANGED <<task, done>> /\ client = "prompting"
    BY <1>1, <1>7 DEF PromptFails
  <2> QED
    BY <1>0, <2>1 DEF KeptInv, Stays, Taken, Closes, Reopened
<1>8. CASE Reported
  <2>1. call'.op = "none" /\ UNCHANGED <<task, done>> /\ client = "reporting"
    BY <1>1, <1>8 DEF Reported
  <2> QED
    BY <1>0, <2>1 DEF KeptInv, Stays, Taken, Closes, Reopened
<1>9. CASE Uploaded
  <2>1. /\ call'.op = "none" /\ client = "uploading" /\ UNCHANGED task /\ done' = done \cup cur
        /\ call.step = "done"
    BY <1>1, <1>9 DEF Uploaded, Answered
  <2>2. \A s \in cur : Stays(s)
    BY <2>1 DEF KeptInv, StoredInv, CallMatches
  <2>3. \A g \in late : g.op = "complete" => Beside(g.set) \cap task \subseteq again
    BY <2>1 DEF KeptInv
  <2>4. \A g \in late : g.op = "complete" /\ g.step = "read" =>
          g.ids \subseteq Beside(g.set) /\ g.ids \cap (done \cup cur) \subseteq Reopened
    BY <1>0, <2>3 DEF KeptInv, Closes, Reopened
  <2> QED
    BY <1>0, <2>1, <2>2, <2>3, <2>4 DEF KeptInv, Stays, Taken, Closes, Reopened
<1>10. CASE Relaunch
  <2>1. /\ call'.op = "none" /\ UNCHANGED <<task, done>>
        /\ client \in {"asking", "prompting", "uploading"}
    BY <1>1, <1>10 DEF Relaunch, BreaksOff
  <2> QED
    BY <1>0, <2>1 DEF KeptInv, Stays, Taken, Closes, Reopened
<1>11. CASE Finish \/ Throw \/ CompleteAgain
  <2>1. /\ call'.op = "complete" /\ call'.set = task /\ call'.step = "sent"
        /\ client' \in {"completing", "failing"} /\ UNCHANGED <<task, done>>
    BY <1>1, <1>11 DEF Finish, Throw, CompleteAgain
  <2> QED
    BY <1>0, <2>1 DEF KeptInv, Stays, Taken, Closes, Reopened
<1>12. CASE Completed
  <2>1. call'.op = "none" /\ task' = {} /\ done' = {} /\ client' = "idle"
    BY <1>1, <1>12 DEF Completed, IdleTask
  <2> QED
    BY <1>0, <2>1 DEF KeptInv, Stays, Taken, Closes, Reopened, Beside
<1> QED
  BY <1>0, <1>2, <1>3, <1>4, <1>5, <1>6, <1>7, <1>8, <1>9, <1>10, <1>11, <1>12 DEF ClientStep

\* Every step of the dispatcher and of the user's retry keeps it.
LEMMA UserKept ==
  ASSUME StoredInv, KeptInv, Select \/ GoOn
  PROVE  KeptInv'
<1>0. /\ UNCHANGED <<client, task, todo, done, cur, launch, call, late, undone>>
      /\ done \subseteq Sample /\ cur \subseteq Sample /\ again \subseteq Sample
  BY DEF Select, GoOn, RetrySelect, RetryReopen, RetryMark, DispatchRead, DispatchMark, serverVars,
     clientVars, wireVars, StoredInv, TypeOK
\* Samples that are queued now were queued before or are retried.
<1>1. ASSUME again \subseteq again',
             \A s \in Sample : ckpt'[s] = "queued" => ckpt[s] = "queued" \/ s \in again',
             \A s \in Sample : ckpt[s] = "completed" => ckpt'[s] = "completed" \/ s \in again',
             retry'.step # "none" => retry'.ids \subseteq again'
      PROVE  KeptInv'
  <2>1. \A set : Taken(set) => Taken(set)'
    BY <1>1 DEF Taken, Beside
  <2>2. \A s \in Sample : Stays(s) => Stays(s)'
    BY <1>0, <1>1 DEF Stays, Reopened
  <2>3. \A h : Closes(h) => Closes(h)'
    BY <1>0, <1>1 DEF Closes, Reopened
  <2>4. call.op = "claim" => ClaimExact(call, ckpt)'
    BY <1>0, <1>1 DEF KeptInv, ClaimExact, Beside
  <2> QED
    BY <1>0, <1>1, <2>1, <2>2, <2>3, <2>4 DEF KeptInv
<1>2. CASE Select
  BY <1>1, <1>2 DEF Select, RetrySelect, serverVars
<1>3. CASE RetryReopen
  <2>1. retry.ids \subseteq again
    BY <1>3 DEF RetryReopen, KeptInv
  <2>2. retry'.ids = retry.ids
    BY <1>3 DEF RetryReopen, StoredInv, TypeOK
  <2> QED
    BY <1>1, <1>3, <2>1, <2>2 DEF RetryReopen
<1>4. CASE RetryMark
  BY <1>1, <1>4 DEF RetryMark, NoRetry
<1>5. CASE DispatchRead \/ DispatchMark
  BY <1>1, <1>5 DEF DispatchRead, DispatchMark, serverVars, KeptInv
<1> QED
  BY <1>2, <1>3, <1>4, <1>5 DEF GoOn

\* So every step keeps it.
LEMMA RemoteStepKept ==
  ASSUME StoredInv, KeptInv, [Next]_vars
  PROVE  KeptInv'
<1>1. CASE UNCHANGED vars
  BY <1>1 DEF vars, serverVars, clientVars, wireVars, userVars, KeptInv, Stays, Taken, Closes,
     ClaimExact, Reopened
<1> QED
  BY <1>1, ServeKept, GiveUpKept, CrashKept, CollectKept, UserKept DEF Next

\* A checkpoint is completed only when a row of its sample was stored, with
\* any requests lost, duplicated or late, any crashes and any retries
\* (collectors.ts, the runner API).
THEOREM StoredBeforeCompleted == Spec => []CompletedHasRow
<1>1. StoredInv => CompletedHasRow
  BY DEF StoredInv
<1> QED
  BY <1>1, RemoteStored, PTL

\* A sample whose upload was answered stays completed while the collector works
\* on the task, unless it was retried while it was failed, or a claim or an
\* attempt that had been given up on wrote over it (collectors.ts:156,
\* runs.ts:378): with any requests lost, duplicated or late, any crashes and
\* any retries, nothing else takes an answer back.
THEOREM UploadsStay == Spec => []UploadedKept
<1>1. StoredInv /\ KeptInv /\ [Next]_vars => StoredInv' /\ KeptInv'
  BY RemoteStepKept, RemoteStepStored
<1>2. Init => StoredInv /\ KeptInv
  BY RemoteInitStored, RemoteInitKept
<1>3. StoredInv /\ KeptInv => UploadedKept
  BY DEF StoredInv, KeptInv, UploadedKept, Stays, Reopened
<1> QED
  BY <1>1, <1>2, <1>3, PTL DEF Spec

\* The collectors, their requests and the rows keep their types (collectors.ts),
\* with any requests lost, duplicated or late, any crashes and any retries.
THEOREM RemoteTypeCorrect == Spec => []TypeOK
<1>1. StoredInv => TypeOK
  BY DEF StoredInv
<1> QED
  BY <1>1, RemoteStored, PTL

-----------------------------------------------------------------------------
(* The plan of a detection (RunPlan).                                      *)

\* A set of naturals that is not empty has a least element.
LEMMA LeastNat ==
  ASSUME NEW T, T \subseteq Nat, T # {}
  PROVE  \E n \in T : \A m \in T : n <= m
<1> DEFINE R == OpToRel(<, Nat)
<1>1. IsWellFoundedOn(R, Nat)
  BY NatLessThanWellFounded
<1>2. \A m, n \in Nat : m < n => <<m, n>> \in R
  BY DEF OpToRel
<1> HIDE DEF R
<1>3. PICK n \in T : \A m \in T : ~(<<m, n>> \in R)
  BY <1>1, WFMin
<1>4. ASSUME NEW m \in T PROVE n <= m
  <2>1. m \in Nat /\ n \in Nat /\ ~(m < n)
    BY <1>2, <1>3
  <2> QED
    BY <2>1
<1> QED
  BY <1>4

\* Multiplication keeps the order.
LEMMA Product ==
  ASSUME NEW a \in Int, NEW b \in Int, NEW c \in Nat, a <= b
  PROVE  a * c \in Int /\ b * c \in Int /\ a * c <= b * c
BY SMT

\* A multiple of a period in days, in quarters.
LEMMA FoursOf ==
  ASSUME NEW a \in Int, NEW b \in Int, NEW r \in Int, NEW k \in Int
  PROVE  4 * a + b + (4 * r) * k = 4 * (a + r * k) + b
BY SMT

\* The remainder of what is a multiple and less than one more.
LEMMA RemainderIs ==
  ASSUME NEW n \in Nat \ {0}, NEW k \in Nat, NEW r \in 0 .. n - 1
  PROVE  (r + n * k) % n = r
<1> DEFINE x == r + n * k
           q == x \div n
           s == x % n
<1>1. n * k \in Nat /\ x \in Nat
  BY SMT
<1>2. x = r + n * k
  OBVIOUS
<1> HIDE DEF x
<1>3. q \in Nat /\ s \in 0 .. n - 1 /\ x = n * q + s
  BY <1>1, SMT
<1> HIDE DEF q
<1>4. n * k = k * n /\ n * q = q * n /\ q * n \in Int /\ k * n \in Int
      /\ (k - 1) * n = k * n - n /\ (q - 1) * n = q * n - n
  BY <1>3, SMT
<1>5. ~(q < k)
  <2> SUFFICES ASSUME q < k PROVE FALSE
    OBVIOUS
  <2>1. q * n <= (k - 1) * n
    <3>1. q \in Int /\ k - 1 \in Int /\ q <= k - 1
      BY <1>3
    <3> QED
      BY <3>1, Product
  <2> QED
    BY <1>1, <1>2, <1>3, <1>4, <2>1
<1>6. ~(k < q)
  <2> SUFFICES ASSUME k < q PROVE FALSE
    OBVIOUS
  <2>1. k * n <= (q - 1) * n
    <3>1. k \in Int /\ q - 1 \in Int /\ k <= q - 1
      BY <1>3
    <3> QED
      BY <3>1, Product
  <2> QED
    BY <1>1, <1>2, <1>3, <1>4, <2>1
<1>7. q = k
  BY <1>3, <1>5, <1>6
<1> QED
  BY <1>1, <1>2, <1>3, <1>7 DEF x

\* A quotient that is rounded up.
LEMMA RoundedUp ==
  ASSUME NEW r \in Nat, NEW n \in Nat \ {0}
  PROVE  LET m == (r + n - 1) \div n IN
         /\ m \in Nat /\ r <= m * n /\ (r > 0 => m > 0 /\ (m - 1) * n < r) /\ (r = 0 => m = 0)
<1> DEFINE s == r + n - 1
           m == s \div n
<1>1. s \in Nat
  OBVIOUS
<1> HIDE DEF s
<1>2. m \in Nat /\ s % n \in 0 .. n - 1 /\ s = n * m + (s % n)
  BY <1>1, SMT
<1> HIDE DEF m
<1>3. s = r + n - 1
  BY DEF s
<1>4. m * n = n * m /\ m * n \in Nat /\ (m - 1) * n = m * n - n
  BY <1>2, SMT
<1>5. r <= m * n /\ (r > 0 => (m - 1) * n < r)
  BY <1>2, <1>3, <1>4
<1>6. r > 0 => m > 0
  BY <1>2, <1>4, <1>5, SMT
<1>7. r = 0 => m = 0
  BY <1>2, <1>3, <1>4, SMT
<1> QED
  BY <1>2, <1>5, <1>6, <1>7 DEF m, s

\* The batches of one round: consecutive pieces of at most PlanLimit prompts,
\* the first one no longer than the capacity, which hold every prompt.
LEMMA ChunkFacts ==
  ASSUME request \in PlanRequest, NEW c \in Nat \ {0}
  PROVE  /\ Len(Chunks(c)) \in Nat \ {0} /\ DOMAIN Chunks(c) = 1 .. Len(Chunks(c))
         /\ \A i \in DOMAIN Chunks(c) :
              /\ Chunks(c)[i].from \in 1 .. request.prompts
              /\ Chunks(c)[i].to \in 1 .. request.prompts
              /\ Chunks(c)[i].to - Chunks(c)[i].from < PlanLimit
              /\ Chunks(c)[i].from <= Chunks(c)[i].to
         /\ Chunks(c)[1].to - Chunks(c)[1].from + 1 <= c
         /\ \A i, j \in DOMAIN Chunks(c) : i < j => Chunks(c)[i].to < Chunks(c)[j].from
         /\ \A k \in 1 .. request.prompts :
              \E i \in DOMAIN Chunks(c) : Chunks(c)[i].from <= k /\ k <= Chunks(c)[i].to
<1> USE PlanAssumption
<1> DEFINE L == PlanLimit
           P == request.prompts
           first == Larger(1, Smaller(c, L))
           rest == Larger(0, P - first)
           m == (rest + L - 1) \div L
           from(i) == IF i = 1 THEN 1 ELSE first + (i - 2) * L + 1
           to(i) == Smaller(P, first + (i - 1) * L)
           cs == Chunks(c)
<1>1. P \in Nat \ {0} /\ L \in Nat \ {0}
  BY DEF PlanRequest
<1>2. cs = [i \in 1 .. 1 + m |-> [from |-> from(i), to |-> to(i)]]
  BY DEF Chunks
<1>3. first \in 1 .. L /\ first <= c
  BY <1>1 DEF Larger, Smaller
<1>4. rest \in Nat /\ rest >= P - first /\ (rest > 0 => rest = P - first)
  BY <1>1, <1>3 DEF Larger
<1>5. m \in Nat /\ rest <= m * L /\ (rest > 0 => m > 0 /\ (m - 1) * L < rest) /\ (rest = 0 => m = 0)
  BY <1>1, <1>4, RoundedUp
<1> HIDE DEF L, P, first, rest, m, cs
<1>6. Len(cs) = 1 + m /\ DOMAIN cs = 1 .. 1 + m
  <2> DEFINE S == {cs[i] : i \in 1 .. 1 + m}
  <2>1. 1 + m \in Nat /\ cs \in [1 .. 1 + m -> S]
    <3>1. cs = [i \in 1 .. 1 + m |-> cs[i]]
      <4> HIDE DEF from, to
      <4> QED
        BY <1>2
    <3> QED
      BY <1>5, <3>1
  <2> HIDE DEF S
  <2>2. cs \in Seq(S) /\ DOMAIN cs = 1 .. 1 + m
    BY <2>1, SeqDef
  <2>3. Len(cs) \in Nat /\ DOMAIN cs = 1 .. Len(cs)
    BY <2>2, LenProperties
  <2> QED
    BY <2>1, <2>2, <2>3
<1>7. \A i \in 1 .. 1 + m : cs[i].from = from(i) /\ cs[i].to = to(i)
  BY <1>2
<1>8. to(1) = Smaller(P, first)
  BY <1>1, <1>3
\* The bounds of the pieces after the first.
<1>9. ASSUME NEW i \in 2 .. 1 + m
      PROVE  /\ (i - 2) * L \in Nat /\ (i - 1) * L = (i - 2) * L + L
             /\ first + (i - 2) * L < P
  <2>1. m > 0 /\ rest > 0 /\ rest = P - first /\ (m - 1) * L < rest
    BY <1>4, <1>5, <1>9
  <2>2. i - 2 \in Nat /\ m - 1 \in Nat /\ i - 2 <= m - 1
    BY <1>5, <1>9
  <2>3. (i - 2) * L <= (m - 1) * L /\ (i - 2) * L \in Int /\ (m - 1) * L \in Int
    BY <1>1, <2>2, Product
  <2>4. (i - 2) * L \in Nat
    BY <1>1, <2>2, SMT
  <2>5. (i - 1) * L = (i - 2) * L + L
    BY <1>1, <2>2, SMT
  <2> QED
    BY <1>1, <1>3, <2>1, <2>3, <2>4, <2>5
<1>10. ASSUME NEW i \in DOMAIN cs
       PROVE  /\ cs[i].from \in 1 .. P /\ cs[i].to \in 1 .. P
              /\ cs[i].to - cs[i].from < L /\ cs[i].from <= cs[i].to
  <2>1. CASE i = 1
    <3>1. cs[i].from = 1 /\ cs[i].to = Smaller(P, first)
      BY <1>6, <1>7, <1>8, <1>10, <2>1
    <3> QED
      BY <1>1, <1>3, <3>1 DEF Smaller
  <2>2. CASE i # 1
    <3>1. i \in 2 .. 1 + m
      BY <1>5, <1>6, <1>10, <2>2
    <3> DEFINE a == (i - 2) * L
               b == (i - 1) * L
    <3>2. cs[i].from = first + a + 1 /\ cs[i].to = Smaller(P, first + b)
      BY <1>6, <1>7, <1>10, <2>2
    <3>3. a \in Nat /\ b = a + L /\ first + a < P
      BY <1>9, <3>1
    <3> HIDE DEF a, b
    <3> QED
      BY <1>1, <1>3, <3>2, <3>3 DEF Smaller
  <2> QED
    BY <2>1, <2>2
<1>11. cs[1].to - cs[1].from + 1 <= c
  <2>1. cs[1].from = 1 /\ cs[1].to = Smaller(P, first)
    BY <1>5, <1>7, <1>8
  <2> QED
    BY <1>1, <1>3, <2>1 DEF Smaller
<1>12. ASSUME NEW i \in DOMAIN cs, NEW j \in DOMAIN cs, i < j
       PROVE  cs[i].to < cs[j].from
  <2>1. i \in 1 .. 1 + m /\ j \in 2 .. 1 + m /\ j # 1
    BY <1>5, <1>6, <1>12
  <2> DEFINE a == (i - 1) * L
             b == (j - 2) * L
  <2>2. cs[i].to = Smaller(P, first + a) /\ cs[j].from = first + b + 1
    BY <1>7, <2>1
  <2>3. a \in Int /\ b \in Int /\ a <= b
    <3>1. i - 1 \in Int /\ j - 2 \in Int /\ i - 1 <= j - 2 /\ L \in Nat
      BY <1>1, <1>5, <1>12, <2>1
    <3> QED
      BY <3>1, Product
  <2> HIDE DEF a, b
  <2> QED
    BY <1>1, <1>3, <2>2, <2>3 DEF Smaller
<1>13. ASSUME NEW k \in 1 .. P
       PROVE  \E i \in DOMAIN cs : cs[i].from <= k /\ k <= cs[i].to
  <2>1. CASE k <= first
    <3>1. cs[1].from = 1 /\ cs[1].to = Smaller(P, first) /\ 1 \in DOMAIN cs
      BY <1>5, <1>6, <1>7, <1>8
    <3> QED
      BY <1>1, <1>3, <1>13, <2>1, <3>1 DEF Smaller
  <2>2. CASE k > first
    <3> DEFINE q == ((k - first) + L - 1) \div L
    <3>1. k - first \in Nat /\ k - first > 0 /\ k - first <= rest /\ rest > 0
      BY <1>1, <1>3, <1>4, <1>13, <2>2
    <3>2. q \in Nat /\ k - first <= q * L /\ q > 0 /\ (q - 1) * L < k - first
      BY <1>1, <3>1, RoundedUp
    <3> HIDE DEF q
    <3>3. q <= m
      <4>1. CASE q > m
        <5>1. m * L <= (q - 1) * L /\ m * L \in Int /\ (q - 1) * L \in Int
          <6>1. m \in Int /\ q - 1 \in Int /\ m <= q - 1 /\ L \in Nat
            BY <1>1, <1>5, <3>2, <4>1
          <6> QED
            BY <6>1, Product
        <5> QED
          BY <1>4, <1>5, <3>1, <3>2, <5>1
      <4> QED
        BY <1>5, <3>2, <4>1
    <3>4. q + 1 \in DOMAIN cs /\ q + 1 # 1 /\ (q + 1) - 2 = q - 1 /\ (q + 1) - 1 = q
      BY <1>5, <1>6, <3>2, <3>3
    <3>5. cs[q + 1].from = first + (q - 1) * L + 1 /\ cs[q + 1].to = Smaller(P, first + q * L)
      BY <1>6, <1>7, <3>4
    <3>6. (q - 1) * L \in Int /\ q * L \in Int
      BY <1>1, <3>2, SMT
    <3>7. cs[q + 1].from <= k /\ k <= cs[q + 1].to
      BY <1>1, <1>3, <1>13, <3>2, <3>5, <3>6 DEF Smaller
    <3> QED
      BY <3>4, <3>7
  <2> QED
    BY <1>1, <1>3, <1>13, <2>1, <2>2
<1>14. Len(cs) \in Nat \ {0} /\ DOMAIN cs = 1 .. Len(cs)
  BY <1>5, <1>6
<1> QED
  BY <1>10, <1>11, <1>12, <1>13, <1>14 DEF P, L, cs

\* The time of the request is typed by the set it is chosen from.
LEMMA RequestFields ==
  ASSUME request \in PlanRequest
  PROVE  /\ request.prompts \in Nat \ {0} /\ request.rounds \in Nat \ {0}
         /\ request.now \in 0 .. 3 /\ request.localTime \in 0 .. 3
         /\ request.day \in Nat /\ request.repeat \in Nat /\ request.reliable \in BOOLEAN
         /\ request.repeat # NoRepeat => request.day < request.repeat /\ ~request.reliable
         /\ request.done \in [PlanProvider -> 0 .. MaxDone]
<1> USE PlanAssumption
<1>1. request \in [prompts : 1 .. MaxPrompts, rounds : 1 .. MaxRounds,
          done : [PlanProvider -> 0 .. MaxDone], now : 0 .. Quarters - 1,
          repeat : Repeats \cup {NoRepeat}, day : 0 .. 6,
          localTime : 0 .. Quarters - 1, reliable : BOOLEAN]
      /\ request.day < Larger(1, request.repeat)
      /\ IF request.repeat = NoRepeat THEN request.localTime = 0 ELSE ~request.reliable
  BY DEF PlanRequest
<1>2. request.repeat \in Nat
  <2>1. request.repeat \in Repeats \cup {NoRepeat}
    BY <1>1
  <2>2. request.repeat \in Repeats => request.repeat \in Nat
    OBVIOUS
  <2> QED
    BY <2>1, <2>2 DEF NoRepeat
<1>3. request.repeat # NoRepeat => request.day < request.repeat
  BY <1>1, <1>2 DEF Larger, NoRepeat
<1> QED
  BY <1>1, <1>2, <1>3 DEF Quarters

\* What the providers have left today: the least of it, or none.
LEMMA AvailableFacts ==
  ASSUME request \in PlanRequest
  PROVE  /\ Available \in Nat
         /\ Available > 0 => \A p \in PlanProvider : request.done[p] + Available <= PlanLimit
<1> USE PlanAssumption
<1> DEFINE left == {PlanLimit - request.done[p] : p \in PlanProvider}
           up == {MaxDone - request.done[p] : p \in PlanProvider}
<1>1. \A p \in PlanProvider : request.done[p] \in 0 .. MaxDone
  BY RequestFields
<1>2. up \subseteq Nat /\ up # {}
  BY <1>1
<1>3. PICK u \in up : \A v \in up : u <= v
  <2> HIDE DEF up
  <2> QED
    BY <1>2, LeastNat
<1>4. PICK p \in PlanProvider : u = MaxDone - request.done[p]
  BY <1>3
<1>5. \A q \in PlanProvider : PlanLimit - request.done[p] <= PlanLimit - request.done[q]
  <2> SUFFICES ASSUME NEW q \in PlanProvider
               PROVE  PlanLimit - request.done[p] <= PlanLimit - request.done[q]
    OBVIOUS
  <2>1. MaxDone - request.done[p] <= MaxDone - request.done[q]
    BY <1>3, <1>4
  <2> QED
    BY <1>1, <2>1
<1>6. \E n \in left : \A m \in left : n <= m
  BY <1>5
<1> DEFINE least == CHOOSE n \in left : \A m \in left : n <= m
<1>7. least \in left /\ \A m \in left : least <= m
  BY <1>6
<1>8. left \subseteq Int
  BY <1>1
<1>9. Available = Larger(0, least)
  BY DEF Available
<1> HIDE DEF least
<1>10. \A q \in PlanProvider : least <= PlanLimit - request.done[q]
  BY <1>7
<1>11. least \in Int
  BY <1>7, <1>8
<1>12. Available \in Nat /\ (Available > 0 => Available = least)
  BY <1>9, <1>11 DEF Larger
<1>13. ASSUME Available > 0, NEW q \in PlanProvider
       PROVE  request.done[q] + Available <= PlanLimit
  <2>1. least <= PlanLimit - request.done[q] /\ request.done[q] \in Int
    BY <1>1, <1>10
  <2> QED
    BY <1>11, <1>12, <1>13, <2>1
<1> QED
  BY <1>12, <1>13

\* The days begin every fourth quarter.
LEMMA LocalDayFacts ==
  ASSUME NEW t \in Nat
  PROVE  /\ LocalDay(t) \in Nat
         /\ 4 * LocalDay(t) <= t /\ t < 4 * LocalDay(t) + 4
         /\ t = 4 * LocalDay(t) + (t % 4) /\ t % 4 \in 0 .. 3
BY SMT DEF LocalDay, Quarters

\* Whole days added to a time are added to its day.
LEMMA LocalDayLater ==
  ASSUME NEW t \in Nat, NEW m \in Nat
  PROVE  LocalDay(t + m * Quarters) = LocalDay(t) + m
BY SMT DEF LocalDay, Quarters

\* A plan that repeats has an occurrence within its period: at the time of day
\* and on the day it names.
LEMMA OccurrenceExists ==
  ASSUME request \in PlanRequest, request.repeat # NoRepeat, NEW t \in Nat
  PROVE  \E u \in t + 1 .. t + request.repeat * Quarters :
           u % Quarters = request.localTime /\ LocalDay(u) % request.repeat = request.day
<1> DEFINE R == request.repeat
           M == 4 * R
           goal == 4 * request.day + request.localTime
           k == (t + M - goal) \div M
           u == goal + M * k
<1>1. R \in Nat \ {0} /\ M \in Nat \ {0} /\ goal \in 0 .. M - 1 /\ t + M - goal \in Nat
  BY RequestFields DEF NoRepeat
<1>2. k \in Nat /\ M * k <= t + M - goal /\ t + M - goal < M * k + M /\ M * k \in Nat
  <2> DEFINE a == t + M - goal
  <2>1. a \in Nat /\ M \in Nat \ {0}
    BY <1>1
  <2> HIDE DEF a, M, goal
  <2>2. a \div M \in Nat /\ a % M \in 0 .. M - 1 /\ a = M * (a \div M) + (a % M)
    BY <2>1, SMT
  <2>3. M * (a \div M) \in Nat
    BY <2>1, <2>2, SMT
  <2>4. k = a \div M
    BY DEF a
  <2> HIDE DEF k
  <2>5. k \in Nat /\ M * k \in Nat /\ M * k <= a /\ a < M * k + M
    BY <2>1, <2>2, <2>3, <2>4
  <2> QED
    BY <2>5 DEF a
<1> HIDE DEF k
<1>3. u \in t + 1 .. t + R * Quarters
  BY <1>1, <1>2 DEF Quarters
<1>4. u = 4 * (request.day + R * k) + request.localTime
  <2>1. R \in Int /\ k \in Int /\ request.day \in Int /\ request.localTime \in Int
    BY <1>1, <1>2, RequestFields
  <2> QED
    BY <2>1, FoursOf
<1> DEFINE d == request.day + R * k
<1>5. d \in Nat /\ R * k \in Nat
  BY <1>1, <1>2, RequestFields, SMT
<1>6. u % Quarters = request.localTime /\ LocalDay(u) = d
  <2>1. request.localTime \in 0 .. 3
    BY RequestFields
  <2> HIDE DEF d
  <2> QED
    BY <1>4, <1>5, <2>1, SMT DEF Quarters, LocalDay, d
<1>7. d % R = request.day
  <2>1. R \in Nat \ {0} /\ k \in Nat /\ request.day \in 0 .. R - 1
    BY <1>1, <1>2, RequestFields
  <2> QED
    BY <2>1, RemainderIs
<1> QED
  BY <1>3, <1>6, <1>7

\* A later time is on no earlier day, and on a later one at the same time of day.
LEMMA LaterDay ==
  ASSUME NEW t \in Nat, NEW u \in Nat, t < u
  PROVE  /\ LocalDay(t) <= LocalDay(u)
         /\ t % 4 = u % 4 => LocalDay(t) < LocalDay(u)
<1>1. /\ LocalDay(t) \in Nat /\ t = 4 * LocalDay(t) + (t % 4) /\ t % 4 \in 0 .. 3
  BY LocalDayFacts
<1>2. /\ LocalDay(u) \in Nat /\ u = 4 * LocalDay(u) + (u % 4) /\ u % 4 \in 0 .. 3
  BY LocalDayFacts
<1> DEFINE d == LocalDay(t)
           e == LocalDay(u)
           a == t % 4
           b == u % 4
<1>3. d \in Nat /\ e \in Nat /\ a \in 0 .. 3 /\ b \in 0 .. 3 /\ t = 4 * d + a /\ u = 4 * e + b
  BY <1>1, <1>2
<1> HIDE DEF d, e, a, b
<1>4. d <= e /\ (a = b => d < e)
  BY <1>3
<1> QED
  BY <1>4 DEF d, e, a, b

\* What is known of the next occurrence.
LEMMA OccurrenceFacts ==
  ASSUME request \in PlanRequest, request.repeat # NoRepeat, NEW t \in Nat
  PROVE  /\ NextOccurrence(t) \in Nat /\ t < NextOccurrence(t)
         /\ NextOccurrence(t) % Quarters = request.localTime
<1> DEFINE u == NextOccurrence(t)
<1>1. u \in t + 1 .. t + request.repeat * Quarters /\ u % Quarters = request.localTime
  <2>1. \E w \in t + 1 .. t + request.repeat * Quarters :
           w % Quarters = request.localTime /\ LocalDay(w) % request.repeat = request.day
    BY OccurrenceExists
  <2> QED
    BY <2>1, Zenon DEF NextOccurrence
<1>2. request.repeat * Quarters \in Nat
  BY RequestFields, SMT DEF Quarters
<1> HIDE DEF u
<1>3. u \in Nat /\ t < u
  BY <1>1, <1>2
<1> QED
  BY <1>1, <1>3 DEF u

\* The next round of a plan that repeats starts on a later day.
LEMMA NextRunLater ==
  ASSUME request \in PlanRequest, request.repeat # NoRepeat, NEW t \in Nat
  PROVE  NextRunAt(t) \in Nat /\ t < NextRunAt(t) /\ LocalDay(t) < LocalDay(NextRunAt(t))
<1> DEFINE u == NextOccurrence(t)
           v == NextOccurrence(u)
<1>1. u \in Nat /\ t < u /\ u % 4 = request.localTime
  BY OccurrenceFacts DEF Quarters
<1> HIDE DEF u
<1>2. v \in Nat /\ u < v /\ v % 4 = request.localTime
  BY <1>1, OccurrenceFacts DEF Quarters
<1> HIDE DEF v
<1>3. LocalDay(t) <= LocalDay(u)
  BY <1>1, LaterDay
<1>4. LocalDay(u) < LocalDay(v)
  BY <1>1, <1>2, LaterDay
<1>5. LocalDay(t) \in Nat /\ LocalDay(u) \in Nat /\ LocalDay(v) \in Nat
  BY <1>1, <1>2, LocalDayFacts
<1>6. NextRunAt(t) = IF LocalDay(u) = LocalDay(t) THEN v ELSE u
  BY DEF NextRunAt, u, v
<1> QED
  BY <1>1, <1>2, <1>3, <1>4, <1>5, <1>6

\* The invariant the plan is made under.
Dated == request.repeat # NoRepeat \/ ~request.reliable

\* A batch belongs to a round that is planned and is no longer than the limit.
PiecesFit ==
  \A i \in DOMAIN batches :
    /\ batches[i].round < round
    /\ batches[i].from <= batches[i].to
    /\ batches[i].to - batches[i].from < PlanLimit

\* The batches of a round follow one another.
PiecesApart ==
  \A i, j \in DOMAIN batches :
    i < j /\ batches[i].round = batches[j].round => batches[i].to < batches[j].from

\* A round that is planned holds every prompt.
EveryPrompt ==
  \A r \in 1 .. round - 1, k \in 1 .. request.prompts :
    \E i \in DOMAIN batches :
      batches[i].round = r /\ batches[i].from <= k /\ k <= batches[i].to

\* The next round starts after what is planned, and on a later day.
StartsLater ==
  round <= request.rounds =>
    \A i \in DOMAIN batches :
      /\ batches[i].at < roundStart
      /\ Dated => LocalDay(batches[i].at) < LocalDay(roundStart)

\* The first round starts when it is asked for or a day later, the others never
\* on that day.
FirstStart ==
  /\ round = 1 => /\ batches = <<>>
                  /\ roundStart = request.now + IF Available > 0 THEN 0 ELSE Quarters
  /\ round > 1 /\ round <= request.rounds /\ Dated => 1 <= LocalDay(roundStart)

\* The inductive invariant of the plan.
PlanInv ==
  /\ PlanTypeOK
  /\ PiecesFit
  /\ PiecesApart
  /\ EveryPrompt
  /\ StartsLater
  /\ FirstStart
  /\ DueInOrder
  /\ WithinEachDay

\* It holds before the first round.
LEMMA PlanInitInv == PlanInit => PlanInv
<1> SUFFICES ASSUME PlanInit PROVE PlanInv
  OBVIOUS
<1> USE DEF PlanInit
<1>1. DOMAIN batches = {}
  BY DEF PlanInit
<1>2. request \in PlanRequest /\ round = 1 /\ batches = <<>>
  BY DEF PlanInit
<1>3. PlanTypeOK
  <2>1. roundStart \in Nat
    BY <1>2, RequestFields DEF Quarters
  <2>2. round \in 1 .. request.rounds + 1
    BY <1>2, RequestFields
  <2> QED
    BY <1>2, <2>1, <2>2 DEF PlanTypeOK
<1>4. PiecesFit /\ PiecesApart /\ StartsLater /\ DueInOrder /\ WithinEachDay
  BY <1>1 DEF PiecesFit, PiecesApart, StartsLater, DueInOrder, WithinEachDay
<1>5. EveryPrompt
  BY <1>2 DEF EveryPrompt
<1>6. FirstStart
  BY <1>2 DEF FirstStart
<1> QED
  BY <1>3, <1>4, <1>5, <1>6 DEF PlanInv

\* One round made: the rows it adds, one by one.
LEMMA RoundAdded ==
  ASSUME PlanTypeOK, PlanRound
  PROVE  LET n == Len(batches)
             c == IF round = 1 /\ Available > 0 THEN Available ELSE PlanLimit
             cs == Chunks(c)
             m == Len(cs)
         IN  /\ n \in Nat /\ DOMAIN batches = 1 .. n
             /\ c \in Nat \ {0}
             /\ m \in Nat \ {0} /\ DOMAIN cs = 1 .. m
             /\ DOMAIN batches' = 1 .. n + m
             /\ \A i \in 1 .. n : batches'[i] = batches[i]
             /\ \A i \in 1 .. m :
                  batches'[n + i] = [round |-> round, from |-> cs[i].from, to |-> cs[i].to,
                                     at |-> roundStart + (i - 1) * Quarters]
             /\ roundStart' = IF request.repeat # NoRepeat
                THEN IF round < request.rounds
                     THEN NextRunAt(roundStart + (m - 1) * Quarters) ELSE roundStart
                ELSE roundStart + (m - 1) * Quarters + IF request.reliable THEN 1 ELSE Quarters
             /\ batches' \in Seq([round : 1 .. request.rounds, from : 1 .. request.prompts,
                                  to : 1 .. request.prompts, at : Nat])
<1> USE PlanAssumption
<1> DEFINE n == Len(batches)
           c == IF round = 1 /\ Available > 0 THEN Available ELSE PlanLimit
           cs == Chunks(c)
           m == Len(cs)
           row(i) == [round |-> round, from |-> cs[i].from, to |-> cs[i].to,
                      at |-> roundStart + (i - 1) * Quarters]
           new == [i \in DOMAIN cs |-> row(i)]
           Row == [round : 1 .. request.rounds, from : 1 .. request.prompts,
                   to : 1 .. request.prompts, at : Nat]
<1>1. /\ request \in PlanRequest /\ round \in 1 .. request.rounds + 1 /\ roundStart \in Nat
      /\ batches \in Seq(Row) /\ round <= request.rounds
  BY DEF PlanTypeOK, PlanRound
<1>2. request.rounds \in Nat \ {0} /\ Available \in Nat
  BY <1>1, RequestFields, AvailableFacts
<1>3. c \in Nat \ {0}
  BY <1>2
<1>4. (IF round = 1 THEN FirstRound ELSE RegularRound) = cs
  BY <1>2 DEF FirstRound, RegularRound
<1>5. batches' = batches \o new
      /\ roundStart' = IF request.repeat # NoRepeat
                THEN IF round < request.rounds
                     THEN NextRunAt(roundStart + (m - 1) * Quarters) ELSE roundStart
                ELSE roundStart + (m - 1) * Quarters + IF request.reliable THEN 1 ELSE Quarters
  BY <1>4 DEF PlanRound
<1> HIDE DEF c
<1>6. /\ m \in Nat \ {0} /\ DOMAIN cs = 1 .. m
      /\ \A i \in DOMAIN cs : cs[i].from \in 1 .. request.prompts /\ cs[i].to \in 1 .. request.prompts
  BY <1>1, <1>3, ChunkFacts
<1> HIDE DEF cs, m, Row
<1>7. \A i \in 1 .. m : row(i) \in Row
  <2> SUFFICES ASSUME NEW i \in 1 .. m PROVE row(i) \in Row
    OBVIOUS
  <2>1. roundStart + (i - 1) * Quarters \in Nat
    <3>1. i - 1 \in Nat
      BY <1>6
    <3> QED
      BY <1>1, <3>1 DEF Quarters
  <2>2. round \in 1 .. request.rounds
    BY <1>1, <1>2
  <2> QED
    BY <1>6, <2>1, <2>2 DEF Row
<1>8. new \in Seq(Row) /\ Len(new) = m /\ \A i \in 1 .. m : new[i] = row(i)
  <2> HIDE DEF row
  <2>1. new \in [1 .. m -> Row] /\ m \in Nat
    BY <1>6, <1>7
  <2>2. new \in Seq(Row) /\ DOMAIN new = 1 .. m
    BY <2>1, SeqDef
  <2>3. Len(new) \in Nat /\ DOMAIN new = 1 .. Len(new)
    BY <2>2, LenProperties
  <2>4. Len(new) = m
    BY <2>1, <2>2, <2>3
  <2> QED
    BY <1>6, <2>2, <2>4
<1>9. n \in Nat /\ DOMAIN batches = 1 .. n
  BY <1>1, LenProperties
<1> HIDE DEF new, row, n
<1>10. /\ batches \o new \in Seq(Row)
       /\ Len(batches \o new) = n + m
       /\ \A i \in 1 .. n + m : (batches \o new)[i] = IF i <= n THEN batches[i] ELSE new[i - n]
  BY <1>1, <1>8, ConcatProperties DEF n
<1>11. batches' \in Seq(Row) /\ DOMAIN batches' = 1 .. n + m
  BY <1>5, <1>10, LenProperties
<1>12. \A i \in 1 .. n : batches'[i] = batches[i]
  BY <1>5, <1>6, <1>9, <1>10
<1>13. ASSUME NEW i \in 1 .. m PROVE batches'[n + i] = row(i)
  <2>1. n + i \in 1 .. n + m /\ ~(n + i <= n) /\ (n + i) - n = i
    BY <1>6, <1>9
  <2> QED
    BY <1>5, <1>8, <1>10, <2>1
<1> QED
  BY <1>3, <1>5, <1>6, <1>9, <1>11, <1>12, <1>13 DEF n, c, cs, m, row, Row

\* The rows made so far, one by one.
LEMMA RowsTyped ==
  ASSUME PlanTypeOK
  PROVE  /\ DOMAIN batches = 1 .. Len(batches) /\ Len(batches) \in Nat
         /\ \A i \in DOMAIN batches :
              batches[i] \in [round : 1 .. request.rounds, from : 1 .. request.prompts,
                             to : 1 .. request.prompts, at : Nat]
<1>1. batches \in Seq([round : 1 .. request.rounds, from : 1 .. request.prompts,
                       to : 1 .. request.prompts, at : Nat])
  BY DEF PlanTypeOK
<1>2. DOMAIN batches = 1 .. Len(batches) /\ Len(batches) \in Nat
  BY <1>1, LenProperties
<1> QED
  BY <1>1, <1>2, ElementOfSeq

\* Making one round keeps the invariant.
LEMMA PlanRoundInv ==
  ASSUME PlanInv, PlanRound
  PROVE  PlanInv'
<1> USE PlanAssumption
<1> DEFINE n == Len(batches)
           c == IF round = 1 /\ Available > 0 THEN Available ELSE PlanLimit
           cs == Chunks(c)
           m == Len(cs)
           b == batches
           b2 == batches'
           at(i) == roundStart + (i - 1) * Quarters
           day(i) == LocalDay(roundStart) + (i - 1)
           P == request.prompts
<1>1. /\ PlanTypeOK /\ request \in PlanRequest /\ round \in 1 .. request.rounds + 1
      /\ round <= request.rounds /\ round \in Nat \ {0} /\ request.rounds \in Nat \ {0}
      /\ roundStart \in Nat /\ P \in Nat \ {0} /\ request' = request /\ round' = round + 1
  BY RequestFields DEF PlanInv, PlanTypeOK, PlanRound
<1>2. /\ n \in Nat /\ DOMAIN b = 1 .. n /\ c \in Nat \ {0} /\ m \in Nat \ {0}
      /\ DOMAIN cs = 1 .. m /\ DOMAIN b2 = 1 .. n + m
      /\ \A i \in 1 .. n : b2[i] = b[i]
      /\ \A i \in 1 .. m : b2[n + i] = [round |-> round, from |-> cs[i].from, to |-> cs[i].to,
                                        at |-> at(i)]
      /\ roundStart' = IF request.repeat # NoRepeat
                THEN IF round < request.rounds
                     THEN NextRunAt(roundStart + (m - 1) * Quarters) ELSE roundStart
                ELSE roundStart + (m - 1) * Quarters + IF request.reliable THEN 1 ELSE Quarters
      /\ batches' \in Seq([round : 1 .. request.rounds, from : 1 .. request.prompts,
                           to : 1 .. request.prompts, at : Nat])
  BY <1>1, RoundAdded
<1>3. /\ \A i \in 1 .. m : /\ cs[i].from \in 1 .. P /\ cs[i].to \in 1 .. P
                           /\ cs[i].to - cs[i].from < PlanLimit
                           /\ cs[i].from <= cs[i].to
      /\ cs[1].to - cs[1].from + 1 <= c
      /\ \A i, j \in 1 .. m : i < j => cs[i].to < cs[j].from
      /\ \A k \in 1 .. P : \E i \in 1 .. m : cs[i].from <= k /\ k <= cs[i].to
  <2> HIDE DEF c
  <2> QED
    BY <1>1, <1>2, ChunkFacts
<1> HIDE DEF n, c, cs, m, b, b2, at, day, P
<1>4. \A i \in 1 .. n : /\ b[i].round \in Nat /\ b[i].from \in 1 .. P /\ b[i].to \in 1 .. P
                        /\ b[i].at \in Nat /\ b[i].round < round /\ b[i].from <= b[i].to
                        /\ b[i].to - b[i].from < PlanLimit
  <2>1. \A i \in 1 .. n : b[i] \in [round : 1 .. request.rounds, from : 1 .. P,
                                     to : 1 .. P, at : Nat]
    BY <1>1, <1>2, RowsTyped DEF b, P
  <2>2. ASSUME NEW i \in 1 .. n
        PROVE  /\ b[i].round \in Nat /\ b[i].from \in 1 .. P /\ b[i].to \in 1 .. P /\ b[i].at \in Nat
               /\ b[i].round < round /\ b[i].from <= b[i].to /\ b[i].to - b[i].from < PlanLimit
    <3>1. b[i] \in [round : 1 .. request.rounds, from : 1 .. P, to : 1 .. P, at : Nat]
      BY <2>1
    <3>2. b[i].round < round /\ b[i].from <= b[i].to /\ b[i].to - b[i].from < PlanLimit
      BY <1>2 DEF PlanInv, PiecesFit, b
    <3> QED
      BY ONLY <3>1, <3>2
  <2> QED
    BY <2>2
\* What is known of a row that was there, and of one that is new.
<1>5. ASSUME NEW i \in 1 .. n + m
      PROVE  (i \in 1 .. n /\ b2[i] = b[i]) \/ (\E x \in 1 .. m : i = n + x)
  <2>1. i \in 1 .. n \/ (i - n \in 1 .. m /\ i = n + (i - n))
    BY <1>2
  <2> QED
    BY <1>2, <2>1
<1>6. ASSUME NEW x \in 1 .. m
      PROVE  /\ b2[n + x].round = round /\ b2[n + x].from = cs[x].from
             /\ b2[n + x].to = cs[x].to /\ b2[n + x].at = at(x)
  <2>1. b2[n + x] = [round |-> round, from |-> cs[x].from, to |-> cs[x].to, at |-> at(x)]
    BY <1>2
  <2> QED
    BY ONLY <2>1
<1>7. \A x \in 1 .. m : /\ at(x) \in Nat /\ LocalDay(at(x)) = day(x) /\ roundStart <= at(x)
  <2> SUFFICES ASSUME NEW x \in 1 .. m
               PROVE  at(x) \in Nat /\ LocalDay(at(x)) = day(x) /\ roundStart <= at(x)
    OBVIOUS
  <2>1. x - 1 \in Nat
    BY <1>2
  <2>2. LocalDay(at(x)) = day(x)
    BY <1>1, <2>1, LocalDayLater DEF at, day
  <2> QED
    BY <1>1, <2>1, <2>2 DEF Quarters, at
<1>8. LocalDay(roundStart) \in Nat
  BY <1>1, LocalDayFacts
<1>9. \A x, y \in 1 .. m : x < y => at(x) < at(y)
  BY <1>1, <1>2 DEF Quarters, at
<1>10. /\ \A i \in 1 .. n : b[i].at < roundStart
       /\ Dated => \A i \in 1 .. n : LocalDay(b[i].at) < LocalDay(roundStart)
  BY <1>1, <1>2 DEF PlanInv, StartsLater, b
<1>11. \A i \in 1 .. n : LocalDay(b[i].at) \in Nat
  BY <1>4, LocalDayFacts
<1>12. Dated' <=> Dated
  BY <1>1 DEF Dated
\* The start of the next round, if there is one.
<1>13. roundStart' \in Nat
       /\ (round < request.rounds => at(m) < roundStart'
             /\ (Dated => day(m) < LocalDay(roundStart')))
  <2> DEFINE last == roundStart + (m - 1) * Quarters
  <2>1. last \in Nat /\ LocalDay(last) = day(m) /\ last = at(m)
    <3>1. m \in 1 .. m /\ last = at(m)
      BY <1>2 DEF at
    <3> QED
      BY <1>7, <3>1
  <2>2. CASE request.repeat # NoRepeat
    <3>1. NextRunAt(last) \in Nat /\ last < NextRunAt(last) /\ LocalDay(last) < LocalDay(NextRunAt(last))
      BY <1>1, <2>1, <2>2, NextRunLater
    <3>2. roundStart' = IF round < request.rounds THEN NextRunAt(last) ELSE roundStart
      BY <1>2, <2>2
    <3> HIDE DEF last
    <3> QED
      BY <1>1, <2>1, <3>1, <3>2
  <2>3. CASE request.repeat = NoRepeat
    <3>1. roundStart' = last + IF request.reliable THEN 1 ELSE Quarters
      BY <1>2, <2>3
    <3>2. LocalDay(last + 1 * Quarters) = LocalDay(last) + 1
      BY <2>1, LocalDayLater
    <3>3. Dated => ~request.reliable
      BY <2>3 DEF Dated
    <3>4. day(m) \in Int
      BY <1>2, <1>8 DEF day
    <3> HIDE DEF last
    <3>5. roundStart' \in Nat /\ last < roundStart'
      BY <2>1, <3>1 DEF Quarters
    <3>6. Dated => day(m) < LocalDay(roundStart')
      BY <2>1, <3>1, <3>2, <3>3, <3>4 DEF Quarters
    <3> QED
      BY <2>1, <3>5, <3>6
  <2> QED
    BY <2>2, <2>3
<1>14. \A x \in 1 .. m : at(x) <= at(m) /\ day(x) <= day(m) /\ day(x) \in Nat
  BY <1>1, <1>2, <1>8 DEF Quarters, at, day
<1>15. \A x, y \in 1 .. m : x # y => day(x) # day(y)
  BY <1>2, <1>8 DEF day
<1>16. PlanTypeOK'
  <2>1. b2 \in Seq([round : 1 .. request.rounds, from : 1 .. request.prompts,
                    to : 1 .. request.prompts, at : Nat])
    BY <1>2 DEF b2
  <2>2. round' \in 1 .. request'.rounds + 1 /\ request' \in PlanRequest /\ roundStart' \in Nat
    BY <1>1, <1>13
  <2>3. b2 \in Seq([round : 1 .. request'.rounds, from : 1 .. request'.prompts,
                    to : 1 .. request'.prompts, at : Nat])
    BY <1>1, <2>1
  <2> QED
    BY ONLY <2>2, <2>3 DEF PlanTypeOK, b2
<1>17. PiecesFit'
  <2> SUFFICES ASSUME NEW i \in 1 .. n + m
               PROVE  b2[i].round < round + 1 /\ b2[i].from <= b2[i].to
                      /\ b2[i].to - b2[i].from < PlanLimit
    BY <1>1, <1>2 DEF PiecesFit, b2
  <2>1. CASE i \in 1 .. n
    <3>1. b2[i] = b[i]
      BY <1>2, <2>1
    <3>2. b[i].round \in Nat /\ b[i].round < round /\ b[i].from <= b[i].to
          /\ b[i].to - b[i].from < PlanLimit
      BY <1>4, <2>1
    <3>3. b[i].round < round + 1
      BY <1>1, <3>2
    <3> QED
      BY <3>1, <3>2, <3>3
  <2>2. ASSUME NEW x \in 1 .. m, i = n + x
        PROVE  b2[i].round < round + 1 /\ b2[i].from <= b2[i].to
               /\ b2[i].to - b2[i].from < PlanLimit
    <3>1. b2[i].round = round /\ b2[i].from = cs[x].from /\ b2[i].to = cs[x].to
      BY <1>6, <2>2
    <3>2. cs[x].from <= cs[x].to /\ cs[x].to - cs[x].from < PlanLimit
      BY <1>3
    <3> QED
      BY <1>1, <3>1, <3>2
  <2> QED
    BY <1>5, <2>1, <2>2
<1>18. PiecesApart'
  <2> SUFFICES ASSUME NEW i \in 1 .. n + m, NEW j \in 1 .. n + m, i < j, b2[i].round = b2[j].round
               PROVE  b2[i].to < b2[j].from
    BY <1>2 DEF PiecesApart, b2
  <2>1. CASE j \in 1 .. n
    <3>1. i \in 1 .. n
      BY <1>2, <2>1
    <3>2. \A x, y \in 1 .. n : x < y /\ b[x].round = b[y].round => b[x].to < b[y].from
      BY <1>2 DEF PlanInv, PiecesApart, b
    <3> QED
      BY <1>2, <2>1, <3>1, <3>2
  <2>2. ASSUME NEW y \in 1 .. m, j = n + y
        PROVE  b2[i].to < b2[j].from
    <3>1. CASE i \in 1 .. n
      <4>1. b2[i].round < round /\ b2[j].round = round
        BY <1>2, <1>4, <1>6, <2>2, <3>1
      <4>2. b2[i].round \in Nat
        BY <1>2, <1>4, <3>1
      <4> QED
        BY <1>1, <4>1, <4>2
    <3>2. ASSUME NEW x \in 1 .. m, i = n + x
          PROVE  b2[i].to < b2[j].from
      <4>1. x < y
        BY <1>2, <2>2, <3>2
      <4> QED
        BY <1>3, <1>6, <2>2, <3>2, <4>1
    <3> QED
      BY <1>5, <3>1, <3>2
  <2> QED
    BY <1>5, <2>1, <2>2
<1>19. EveryPrompt'
  <2>1. ASSUME NEW r \in 1 .. round' - 1, NEW k \in 1 .. request'.prompts
        PROVE  \E i \in DOMAIN batches' :
                 batches'[i].round = r /\ batches'[i].from <= k /\ k <= batches'[i].to
    <3>0. r \in 1 .. round /\ k \in 1 .. P
      BY <1>1 DEF P
    <3>1. CASE r = round
      <4>1. PICK x \in 1 .. m : cs[x].from <= k /\ k <= cs[x].to
        BY <1>3, <3>0
      <4>2. n + x \in 1 .. n + m
        BY <1>2
      <4>3. b2[n + x].round = r /\ b2[n + x].from <= k /\ k <= b2[n + x].to
        BY <1>6, <3>1, <4>1
      <4> QED
        BY <1>2, <4>2, <4>3 DEF b2
    <3>2. CASE r # round
      <4>1. r \in 1 .. round - 1
        BY <1>1, <3>0, <3>2
      <4>2. PICK i \in 1 .. n : b[i].round = r /\ b[i].from <= k /\ k <= b[i].to
        BY <1>2, <3>0, <4>1 DEF PlanInv, EveryPrompt, b, P
      <4>3. i \in 1 .. n + m
        BY <1>2
      <4> QED
        BY <1>2, <4>2, <4>3 DEF b2
    <3> QED
      BY <3>1, <3>2
  <2> QED
    BY <2>1 DEF EveryPrompt
<1>20. StartsLater'
  <2>1. ASSUME round < request.rounds, NEW i \in 1 .. n + m
        PROVE  b2[i].at < roundStart'
               /\ (Dated => LocalDay(b2[i].at) < LocalDay(roundStart'))
    <3>1. at(m) < roundStart' /\ (Dated => day(m) < LocalDay(roundStart'))
      BY <1>13, <2>1
    <3>2. LocalDay(roundStart') \in Nat
      BY <1>13, LocalDayFacts
    <3>3. m \in 1 .. m /\ at(m) \in Nat /\ roundStart <= at(m) /\ day(m) \in Nat /\ LocalDay(roundStart) <= day(m)
      BY <1>2, <1>7, <1>8, <1>14 DEF day
    <3>4. CASE i \in 1 .. n
      <4>1. b2[i].at = b[i].at /\ b[i].at \in Nat /\ b[i].at < roundStart
            /\ (Dated => LocalDay(b[i].at) < LocalDay(roundStart))
        BY <1>2, <1>4, <1>10, <3>4
      <4>2. LocalDay(b[i].at) \in Nat
        BY <1>11, <3>4
      <4>3. b2[i].at < roundStart'
        BY <1>1, <1>13, <3>1, <3>3, <4>1
      <4>4. Dated => LocalDay(b[i].at) < LocalDay(roundStart')
        BY <1>8, <3>1, <3>2, <3>3, <4>1, <4>2
      <4> QED
        BY <4>1, <4>3, <4>4
    <3>5. ASSUME NEW x \in 1 .. m, i = n + x
          PROVE  b2[i].at < roundStart' /\ (Dated => LocalDay(b2[i].at) < LocalDay(roundStart'))
      <4>1. b2[i].at = at(x) /\ LocalDay(at(x)) = day(x) /\ at(x) \in Nat
        BY <1>6, <1>7, <3>5
      <4>2. at(x) <= at(m) /\ day(x) <= day(m) /\ day(x) \in Nat
        BY <1>14
      <4>3. at(x) < roundStart'
        BY <1>13, <3>1, <3>3, <4>1, <4>2
      <4>4. Dated => day(x) < LocalDay(roundStart')
        BY <3>1, <3>2, <3>3, <4>2
      <4> QED
        BY <4>1, <4>3, <4>4
    <3> QED
      BY <1>5, <3>4, <3>5
  <2>2. round' <= request'.rounds => round < request.rounds
    BY <1>1
  <2>3. DOMAIN batches' = 1 .. n + m
    BY <1>2 DEF b2
  <2>4. ASSUME round' <= request'.rounds, NEW i \in DOMAIN batches'
        PROVE  batches'[i].at < roundStart'
               /\ (Dated' => LocalDay(batches'[i].at) < LocalDay(roundStart'))
    BY <1>12, <2>1, <2>2, <2>3, <2>4 DEF b2
  <2> QED
    BY ONLY <2>4 DEF StartsLater
<1>21. FirstStart'
  <2>1. round' # 1
    BY <1>1
  <2>2. ASSUME round < request.rounds, Dated PROVE 1 <= LocalDay(roundStart')
    <3>1. day(m) < LocalDay(roundStart')
      BY <1>13, <2>2
    <3>2. day(m) \in Nat
      BY <1>2, <1>14
    <3>3. LocalDay(roundStart') \in Nat
      BY <1>13, LocalDayFacts
    <3> QED
      BY <3>1, <3>2, <3>3
  <2> QED
    BY <1>1, <1>12, <2>1, <2>2 DEF FirstStart
<1>22. DueInOrder'
  <2> SUFFICES ASSUME NEW i \in 1 .. n + m, NEW j \in 1 .. n + m, i < j
               PROVE  b2[i].at < b2[j].at /\ b2[i].round <= b2[j].round
    BY <1>2 DEF DueInOrder, b2
  <2>1. CASE j \in 1 .. n
    <3>1. i \in 1 .. n
      BY <1>2, <2>1
    <3>2. \A x, y \in 1 .. n : x < y => b[x].at < b[y].at /\ b[x].round <= b[y].round
      BY <1>2 DEF PlanInv, DueInOrder, b
    <3> QED
      BY <1>2, <2>1, <3>1, <3>2
  <2>2. ASSUME NEW y \in 1 .. m, j = n + y
        PROVE  b2[i].at < b2[j].at /\ b2[i].round <= b2[j].round
    <3>0. b2[j].at = at(y) /\ b2[j].round = round /\ at(y) \in Nat /\ roundStart <= at(y)
      BY <1>6, <1>7, <2>2
    <3>1. CASE i \in 1 .. n
      <4>1. b2[i].round < round /\ b2[i].at < roundStart /\ b2[i].round \in Nat /\ b2[i].at \in Nat
        BY <1>2, <1>4, <1>10, <3>1
      <4> QED
        BY <1>1, <3>0, <4>1
    <3>2. ASSUME NEW x \in 1 .. m, i = n + x
          PROVE  b2[i].at < b2[j].at /\ b2[i].round <= b2[j].round
      <4>1. x < y
        BY <1>2, <2>2, <3>2
      <4>2. b2[i].at = at(x) /\ b2[i].round = round
        BY <1>6, <3>2
      <4> QED
        BY <1>1, <1>9, <3>0, <4>1, <4>2
    <3> QED
      BY <1>5, <3>1, <3>2
  <2> QED
    BY <1>5, <2>1, <2>2
<1>23. WithinEachDay'
  <2> SUFFICES ASSUME Dated, NEW i \in 1 .. n + m, NEW j \in 1 .. n + m
               PROVE  /\ b2[i].to - b2[i].from < PlanLimit
                      /\ i # j => LocalDay(b2[i].at) # LocalDay(b2[j].at)
                      /\ LocalDay(b2[i].at) = 0 =>
                           \A p \in PlanProvider :
                             request.done[p] + b2[i].to - b2[i].from + 1 <= PlanLimit
    BY <1>1, <1>2, <1>12 DEF WithinEachDay, Dated, b2
  <2>1. b2[i].to - b2[i].from < PlanLimit
    BY <1>2, <1>17 DEF PiecesFit, b2
  <2>2. ASSUME i # j PROVE LocalDay(b2[i].at) # LocalDay(b2[j].at)
    <3>1. CASE i \in 1 .. n /\ j \in 1 .. n
      <4>1. \A x, y \in 1 .. n : x # y => LocalDay(b[x].at) # LocalDay(b[y].at)
        BY <1>2 DEF PlanInv, WithinEachDay, b, Dated
      <4> QED
        BY <1>2, <2>2, <3>1, <4>1
    <3>2. ASSUME NEW x \in 1 .. n, NEW y \in 1 .. m
          PROVE  LocalDay(b2[x].at) # LocalDay(b2[n + y].at)
      <4>1. b2[x].at = b[x].at /\ LocalDay(b[x].at) < LocalDay(roundStart) /\ LocalDay(b[x].at) \in Nat
        BY <1>2, <1>10, <1>11
      <4>2. LocalDay(b2[n + y].at) = day(y) /\ LocalDay(roundStart) <= day(y) /\ day(y) \in Nat
        <5>1. LocalDay(b2[n + y].at) = day(y) /\ day(y) \in Nat
          BY <1>6, <1>7, <1>14
        <5> QED
          BY <1>2, <1>8, <5>1 DEF day
      <4> QED
        BY <1>8, <4>1, <4>2
    <3>3. ASSUME NEW x \in 1 .. m, NEW y \in 1 .. m, i = n + x, j = n + y
          PROVE  LocalDay(b2[i].at) # LocalDay(b2[j].at)
      <4>1. x # y /\ LocalDay(b2[i].at) = day(x) /\ LocalDay(b2[j].at) = day(y)
        BY <1>6, <1>7, <2>2, <3>3
      <4> QED
        BY <1>15, <4>1
    <3> QED
      BY <1>5, <3>1, <3>2, <3>3
  <2>3. ASSUME LocalDay(b2[i].at) = 0, NEW p \in PlanProvider
        PROVE  request.done[p] + b2[i].to - b2[i].from + 1 <= PlanLimit
    <3>0. request.done[p] \in Nat
      BY <1>1, RequestFields
    <3>1. CASE i \in 1 .. n
      <4>1. \A x \in 1 .. n : LocalDay(b[x].at) = 0 =>
              request.done[p] + b[x].to - b[x].from + 1 <= PlanLimit
        BY <1>2 DEF PlanInv, WithinEachDay, b, Dated
      <4> QED
        BY <1>2, <2>3, <3>1, <4>1
    <3>2. ASSUME NEW x \in 1 .. m, i = n + x
          PROVE  request.done[p] + b2[i].to - b2[i].from + 1 <= PlanLimit
      <4>1. day(x) = 0 /\ b2[i].to = cs[x].to /\ b2[i].from = cs[x].from
        BY <1>6, <1>7, <2>3, <3>2
      <4>2. LocalDay(roundStart) = 0 /\ x = 1
        BY <1>2, <1>8, <4>1 DEF day
      <4>3. round = 1 /\ roundStart = request.now + IF Available > 0 THEN 0 ELSE Quarters
        BY <1>1, <4>2 DEF PlanInv, FirstStart
      <4>4. Available > 0
        <5>1. CASE ~(Available > 0)
          <6>1. roundStart = request.now + 1 * Quarters /\ request.now \in Nat
            BY <1>1, <4>3, <5>1, RequestFields DEF Quarters
          <6>2. LocalDay(roundStart) = LocalDay(request.now) + 1 /\ LocalDay(request.now) \in Nat
            BY <6>1, LocalDayLater, LocalDayFacts
          <6> QED
            BY <4>2, <6>2
        <5> QED
          BY <5>1
      <4>5. c = Available /\ request.done[p] + Available <= PlanLimit /\ Available \in Nat
        BY <1>1, <4>3, <4>4, AvailableFacts DEF c
      <4>6. cs[1].to - cs[1].from + 1 <= c /\ cs[1].to \in Nat /\ cs[1].from \in Nat
        BY <1>2, <1>3
      <4> QED
        BY <3>0, <4>1, <4>2, <4>5, <4>6
    <3> QED
      BY <1>5, <3>1, <3>2
  <2> QED
    BY <2>1, <2>2, <2>3
<1> QED
  BY <1>16, <1>17, <1>18, <1>19, <1>20, <1>21, <1>22, <1>23 DEF PlanInv

\* A prompt is in one piece of a round.
LEMMA OnePieceEach == PlanInv => AskedOncePerRound
<1> SUFFICES ASSUME PlanInv, NEW r \in 1 .. round - 1, NEW k \in 1 .. request.prompts
             PROVE  Cardinality({i \in DOMAIN batches :
                      batches[i].round = r /\ batches[i].from <= k /\ k <= batches[i].to}) = 1
  BY DEF AskedOncePerRound
<1> DEFINE T == {i \in DOMAIN batches :
                   batches[i].round = r /\ batches[i].from <= k /\ k <= batches[i].to}
<1>1. PICK x \in DOMAIN batches :
        batches[x].round = r /\ batches[x].from <= k /\ k <= batches[x].to
  BY DEF PlanInv, EveryPrompt
<1>2. /\ DOMAIN batches \subseteq Nat
      /\ \A i \in DOMAIN batches : batches[i].from \in Nat /\ batches[i].to \in Nat
  <2>1. batches \in Seq([round : 1 .. request.rounds, from : 1 .. request.prompts,
                         to : 1 .. request.prompts, at : Nat])
    BY DEF PlanInv, PlanTypeOK
  <2>2. DOMAIN batches = 1 .. Len(batches)
    BY <2>1, LenProperties
  <2>3. \A i \in DOMAIN batches :
          batches[i] \in [round : 1 .. request.rounds, from : 1 .. request.prompts,
                          to : 1 .. request.prompts, at : Nat]
    BY <2>1, <2>2, ElementOfSeq
  <2> QED
    BY <2>2, <2>3
<1>3. ASSUME NEW i \in T, i # x PROVE FALSE
  <2>1. i < x \/ x < i
    BY <1>2, <1>3
  <2>2. CASE i < x
    <3>1. batches[i].to < batches[x].from
      BY <1>1, <2>2 DEF PlanInv, PiecesApart
    <3> QED
      BY <1>1, <1>2, <3>1
  <2>3. CASE x < i
    <3>1. batches[x].to < batches[i].from
      BY <1>1, <2>3 DEF PlanInv, PiecesApart
    <3> QED
      BY <1>1, <1>2, <3>1
  <2> QED
    BY <2>1, <2>2, <2>3
<1>4. T = {x}
  BY <1>1, <1>3
<1>5. Cardinality({x}) = 1
  BY FS_Singleton
<1> QED
  BY <1>4, <1>5

\* A step of the plan keeps it.
LEMMA PlanStepInv == PlanInv /\ [PlanRound]_planVars => PlanInv'
<1>1. ASSUME PlanInv, UNCHANGED planVars PROVE PlanInv'
  <2>1. request' = request /\ batches' = batches /\ round' = round /\ roundStart' = roundStart
    BY <1>1 DEF planVars
  <2>2. PlanTypeOK' /\ PiecesFit' /\ PiecesApart' /\ EveryPrompt'
    BY <1>1, <2>1 DEF PlanInv, PlanTypeOK, PiecesFit, PiecesApart, EveryPrompt
  <2>3. StartsLater' /\ DueInOrder' /\ WithinEachDay'
    BY <1>1, <2>1 DEF PlanInv, StartsLater, DueInOrder, WithinEachDay, Dated
  <2>4. FirstStart'
    BY <1>1, <2>1 DEF PlanInv, FirstStart, Dated, Available
  <2> QED
    BY <2>2, <2>3, <2>4 DEF PlanInv
<1> QED
  BY <1>1, PlanRoundInv

\* It holds in every state of every plan.
LEMMA PlanInductive == PlanSpec => []PlanInv
BY PlanInitInv, PlanStepInv, PTL DEF PlanSpec

\* The plan keeps its types, for any request (runs.ts:910-1045).
THEOREM PlanTypeCorrect == PlanSpec => []PlanTypeOK
<1>1. PlanInv => PlanTypeOK
  BY DEF PlanInv
<1> QED
  BY <1>1, PlanInductive, PTL

\* The plan of a detection asks every prompt once in every round, in the order
\* of the rounds, and no more of a provider on a day than its daily limit
\* leaves: for any limit, any number of prompts, rounds and samples done
\* today, and any cadence (runs.ts:910-936, 973-1045,
\* detectionRunPlan.ts:101-135).
THEOREM PlanSound == PlanSpec => []PlanIsSound
<1>1. PlanInv => PlanIsSound
  BY OnePieceEach DEF PlanInv, PlanIsSound
<1> QED
  BY <1>1, PlanInductive, PTL

-----------------------------------------------------------------------------
(* The parts together (MCControlPlane).                                    *)

\* A part that does not move keeps its invariant.
ControlInv == part \in Parts /\ StoredInv /\ ScheduleInv /\ PlanInv

\* The parts keep their invariants, whichever of them moves.
LEMMA ControlStepInv ==
  ASSUME ControlInv, [ControlNext]_controlVars
  PROVE  ControlInv'
<1>1. UNCHANGED vars => StoredInv'
  BY RemoteStepStored DEF ControlInv
<1>2. UNCHANGED scheduleVars => ScheduleInv'
  BY ScheduleStepInv DEF ControlInv
<1>3. UNCHANGED planVars => PlanInv'
  BY PlanStepInv DEF ControlInv
<1>4. CASE part = "remote" /\ Next /\ UNCHANGED <<part, scheduleVars, planVars>>
  BY <1>2, <1>3, <1>4, RemoteStepStored DEF ControlInv
<1>5. CASE part = "schedule" /\ ScheduleNext /\ UNCHANGED <<part, vars, planVars>>
  BY <1>1, <1>3, <1>5, ScheduleStepInv DEF ControlInv
<1>6. CASE part = "plan" /\ PlanRound /\ UNCHANGED <<part, vars, scheduleVars>>
  BY <1>1, <1>2, <1>6, PlanRoundInv DEF ControlInv
<1>7. CASE UNCHANGED controlVars
  BY <1>1, <1>2, <1>3, <1>7 DEF ControlInv, controlVars
<1> QED
  BY <1>4, <1>5, <1>6, <1>7 DEF ControlNext

\* The types of the collectors, the schedules and the plan hold together
\* (MCControlPlane).
THEOREM ControlTypeCorrect == ControlSpec => []ControlTypeOK
<1>1. ControlInit => ControlInv
  BY RemoteInitStored, ScheduleInitInv, PlanInitInv DEF ControlInit, ControlInv
<1>2. ControlInv /\ [ControlNext]_controlVars => ControlInv'
  BY ControlStepInv
<1>3. ControlInv => ControlTypeOK
  BY DEF ControlInv, ControlTypeOK, StoredInv, ScheduleInv, PlanInv
<1> QED
  BY <1>1, <1>2, <1>3, PTL DEF ControlSpec
=============================================================================
