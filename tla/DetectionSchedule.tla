-------------------------- MODULE DetectionSchedule --------------------------
(***************************************************************************)
(* A recurring detection (detectionSchedules.ts in packages/services/src/  *)
(* geo): its row, the user who saves, pauses, resumes and deletes it, and  *)
(* the passes of the collectors' timers over the rows that are due.        *)
(* Passes overlap: a timer does not wait for the pass before it, and there *)
(* may be several collectors.  A request to save or to resume computes the *)
(* next occurrence and then awaits its write: the occurrence may fall due, *)
(* and be claimed, in between.  Such a write is called belated here.       *)
(*                                                                         *)
(* The clock counts the hours at which a schedule can fall due; a cadence  *)
(* is its period.  What is recorded of the run (lastSeriesId, lastError)   *)
(* is its pass's time and whether its start failed.                        *)
(***************************************************************************)
EXTENDS Integers, Sequences, FiniteSets

CONSTANTS Cadence,    \* the periods a user may choose
          Pass,       \* passes that may be under way at once
          Editor,     \* requests to save, pause or resume that may be
          MaxClock,   \* bound: the last hour
          MaxSave     \* bound: requests to save

ASSUME ScheduleAssumption ==
  /\ Cadence \subseteq Nat \ {0} /\ Cadence # {}
  /\ MaxClock \in Nat /\ MaxSave \in Nat

VARIABLES
  schedule,   \* the row of a prompt set, or NoSchedule
  clock,
  pass,       \* each pass: its step, its `now`, and of the row it has read
              \* what it goes on to use
  edit,       \* each request between its computation and its write
  saves,
  claims,     \* history: the occurrences claimed
  belated     \* history: see Belated

scheduleVars == <<schedule, clock, pass, edit, saves, claims, belated>>

Never == -1
NoSchedule == [id |-> 0, enabled |-> FALSE, cadence |-> 0, nextRunAt |-> Never,
               lastRunAt |-> Never, lastError |-> FALSE]
NoPass == [step |-> "idle", now |-> 0, row |-> [id |-> 0, cadence |-> 0]]
NoEdit == [kind |-> "none", id |-> 0, enabled |-> FALSE, cadence |-> 0,
           nextRunAt |-> Never]

\* nextDetectionScheduleAt: the first occurrence after t.
NextAt(cadence, t) == (t \div cadence + 1) * cadence

ScheduleInit ==
  /\ schedule = NoSchedule
  /\ clock = 0
  /\ pass = [w \in Pass |-> NoPass]
  /\ edit = [e \in Editor |-> NoEdit]
  /\ saves = 0
  /\ claims = <<>>
  /\ belated = [since |-> FALSE, reads |-> {}]

-----------------------------------------------------------------------------
(* The user.                                                               *)

\* History: whether a belated write came since the last claim, and the passes
\* between whose read of the row and claim one came.
Belated(row) ==
  IF row.enabled /\ row.nextRunAt <= clock
  THEN [since |-> TRUE,
        reads |-> belated.reads \cup {w \in Pass : pass[w].step = "claim"}]
  ELSE belated

\* saveDetectionSchedule computes the next occurrence (the id is that of the
\* row, should there be none yet) ...
SaveCompute(e) ==
  /\ edit[e] = NoEdit /\ saves < MaxSave
  /\ \E c \in Cadence :
       edit' = [edit EXCEPT ![e] = [kind |-> "save", id |-> saves + 1, enabled |-> TRUE,
                                    cadence |-> c, nextRunAt |-> NextAt(c, clock)]]
  /\ saves' = saves + 1
  /\ UNCHANGED <<schedule, clock, pass, claims, belated>>

\* ... and upserts the row: one that exists keeps its id and what is recorded
\* of its runs.
SaveWrite(e) ==
  /\ edit[e].kind = "save"
  /\ LET row == IF schedule = NoSchedule
                THEN [NoSchedule EXCEPT !.id = edit[e].id] ELSE schedule
     IN schedule' = [row EXCEPT !.enabled = TRUE, !.cadence = edit[e].cadence,
                                !.nextRunAt = edit[e].nextRunAt, !.lastError = FALSE]
  /\ belated' = Belated(edit[e])
  /\ edit' = [edit EXCEPT ![e] = NoEdit]
  /\ UNCHANGED <<clock, pass, saves, claims>>

\* pauseDetectionSchedule pauses or resumes what it has read.
PauseRead(e) ==
  /\ edit[e] = NoEdit /\ schedule # NoSchedule
  /\ \E on \in BOOLEAN :
       edit' = [edit EXCEPT ![e] =
         [kind |-> "pause", id |-> schedule.id, enabled |-> on, cadence |-> 0,
          nextRunAt |-> IF on THEN NextAt(schedule.cadence, clock) ELSE Never]]
  /\ UNCHANGED <<schedule, clock, pass, saves, claims, belated>>

PauseWrite(e) ==
  /\ edit[e].kind = "pause"
  /\ IF schedule.id = edit[e].id
     THEN /\ schedule' = [schedule EXCEPT !.enabled = edit[e].enabled,
                                         !.nextRunAt = edit[e].nextRunAt]
          /\ belated' = Belated(edit[e])
     ELSE UNCHANGED <<schedule, belated>>
  /\ edit' = [edit EXCEPT ![e] = NoEdit]
  /\ UNCHANGED <<clock, pass, saves, claims>>

DeleteSchedule ==
  /\ schedule # NoSchedule
  /\ schedule' = NoSchedule
  /\ UNCHANGED <<clock, pass, edit, saves, claims, belated>>

-----------------------------------------------------------------------------
(* dispatchDueDetectionSchedules.                                          *)

IsDue(row, now) == row.enabled /\ row.nextRunAt <= now

ScheduleRead(w) ==
  /\ pass[w] = NoPass
  /\ IsDue(schedule, clock)
  /\ pass' = [pass EXCEPT ![w] =
       [step |-> "claim", now |-> clock,
        row |-> [id |-> schedule.id, cadence |-> schedule.cadence]]]
  /\ belated' = [belated EXCEPT !.reads = @ \ {w}]
  /\ UNCHANGED <<schedule, clock, edit, saves, claims>>

\* The update and its condition are one statement.
ClaimIf(w, condition) ==
  /\ pass[w].step = "claim"
  /\ LET row == pass[w].row
         now == pass[w].now IN
     IF schedule.id = row.id /\ condition
     THEN /\ schedule' = [schedule EXCEPT !.nextRunAt = NextAt(row.cadence, now)]
          /\ claims' = Append(claims, [id |-> row.id, at |-> schedule.nextRunAt,
                                       read |-> row.cadence, saved |-> schedule.cadence,
                                       after |-> belated.since,
                                       late |-> w \in belated.reads])
          /\ belated' = [since |-> FALSE, reads |-> belated.reads \ {w}]
          /\ pass' = [pass EXCEPT ![w].step = "start"]
     ELSE /\ pass' = [pass EXCEPT ![w] = NoPass]
          /\ UNCHANGED <<schedule, claims, belated>>
  /\ UNCHANGED <<clock, edit, saves>>

\* A variant that does not look at the time again.
DispatchClaimDue(w) == ClaimIf(w, schedule.enabled)

DispatchClaim(w) == ClaimIf(w, IsDue(schedule, pass[w].now))

\* startGeoCollectionRun, with what the pass has read, succeeds or throws; the
\* outcome is written by id.
DispatchStart(w) ==
  /\ pass[w].step = "start"
  /\ \E fails \in BOOLEAN :
       schedule' =
         IF schedule.id # pass[w].row.id THEN schedule
         ELSE IF fails THEN [schedule EXCEPT !.lastError = TRUE]
         ELSE [schedule EXCEPT !.lastError = FALSE, !.lastRunAt = pass[w].now]
  /\ pass' = [pass EXCEPT ![w] = NoPass]
  /\ UNCHANGED <<clock, edit, saves, claims, belated>>

\* The collector stops, or a statement of the pass throws.
DispatchStops(w) ==
  /\ pass[w] # NoPass
  /\ pass' = [pass EXCEPT ![w] = NoPass]
  /\ UNCHANGED <<schedule, clock, edit, saves, claims, belated>>

\* Nothing waits for the hour: requests and passes may be late.
ScheduleTick ==
  /\ clock < MaxClock
  /\ clock' = clock + 1
  /\ UNCHANGED <<schedule, pass, edit, saves, claims, belated>>

EditStep(e) == SaveCompute(e) \/ SaveWrite(e) \/ PauseRead(e) \/ PauseWrite(e)

DispatchStep(w) == ScheduleRead(w) \/ DispatchClaim(w) \/ DispatchStart(w)

ScheduleNext ==
  \/ \E e \in Editor : EditStep(e)
  \/ DeleteSchedule
  \/ \E w \in Pass : DispatchStep(w) \/ DispatchStops(w)
  \/ ScheduleTick

ScheduleSpec == ScheduleInit /\ [][ScheduleNext]_scheduleVars

-----------------------------------------------------------------------------
Rows == [id : 0 .. MaxSave, enabled : BOOLEAN, cadence : Cadence \cup {0},
         nextRunAt : Int, lastRunAt : Int, lastError : BOOLEAN]

Edits == [kind : {"none", "save", "pause"}, id : 0 .. MaxSave, enabled : BOOLEAN,
          cadence : Cadence \cup {0}, nextRunAt : Int]

\* The types; a row that is enabled has its next occurrence, and at most one
\* occurrence is due at a time for a pass to find.
ScheduleTypeOK ==
  /\ schedule \in Rows
  /\ schedule.enabled => schedule.cadence # 0 /\ schedule.nextRunAt # Never
  /\ clock \in 0 .. MaxClock
  /\ pass \in [Pass -> [step : {"idle", "claim", "start"}, now : 0 .. MaxClock,
                       row : [id : 0 .. MaxSave, cadence : Cadence \cup {0}]]]
  /\ edit \in [Editor -> Edits]
  /\ saves \in 0 .. MaxSave
  /\ claims \in Seq([id : 1 .. MaxSave, at : Int, read : Cadence, saved : Cadence,
                     after : BOOLEAN, late : BOOLEAN])
  /\ belated \in [since : BOOLEAN, reads : SUBSET Pass]

\* A pass starts its run with the row it read before the claim: that row is
\* still the configuration in force when the claim succeeds, although the user
\* may have saved another in between (detectionSchedules.ts:225-234), unless
\* a belated write came in between.
StartedAsConfigured ==
  \A i \in DOMAIN claims : claims[i].read = claims[i].saved \/ claims[i].late

\* However passes overlap, and whenever the user saves, pauses, resumes or
\* deletes, an occurrence of a schedule starts one run at most, later claims
\* are for later occurrences, and each run is started as configured
\* (detectionSchedules.ts:212-234).  The one thing that undoes this is a
\* belated write (102-138, 165-169), and it undoes it once: between two starts
\* of an occurrence lies a write of an occurrence already due, and so it does
\* between the read and the claim of a run that is not as configured.
StartedOnceUnlessBelated ==
  /\ \A i, j \in DOMAIN claims :
       i < j /\ claims[i].id = claims[j].id
         => claims[i].at < claims[j].at \/ \E k \in i + 1 .. j : claims[k].after
  /\ StartedAsConfigured
=============================================================================
