------------------------------- MODULE RunPlan -------------------------------
(***************************************************************************)
(* The batches a detection is planned as when it starts                    *)
(* (startGeoCollectionRun in runs.ts, detectionRunPlan.ts): its rounds are *)
(* cut into batches that keep to the daily limit of the providers, and the *)
(* batches are given the days on which they become due.  The rows are made *)
(* in one transaction; what becomes of them is CollectionSeries' matter.   *)
(*                                                                         *)
(* Time is counted in quarters of a day since the last local midnight.     *)
(* Days are of equal length (a change of the clocks is left out) and begin *)
(* at the same moment for the server and the plan; the cadences are daily  *)
(* and weekly, the monthly one differs in its period only.                 *)
(***************************************************************************)
EXTENDS Integers, Sequences, FiniteSets

CONSTANTS PlanProvider,   \* the providers of the series
          PlanLimit,      \* DAILY_PROVIDER_SAMPLE_LIMIT
          MaxPrompts,     \* bound: active prompts of the set
          MaxRounds,      \* bound: rounds
          MaxDone,        \* bound: samples a provider has completed today
          Repeats         \* the cadences of run plans, in days: 1, 7

ASSUME PlanAssumption ==
  /\ PlanProvider # {} /\ IsFiniteSet(PlanProvider)
  /\ PlanLimit \in Nat \ {0} /\ MaxPrompts \in Nat \ {0} /\ MaxRounds \in Nat \ {0}
  /\ MaxDone \in Nat /\ Repeats \subseteq Nat \ {0}

VARIABLES
  request,     \* what the user asks for, and what the database says
  batches,     \* the rows made so far
  round,       \* roundIndex
  roundStart   \* plannedRoundStart, or now + scheduleOffsetHours

planVars == <<request, batches, round, roundStart>>

Quarters == 4
NoRepeat == 0
LocalDay(t) == t \div Quarters

Smaller(m, n) == IF m < n THEN m ELSE n
Larger(m, n) == IF m < n THEN n ELSE m

\* With a run plan the sampling depth plays no part; without one there is no
\* time of its own.
PlanRequest ==
  {r \in [prompts : 1 .. MaxPrompts, rounds : 1 .. MaxRounds,
          done : [PlanProvider -> 0 .. MaxDone],    \* getCompletedToday
          now : 0 .. Quarters - 1,
          repeat : Repeats \cup {NoRepeat},         \* the run plan's cadence
          day : 0 .. 6,                             \* its day of the week
          localTime : 0 .. Quarters - 1,            \* its time of day
          reliable : BOOLEAN] :                     \* samplingDepth
     /\ r.day < Larger(1, r.repeat)
     /\ IF r.repeat = NoRepeat THEN r.localTime = 0 ELSE ~r.reliable}

\* availableToday: what the provider that has done most has left.
Available ==
  LET left == {PlanLimit - request.done[p] : p \in PlanProvider}
  IN  Larger(0, CHOOSE n \in left : \A m \in left : n <= m)

PlanInit ==
  /\ request \in PlanRequest
  /\ batches = <<>>
  /\ round = 1
  /\ roundStart = request.now + IF Available > 0 THEN 0 ELSE Quarters

-----------------------------------------------------------------------------
\* chunkRows: the prompts, in their order, cut after the first capacity and
\* then after every further one.
Chunks(capacity) ==
  LET first == Larger(1, Smaller(capacity, PlanLimit))
      rest == Larger(0, request.prompts - first)
  IN  [i \in 1 .. 1 + (rest + PlanLimit - 1) \div PlanLimit |->
         [from |-> IF i = 1 THEN 1 ELSE first + (i - 2) * PlanLimit + 1,
          to |-> Smaller(request.prompts, first + (i - 1) * PlanLimit)]]

\* `availableToday || DAILY_PROVIDER_SAMPLE_LIMIT`
FirstRound == Chunks(IF Available = 0 THEN PlanLimit ELSE Available)
RegularRound == Chunks(PlanLimit)

\* nextDetectionScheduleAt: the next time after t the plan names.
NextOccurrence(t) ==
  CHOOSE u \in t + 1 .. t + request.repeat * Quarters :
    /\ u % Quarters = request.localTime
    /\ LocalDay(u) % request.repeat = request.day

\* A variant that takes the next occurrence whatever its day.
NextRunToday(t) == NextOccurrence(t)

\* nextDetectionRunAt: the next occurrence on another local day.
NextRunAt(t) ==
  LET next == NextOccurrence(t)
  IN  IF LocalDay(next) = LocalDay(t) THEN NextOccurrence(next) ELSE next

\* One round: its batches, a day apart, and the start of the next round.
PlanRound ==
  /\ round <= request.rounds
  /\ LET chunks == IF round = 1 THEN FirstRound ELSE RegularRound
         last == roundStart + (Len(chunks) - 1) * Quarters
     IN  /\ batches' = batches \o
              [i \in DOMAIN chunks |->
                 [round |-> round, from |-> chunks[i].from, to |-> chunks[i].to,
                  at |-> roundStart + (i - 1) * Quarters]]
         /\ roundStart' = IF request.repeat # NoRepeat
                          THEN IF round < request.rounds THEN NextRunAt(last) ELSE roundStart
                          ELSE last + IF request.reliable THEN 1 ELSE Quarters
  /\ round' = round + 1
  /\ UNCHANGED request

PlanSpec == PlanInit /\ [][PlanRound]_planVars

-----------------------------------------------------------------------------
\* The types.
PlanTypeOK ==
  /\ request \in PlanRequest
  /\ round \in 1 .. request.rounds + 1
  /\ roundStart \in Nat
  /\ batches \in Seq([round : 1 .. request.rounds, from : 1 .. request.prompts,
                      to : 1 .. request.prompts, at : Nat])

\* Every prompt of a planned round is in one batch of it.
AskedOncePerRound ==
  \A r \in 1 .. round - 1, k \in 1 .. request.prompts :
    Cardinality({i \in DOMAIN batches :
      batches[i].round = r /\ batches[i].from <= k /\ k <= batches[i].to}) = 1

\* The batches become due in the order of the rounds, never two at a time.
DueInOrder ==
  \A i, j \in DOMAIN batches : i < j =>
    batches[i].at < batches[j].at /\ batches[i].round <= batches[j].round

\* No day needs more of a provider than the limit leaves, but for the depth
\* that repeats a round after six hours: there the dispatcher postpones.
WithinEachDay ==
  request.repeat # NoRepeat \/ ~request.reliable =>
    \A i, j \in DOMAIN batches :
      /\ batches[i].to - batches[i].from < PlanLimit
      /\ i # j => LocalDay(batches[i].at) # LocalDay(batches[j].at)
      /\ LocalDay(batches[i].at) = 0 =>
           \A p \in PlanProvider :
             request.done[p] + batches[i].to - batches[i].from + 1 <= PlanLimit

\* The plan of a detection asks every prompt once in every round, in the order
\* of the rounds, and asks no more of a provider on a day than is left of its
\* daily limit, whatever was done today, on a day without capacity too
\* (runs.ts:910-936, 973-1045, detectionRunPlan.ts:101-135).
PlanIsSound == AskedOncePerRound /\ DueInOrder /\ WithinEachDay
=============================================================================
