------------------------ MODULE CollectionSeries_proofs ------------------------
(***************************************************************************)
(* What the dispatcher promises of a series, for any number of batches and *)
(* providers, any spacing and any limit: two batches are never collected   *)
(* at once, and no provider completes more in a day than its limit.        *)
(*                                                                         *)
(* Neither is inductive.  A run is *cleared* when it was started or the    *)
(* pass has decided to start it; the runs before a cleared one have no     *)
(* open samples (ClearedInOrder), wherever postponements, recovery and     *)
(* retries have moved them, and what the cleared runs may still complete   *)
(* today is within the limit (WithinPlan).  The pass acts on what it has   *)
(* read before, and the first batch may be started both by the request and *)
(* by a pass: PassKnown and BeginsFirst say what is still true then.       *)
(***************************************************************************)
EXTENDS CollectionSeries, FiniteSetTheorems, WellFoundedInduction, TLAPS

-----------------------------------------------------------------------------
(* The order of the batches.                                               *)

RunStatus == {"queued", "waiting_runner", "running"} \cup Terminal
CkptStatus == {"queued"} \cup ClosedCkpt
JobStatus == {"none", "waiting"} \cup Active
SeriesRow == [status : SeriesStatus, completed : 0 .. Batches * Cardinality(Provider)]
PassType == [due : Seq(Run), step : {"idle", "check", "act", "enqueue", "mark", "failed"},
             plan : {"none", "later", "tomorrow", "claim"}]

\* A list of runs is by their times.
InTime(list, time) == \A i \in 1 .. Batches - 1 : time[list[i]] <= time[list[i + 1]]

\* Every run has one place in a list.
Listed(list) ==
  /\ list \in [Run -> Run]
  /\ \A i, j \in Run : list[i] = list[j] => i = j
  /\ \A r \in Run : \E i \in Run : list[i] = r

\* The one run is before the other.
Precedes(list, r, s) == \E i, j \in Run : list[i] = r /\ list[j] = s /\ i < j
Before(r, s) == Precedes(order, r, s)

\* A set of naturals that is not empty has a least element.
LEMMA LeastNat ==
  ASSUME NEW T, T \subseteq Nat, T # {}
  PROVE  \E n \in T : \A m \in T : n <= m
<1> DEFINE R == OpToRel(<, Nat)
<1>1. IsWellFoundedOn(R, Nat)
  BY NatLessThanWellFounded
<1>2. \A m, n \in Nat : m < n => <<m, n>> \in R
  BY DEF OpToRel
<1> HIDE DEF R
<1>3. PICK n \in T : \A m \in T : ~(<<m, n>> \in R)
  BY <1>1, WFMin
<1>4. ASSUME NEW m \in T PROVE n <= m
  <2>1. m \in Nat /\ n \in Nat /\ ~(m < n)
    BY <1>2, <1>3
  <2> QED
    BY <2>1
<1> QED
  BY <1>4

\* A list that is by the times in every two neighbours is by the times.
LEMMA SortedThroughout ==
  ASSUME SeriesAssumption, NEW list \in [Run -> Run], NEW time \in [Run -> Int],
         InTime(list, time), NEW i \in Run, NEW j \in Run, i <= j
  PROVE  time[list[i]] <= time[list[j]]
<1>0. Batches \in Nat
  BY DEF SeriesAssumption
<1> DEFINE wrong == {k \in Run : i <= k /\ time[list[k]] < time[list[i]]}
<1>1. SUFFICES ASSUME wrong # {} PROVE FALSE
  <2>1. time[list[i]] \in Int /\ time[list[j]] \in Int
    OBVIOUS
  <2> QED
    BY <2>1
<1>2. wrong \subseteq Nat
  BY <1>0 DEF Run
<1>3. PICK k \in wrong : \A m \in wrong : k <= m
  <2> HIDE DEF wrong
  <2> QED
    BY <1>1, <1>2, LeastNat
<1>4. k \in Run /\ i <= k /\ time[list[k]] < time[list[i]] /\ i \in Int /\ k \in Int
  BY <1>0 DEF Run
<1>5. k - 1 \in Run /\ k - 1 \in 1 .. Batches - 1 /\ i <= k - 1
  <2>0. time[list[i]] \in Int /\ time[list[k]] \in Int
    BY <1>4
  <2>1. k # i
    BY <1>4, <2>0
  <2> QED
    BY <1>0, <1>4, <2>1 DEF Run
<1>6. time[list[k - 1]] <= time[list[k]]
  BY <1>0, <1>4, <1>5 DEF InTime
<1>7. time[list[k - 1]] \in Int /\ time[list[k]] \in Int /\ time[list[i]] \in Int
  BY <1>4, <1>5
<1>8. k - 1 \in wrong
  BY <1>4, <1>5, <1>6, <1>7
<1> HIDE DEF wrong
<1> QED
  BY <1>3, <1>4, <1>8

\* The rank of a run is its place.
LEMMA RankIsPlace ==
  ASSUME Listed(order), NEW r \in Run
  PROVE  Rank(r) \in Run /\ order[Rank(r)] = r
BY DEF Rank, Listed

\* Who ranks first is before.
LEMMA RankOrders ==
  ASSUME SeriesAssumption, Listed(order), NEW r \in Run, NEW s \in Run
  PROVE  Rank(r) < Rank(s) <=> Before(r, s)
<1>1. Rank(r) \in Run /\ order[Rank(r)] = r /\ Rank(s) \in Run /\ order[Rank(s)] = s
  BY RankIsPlace
<1> QED
  BY <1>1 DEF Before, Precedes, Listed

\* Of two runs one is before the other, and not the other way round.
LEMMA BeforeTotal ==
  ASSUME SeriesAssumption, Listed(order), NEW r \in Run, NEW s \in Run, r # s
  PROVE  Before(r, s) \/ Before(s, r)
<1>1. Rank(r) \in Run /\ order[Rank(r)] = r /\ Rank(s) \in Run /\ order[Rank(s)] = s
  BY RankIsPlace
<1>2. Rank(r) # Rank(s) /\ Rank(r) \in Int /\ Rank(s) \in Int
  BY <1>1 DEF Run, SeriesAssumption
<1>3. Rank(r) < Rank(s) \/ Rank(s) < Rank(r)
  BY <1>2
<1> QED
  BY <1>3, RankOrders

\* No run is before itself, or before one that is before it.
LEMMA BeforeOnce ==
  ASSUME SeriesAssumption, Listed(order), NEW r \in Run, NEW s \in Run, Before(r, s)
  PROVE  r # s /\ ~Before(s, r)
<1>1. Rank(r) \in Int /\ Rank(s) \in Int /\ Rank(r) < Rank(s)
  BY RankIsPlace, RankOrders DEF Run, SeriesAssumption
<1>2. ~(Rank(s) < Rank(r))
  BY <1>1
<1> QED
  BY <1>1, <1>2, RankOrders

\* A list without its place k, and with r in place i of what is left.
Moved(k, i, r) ==
  [j \in Run |-> IF j = i THEN r
                 ELSE LET m == IF j < i THEN j ELSE j - 1
                      IN order[IF m < k THEN m ELSE m + 1]]

\* RemoveAt and InsertAt, place by place: what moving a run makes of the list.
LEMMA MovedIsInsert ==
  ASSUME SeriesAssumption, Listed(order), NEW k \in Run, NEW i \in Run, NEW r \in Run
  PROVE  InsertAt(RemoveAt(order, k), i, r) = Moved(k, i, r)
<1>0. Batches \in Nat /\ Batches > 0 /\ Run = 1 .. Batches
  BY DEF SeriesAssumption, Run
<1>1. order \in Seq(Run) /\ Len(order) = Batches
  <2>1. order \in [1 .. Batches -> Run]
    BY <1>0 DEF Listed
  <2> QED
    BY ONLY <1>0, <2>1
<1> DEFINE o == RemoveAt(order, k)
<1>2. o \in Seq(Run) /\ Len(o) = Batches - 1
      /\ \A m \in 1 .. Batches - 1 : o[m] = order[IF m < k THEN m ELSE m + 1]
  BY <1>0, <1>1 DEF RemoveAt
<1> HIDE DEF o
<1>3. InsertAt(o, i, r) \in Seq(Run) /\ Len(InsertAt(o, i, r)) = Batches
      /\ \A j \in 1 .. Batches : InsertAt(o, i, r)[j] =
           IF j < i THEN o[j] ELSE IF j = i THEN r ELSE o[j - 1]
  BY <1>0, <1>2 DEF InsertAt
<1>4. InsertAt(o, i, r) = [j \in Run |-> InsertAt(o, i, r)[j]]
  BY <1>0, <1>3
<1>5. \A j \in Run : InsertAt(o, i, r)[j] = Moved(k, i, r)[j]
  <2> SUFFICES ASSUME NEW j \in Run PROVE InsertAt(o, i, r)[j] = Moved(k, i, r)[j]
    OBVIOUS
  <2>1. j \in Int /\ i \in Int /\ 1 <= j /\ j <= Batches /\ 1 <= i /\ i <= Batches
    BY <1>0
  <2>2. CASE j < i
    <3>0. j \in 1 .. Batches - 1
      BY <1>0, <2>1, <2>2
    <3>1. o[j] = order[IF j < k THEN j ELSE j + 1]
      BY <1>2, <3>0
    <3> QED
      BY <1>0, <1>3, <2>1, <2>2, <3>1 DEF Moved
  <2>3. CASE j = i
    BY <1>0, <1>3, <2>1, <2>3 DEF Moved
  <2>4. CASE i < j
    <3>0. j - 1 \in 1 .. Batches - 1
      BY <1>0, <2>1, <2>4
    <3>1. o[j - 1] = order[IF j - 1 < k THEN j - 1 ELSE (j - 1) + 1]
      BY <1>2, <3>0
    <3> QED
      BY <1>0, <1>3, <2>1, <2>4, <3>1 DEF Moved
  <2> QED
    BY <2>1, <2>2, <2>3, <2>4
<1> QED
  BY <1>4, <1>5 DEF o, Moved

\* The place from which the run in place j of the list comes.
From(k, i, j) == LET m == IF j < i THEN j ELSE j - 1 IN IF m < k THEN m ELSE m + 1

\* A list in which a run was moved: every place of the new list is one of the
\* old list, the others in their old order.
LEMMA FromPlaces ==
  ASSUME SeriesAssumption, NEW k \in Run, NEW i \in Run
  PROVE  /\ \A j \in Run \ {i} : From(k, i, j) \in Run \ {k}
         /\ \A j, l \in Run \ {i} : j < l <=> From(k, i, j) < From(k, i, l)
         /\ \A p \in Run \ {k} : \E j \in Run \ {i} : From(k, i, j) = p
<1>0. Batches \in Nat /\ Run = 1 .. Batches
  BY DEF SeriesAssumption, Run
<1>1. \A j \in Run \ {i} : From(k, i, j) \in Run \ {k}
  BY <1>0 DEF From
<1>2. \A j, l \in Run \ {i} : j < l <=> From(k, i, j) < From(k, i, l)
  BY <1>0 DEF From
<1>3. ASSUME NEW p \in Run \ {k}
      PROVE  \E j \in Run \ {i} : From(k, i, j) = p
  <2> DEFINE m == IF p < k THEN p ELSE p - 1
             j == IF m < i THEN m ELSE m + 1
  <2>1. j \in Run \ {i}
    BY <1>0
  <2>2. From(k, i, j) = p
    BY <1>0 DEF From
  <2> QED
    BY <2>1, <2>2
<1> QED
  BY <1>1, <1>2, <1>3

\* Moving a run leaves every run its place, and the others their order.
LEMMA MovedListed ==
  ASSUME SeriesAssumption, Listed(order), NEW r \in Run, NEW i \in Run
  PROVE  /\ Listed(Moved(Rank(r), i, r)) /\ Moved(Rank(r), i, r)[i] = r
         /\ \A x, y \in Run \ {r} : Precedes(Moved(Rank(r), i, r), x, y) => Before(x, y)
<1> DEFINE k == Rank(r)
           list == Moved(k, i, r)
<1>1. k \in Run /\ order[k] = r
  BY RankIsPlace
<1>2. \A j \in Run : list[j] = IF j = i THEN r ELSE order[From(k, i, j)]
  BY DEF Moved, From
<1>3. \A j \in Run \ {i} : From(k, i, j) \in Run \ {k}
  BY <1>1, FromPlaces
<1>4. \A j, l \in Run \ {i} : j < l <=> From(k, i, j) < From(k, i, l)
  BY <1>1, FromPlaces
<1>5. \A p \in Run \ {k} : \E j \in Run \ {i} : From(k, i, j) = p
  BY <1>1, FromPlaces
<1>6. Run \subseteq Int
  BY DEF Run
<1>7. list = [j \in Run |-> list[j]]
  BY DEF Moved
<1>8. order \in [Run -> Run] /\ \A a, b \in Run : order[a] = order[b] => a = b
  BY DEF Listed
<1> HIDE DEF k, list
<1>9. list \in [Run -> Run]
  BY <1>2, <1>3, <1>7, <1>8
<1>10. ASSUME NEW a \in Run, NEW b \in Run, list[a] = list[b] PROVE a = b
  <2>1. CASE a = i \/ b = i
    BY <1>1, <1>2, <1>3, <1>8, <1>10, <2>1
  <2>2. CASE a # i /\ b # i
    <3>1. From(k, i, a) = From(k, i, b)
      BY <1>2, <1>3, <1>8, <1>10, <2>2
    <3>2. ~(a < b) /\ ~(b < a)
      BY <1>3, <1>4, <1>6, <2>2, <3>1
    <3> QED
      BY <1>6, <3>2
  <2> QED
    BY <2>1, <2>2
<1>11. ASSUME NEW x \in Run PROVE \E a \in Run : list[a] = x
  <2>1. CASE x = r
    BY <1>2, <2>1
  <2>2. CASE x # r
    <3>1. PICK p \in Run : order[p] = x
      BY DEF Listed
    <3>2. PICK j \in Run \ {i} : From(k, i, j) = p
      BY <1>1, <1>5, <2>2, <3>1
    <3> QED
      BY <1>2, <3>1, <3>2
  <2> QED
    BY <2>1, <2>2
<1>12. ASSUME NEW x \in Run \ {r}, NEW y \in Run \ {r}, Precedes(list, x, y)
       PROVE  Before(x, y)
  <2>1. PICK a \in Run, b \in Run : list[a] = x /\ list[b] = y /\ a < b
    BY <1>12 DEF Precedes
  <2>2. a # i /\ b # i
    BY <1>2, <2>1
  <2>3. From(k, i, a) < From(k, i, b) /\ From(k, i, a) \in Run /\ From(k, i, b) \in Run
    BY <1>3, <1>4, <2>1, <2>2
  <2> QED
    BY <1>2, <2>1, <2>2, <2>3 DEF Before, Precedes
<1>13. list[i] = r
  BY <1>2
<1> QED
  BY <1>9, <1>10, <1>11, <1>12, <1>13 DEF Listed, list, k

\* A run whose time is set to t takes its place there, the others keep theirs;
\* nothing that is due comes after it.
LEMMA RescheduleEffect ==
  ASSUME SeriesAssumption, at \in [Run -> Int], Listed(order), NEW r \in Run,
         NEW t \in Nat, Reschedule(r, t)
  PROVE  /\ at' \in [Run -> Int] /\ at'[r] = t
         /\ \A x \in Run : x # r => at'[x] = at[x]
         /\ Listed(order') /\ InTime(order', at')
         /\ \A x, y \in Run : x # r /\ y # r /\ Precedes(order', x, y) => Before(x, y)
         /\ \A y \in Run : y # r /\ at[y] <= 0 => ~Precedes(order', r, y)
<1>1. at' = [at EXCEPT ![r] = t]
  BY DEF Reschedule
<1>2. at' \in [Run -> Int] /\ at'[r] = t /\ \A x \in Run : x # r => at'[x] = at[x]
  BY <1>1
<1>3. PICK i \in Run :
        /\ \A j \in 1 .. Batches - 1 :
             at'[InsertAt(RemoveAt(order, Rank(r)), i, r)[j]]
               <= at'[InsertAt(RemoveAt(order, Rank(r)), i, r)[j + 1]]
        /\ t = 0 => \A j \in Run : j > i => at[InsertAt(RemoveAt(order, Rank(r)), i, r)[j]] > 0
        /\ order' = InsertAt(RemoveAt(order, Rank(r)), i, r)
  BY DEF Reschedule
<1>4. Rank(r) \in Run
  BY RankIsPlace
<1>5. InsertAt(RemoveAt(order, Rank(r)), i, r) = Moved(Rank(r), i, r)
  BY <1>4, MovedIsInsert
<1> DEFINE list == Moved(Rank(r), i, r)
<1>6. /\ order' = list /\ InTime(list, at')
      /\ t = 0 => \A j \in Run : j > i => at[list[j]] > 0
  BY <1>3, <1>5 DEF InTime
<1>7. /\ Listed(list) /\ list[i] = r
      /\ \A x, y \in Run \ {r} : Precedes(list, x, y) => Before(x, y)
  BY MovedListed
<1> HIDE DEF list
<1>8. ASSUME NEW y \in Run, y # r, at[y] <= 0, Precedes(order', r, y) PROVE FALSE
  <2>1. PICK a \in Run, b \in Run : list[a] = r /\ list[b] = y /\ a < b
    BY <1>6, <1>8 DEF Precedes
  <2>2. a = i
    BY <1>7, <2>1 DEF Listed
  <2>3. CASE t = 0
    <3>1. b > i
      BY <2>1, <2>2 DEF Run
    <3>2. at[list[b]] > 0
      BY <1>6, <2>3, <3>1
    <3> QED
      BY <1>8, <2>1, <3>2
  <2>4. CASE t # 0
    <3>0. Run \subseteq Int
      BY DEF Run
    <3>1. list \in [Run -> Run] /\ a <= b
      BY <1>7, <2>1, <3>0 DEF Listed
    <3>2. at'[list[a]] <= at'[list[b]]
      BY <1>2, <1>6, <3>1, SortedThroughout
    <3>3. t <= at[y] /\ at[y] \in Int
      BY <1>2, <1>8, <2>1, <3>2
    <3> QED
      BY <1>8, <2>4, <3>3
  <2> QED
    BY <2>3, <2>4
<1>9. Listed(order') /\ InTime(order', at')
  BY <1>6, <1>7
<1>10. \A x, y \in Run : x # r /\ y # r /\ Precedes(order', x, y) => Before(x, y)
  BY <1>6, <1>7
<1> QED
  BY <1>2, <1>8, <1>9, <1>10

-----------------------------------------------------------------------------
(* The inductive invariant.                                                *)

\* The runs the user retried, or that were called failed for want of a job.
Trouble == retried \cup refused

\* A sample, or one of a run, is not closed yet.
Open(r, p) == ckpt[r][p] \notin ClosedCkpt
IsOpen(r) == \E p \in Provider : Open(r, p)

\* The dispatcher's pass has read the run as due, and is not done with it.
InPass(r) == \E i \in DOMAIN pass.due : pass.due[i] = r

\* The first batch may be started twice, by the request and by a pass.
FirstPass ==
  \/ starter # "over"
  \/ InPass(1) /\ status[1] # "queued" /\ pass.step \in {"check", "act"} /\ 1 \notin Trouble

\* The run may be collected: it was started, or the pass has decided so.
Cleared(r) ==
  \/ status[r] # "queued"
  \/ r = 1 /\ starter # "over"
  \/ pass.plan = "claim" /\ pass.due # <<>> /\ Head(pass.due) = r

\* Samples that may still be completed without another look at the limit.
Owing(p) == {r \in Run : Open(r, p) /\ (r \in Trouble \/ Cleared(r))}

RowsTyped ==
  /\ status \in [Run -> RunStatus]
  /\ at \in [Run -> Int]
  /\ ckpt \in [Run -> [Provider -> CkptStatus]]
  /\ series \in SeriesRow
JobsTyped ==
  /\ job \in [Run -> [Provider -> JobStatus]]
  /\ verdict \in [Provider -> {"none", "running"} \cup Terminal]
  /\ seen \in [Provider -> SeriesRow \cup {NoRow}]
PassTyped ==
  /\ starter \in {"created", "enqueued", "failed", "over"}
  /\ pass \in PassType /\ (pass.step = "idle" <=> pass.due = <<>>)
  /\ refused \subseteq Run
RestTyped ==
  /\ today \in [Provider -> Nat] /\ quarter \in 0 .. Day - 1
  /\ lost \in Nat /\ retries \in Nat /\ lost + retries <= MaxTrouble
  /\ retry.step \in {"none", "reopened"} /\ retried \subseteq Run
  /\ Cardinality(retried) <= retries
  /\ retry.step = "reopened" => retry.run \in retried
Typed == RowsTyped /\ JobsTyped /\ PassTyped /\ RestTyped

\* The list of the runs is one, by their times.
InOrder == Listed(order) /\ InTime(order, at)

\* A provider has one job in hand.
OneActive ==
  \A p \in Provider : \A r, s \in Run :
    job[r][p] \in Active /\ job[s][p] \in Active => r = s

\* A job in hand has a sample to close, then a verdict and a series row to write;
\* a verdict other than "running" is about a run without open samples.
JobsKnown ==
  \A r \in Run, p \in Provider :
    /\ job[r][p] = "active" => Open(r, p)
    /\ job[r][p] = "tallied" =>
         /\ verdict[p] # "none"
         /\ verdict[p] # "running" /\ r \notin retried => ~IsOpen(r)
    /\ job[r][p] = "settled" => seen[p] \in SeriesRow

\* Who found no job inserted says so.
RefusedKnown ==
  /\ starter = "failed" => 1 \in refused
  /\ pass.step = "failed" => Head(pass.due) \in refused

\* A run that has ended has no open samples.
EndedClosed == \A r \in Run \ Trouble : status[r] \in Terminal => ~IsOpen(r)

\* The pass has due runs, once each, and only the one in its hand is started.
PassKnown ==
  /\ pass.step \in {"enqueue", "mark", "failed"} => pass.plan = "claim"
  /\ pass.step \in {"idle", "check"} => pass.plan = "none"
  /\ pass.step = "act" => pass.plan # "none"
  /\ \A i, j \in DOMAIN pass.due : pass.due[i] = pass.due[j] => i = j
  /\ \A i \in DOMAIN pass.due :
       /\ at[pass.due[i]] <= 0
       /\ \/ pass.due[i] \in Trouble
          \/ status[pass.due[i]] = "queued"
          \/ i = 1 /\ (pass.due[i] = 1 \/ pass.step \notin {"check", "act"})
  /\ pass.step \in {"enqueue", "mark", "failed"} =>
       Head(pass.due) \in Trouble \/ status[Head(pass.due)] # "queued"

\* While the first batch may be started twice nothing else has happened yet.
BeginsFirst ==
  FirstPass =>
    /\ \A p \in Provider : today[p] = 0
    /\ \A r \in Run : ~Before(r, 1)
    /\ \A i \in DOMAIN pass.due : pass.due[i] = 1
    /\ pass.plan \in {"none", "claim"}
    /\ retry.step = "none" /\ retried = {}
    /\ \A s \in Run \ {1} :
         /\ at[s] > 0 /\ status[s] = "queued"
         /\ \A p \in Provider : job[s][p] = "none" /\ ckpt[s][p] = "queued"

\* A run with a job was cleared.
JobsCleared ==
  \A r \in Run \ Trouble : (\E p \in Provider : job[r][p] # "none") =>
    status[r] # "queued" \/ (r = 1 /\ starter # "over")

\* A run is cleared when it is due and those before it have no open samples.
ClearedInOrder ==
  \A s \in Run \ Trouble : Cleared(s) =>
    /\ at[s] <= 0
    /\ \A r \in Run \ Trouble : Before(r, s) => ~IsOpen(r)

\* What may still be completed today is within the limit, too.
WithinPlan ==
  \A p \in Provider :
    today[p] + Cardinality(Owing(p)) <= DailyLimit + retries + Cardinality(refused)

SeriesInv ==
  /\ Typed /\ InOrder /\ OneActive /\ JobsKnown /\ RefusedKnown /\ EndedClosed
  /\ PassKnown /\ BeginsFirst /\ JobsCleared /\ ClearedInOrder /\ WithinPlan

-----------------------------------------------------------------------------
(* Facts about the state.                                                  *)

\* The runs are a finite set.
LEMMA RunsFinite ==
  ASSUME SeriesAssumption, NEW S, S \subseteq Run
  PROVE  /\ IsFiniteSet(S) /\ Cardinality(S) \in Nat
         /\ IsFiniteSet(Run) /\ Cardinality(Run) = Batches /\ 1 \in Run
<1>1. Batches \in Nat /\ 1 <= Batches /\ Run = 1 .. Batches
  BY DEF SeriesAssumption, Run
<1>2. IsFiniteSet(1 .. Batches) /\ Cardinality(1 .. Batches) = Batches
  BY <1>1, FS_Interval
<1>3. IsFiniteSet(S)
  BY <1>1, <1>2, FS_Subset
<1> QED
  BY <1>1, <1>2, <1>3, FS_CardinalityType

\* A series row that is derived has its type.
LEMMA SeriesOfType ==
  ASSUME SeriesAssumption, NEW st, NEW ck
  PROVE  SeriesOf(st, ck) \in SeriesRow
<1> DEFINE all == Run \X Provider
           done == {x \in all : ck[x[1]][x[2]] = "completed"}
<1>1. IsFiniteSet(Run) /\ Cardinality(Run) = Batches
  BY RunsFinite
<1>2. IsFiniteSet(Provider)
  BY DEF SeriesAssumption
<1>3. IsFiniteSet(all) /\ Cardinality(all) = Batches * Cardinality(Provider)
  BY <1>1, <1>2, FS_Product
<1>4. done \in SUBSET all
  OBVIOUS
<1>5. IsFiniteSet(done) /\ Cardinality(done) <= Cardinality(all)
  <2> HIDE DEF done, all
  <2> QED
    BY <1>3, <1>4, FS_Subset
<1>6. Cardinality(done) \in Nat
  <2> HIDE DEF done, all
  <2> QED
    BY <1>5, FS_CardinalityType
<1>7. Cardinality(all) \in Nat
  <2> HIDE DEF done, all
  <2> QED
    BY <1>3, FS_CardinalityType
<1>8. Cardinality(done) \in 0 .. Batches * Cardinality(Provider)
  <2> HIDE DEF done, all
  <2> QED
    BY <1>3, <1>5, <1>6, <1>7
<1>9. PICK s \in SeriesStatus :
        SeriesOf(st, ck) = [status |-> s, completed |-> Cardinality(done)]
  <2> DEFINE closed == {x \in all : ck[x[1]][x[2]] \in ClosedCkpt}
             s == IF closed = all
                  THEN IF done = closed THEN "completed"
                       ELSE IF done # {} THEN "partial" ELSE "failed"
                  ELSE IF \E r \in Run : st[r] \in {"running", "waiting_runner"}
                  THEN "running"
                  ELSE IF \E r \in Run : st[r] = "queued" THEN "scheduled" ELSE "queued"
  <2>1. SeriesOf(st, ck) = [status |-> s, completed |-> Cardinality(done)]
    BY DEF SeriesOf
  <2>2. s \in SeriesStatus
    BY DEF SeriesStatus, Terminal
  <2> HIDE DEF done, s
  <2> QED
    BY <2>1, <2>2
<1> QED
  <2> HIDE DEF done
  <2> QED
    BY <1>8, <1>9 DEF SeriesRow

\* A verdict is "running" as long as a sample is open.
LEMMA VerdictFacts ==
  ASSUME NEW ck
  PROVE  /\ RunVerdict(ck) \in {"running"} \cup Terminal
         /\ RunVerdict(ck) # "running" => \A p \in Provider : ck[p] \in ClosedCkpt
         /\ RunVerdict(ck) = "running" => \E p \in Provider : ck[p] \notin ClosedCkpt
BY DEF RunVerdict, Terminal

\* The pass has a run in hand unless it is idle.
LEMMA PassFacts ==
  ASSUME PassTyped, pass.step # "idle"
  PROVE  /\ pass.due \in Seq(Run) /\ pass.due # <<>>
         /\ Len(pass.due) \in Nat /\ Len(pass.due) >= 1
         /\ DOMAIN pass.due = 1 .. Len(pass.due) /\ 1 \in DOMAIN pass.due
         /\ Head(pass.due) = pass.due[1] /\ Head(pass.due) \in Run
<1>1. pass.due \in Seq(Run) /\ pass.due # <<>>
  BY DEF PassTyped, PassType
<1> QED
  BY ONLY <1>1

\* What is left of a pass.
LEMMA NextDueFacts ==
  ASSUME PassTyped, pass.step # "idle"
  PROVE  /\ NextDue \in PassType /\ NextDue.plan = "none" /\ NextDue.step \in {"idle", "check"}
         /\ NextDue.step = "idle" <=> NextDue.due = <<>>
         /\ \A i \in DOMAIN NextDue.due :
              i + 1 \in DOMAIN pass.due /\ i + 1 # 1 /\ NextDue.due[i] = pass.due[i + 1]
<1>1. /\ pass.due \in Seq(Run) /\ pass.due # <<>>
      /\ Len(pass.due) \in Nat /\ Len(pass.due) >= 1
      /\ DOMAIN pass.due = 1 .. Len(pass.due)
  BY PassFacts
<1>2. CASE Len(pass.due) = 1
  <2>1. NextDue = [due |-> <<>>, step |-> "idle", plan |-> "none"]
    BY <1>2 DEF NextDue, Idle
  <2> QED
    BY ONLY <2>1 DEF PassType
<1>3. CASE Len(pass.due) # 1
  <2>1. NextDue = [due |-> Tail(pass.due), step |-> "check", plan |-> "none"]
    BY <1>3 DEF NextDue
  <2>2. /\ Tail(pass.due) \in Seq(Run) /\ Tail(pass.due) # <<>>
        /\ \A i \in DOMAIN Tail(pass.due) :
             i + 1 \in DOMAIN pass.due /\ i + 1 # 1 /\ Tail(pass.due)[i] = pass.due[i + 1]
    <3>1. Tail(pass.due) \in Seq(Run) /\ Len(Tail(pass.due)) = Len(pass.due) - 1
      BY ONLY <1>1, <1>3
    <3>2. \A i \in 1 .. Len(pass.due) - 1 : Tail(pass.due)[i] = pass.due[i + 1]
      BY ONLY <1>1, <1>3
    <3>3. DOMAIN Tail(pass.due) = 1 .. Len(pass.due) - 1
      BY ONLY <1>1, <3>1
    <3>4. Tail(pass.due) # <<>>
      <4>1. Len(Tail(pass.due)) # 0
        BY ONLY <1>1, <1>3, <3>1
      <4>2. Len(<<>>) = 0
        OBVIOUS
      <4> QED
        BY ONLY <4>1, <4>2
    <3> QED
      BY ONLY <1>1, <1>3, <3>1, <3>2, <3>3, <3>4
  <2>3. NextDue \in PassType /\ NextDue.plan = "none" /\ NextDue.step = "check"
        /\ NextDue.due = Tail(pass.due)
    BY ONLY <2>1, <2>2 DEF PassType
  <2> QED
    BY <2>2, <2>3
<1> QED
  BY <1>2, <1>3

\* The samples that are owed are of a finite number of runs.
LEMMA OwingFinite ==
  ASSUME SeriesAssumption, PassTyped, NEW p
  PROVE  /\ Owing(p) \subseteq Run /\ IsFiniteSet(Owing(p)) /\ Cardinality(Owing(p)) \in Nat
         /\ IsFiniteSet(refused) /\ Cardinality(refused) \in Nat
<1>1. Owing(p) \subseteq Run /\ refused \subseteq Run
  BY DEF Owing, PassTyped
<1> QED
  BY <1>1, RunsFinite

-----------------------------------------------------------------------------
(* What a step must keep for the invariant's parts about order and limit.  *)

\* Where nothing more is cleared or opened, the order stays right.
LEMMA OrderKept ==
  ASSUME ClearedInOrder, Trouble \subseteq Trouble',
         \A s \in Run \ Trouble' : Cleared(s)' => Cleared(s) /\ at'[s] <= 0,
         \A s \in Run \ Trouble' : IsOpen(s)' => IsOpen(s),
         \A r, s \in Run : Before(r, s)' => Before(r, s)
  PROVE  ClearedInOrder'
BY DEF ClearedInOrder

\* Where nothing more is owed, the limit is kept.
LEMMA LimitKept ==
  ASSUME SeriesAssumption, PassTyped, PassTyped', RestTyped, WithinPlan,
         UNCHANGED <<today, retries, refused>>,
         \A p \in Provider : Owing(p)' \subseteq Owing(p)
  PROVE  WithinPlan'
<1> SUFFICES ASSUME NEW p \in Provider
             PROVE  today'[p] + Cardinality(Owing(p)')
                      <= DailyLimit + retries' + Cardinality(refused')
  BY DEF WithinPlan
<1>1. IsFiniteSet(Owing(p)) /\ Cardinality(Owing(p)) \in Nat
      /\ Cardinality(refused) \in Nat
  BY OwingFinite
<1>2. Cardinality(Owing(p)') <= Cardinality(Owing(p))
  BY <1>1, FS_Subset
<1>3. IsFiniteSet(Owing(p)') /\ Cardinality(Owing(p)') \in Nat
  BY <1>1, FS_Subset, FS_CardinalityType
<1>4. today[p] + Cardinality(Owing(p)) <= DailyLimit + retries + Cardinality(refused)
  BY DEF WithinPlan
<1>5. today[p] \in Nat /\ retries \in Nat /\ DailyLimit \in Nat
  BY DEF RestTyped, SeriesAssumption
<1> QED
  BY <1>1, <1>2, <1>3, <1>4, <1>5

\* Where one more run may be owed, and the limit counts one more, too.
LEMMA LimitRaised ==
  ASSUME SeriesAssumption, PassTyped, PassTyped', RestTyped, RestTyped', WithinPlan, NEW r,
         UNCHANGED today,
         \/ retries' = retries + 1 /\ refused' = refused
         \/ retries' = retries /\ refused' = refused \cup {r} /\ r \notin refused,
         \A p \in Provider : Owing(p)' \subseteq Owing(p) \cup {r}
  PROVE  WithinPlan'
<1> SUFFICES ASSUME NEW p \in Provider
             PROVE  today'[p] + Cardinality(Owing(p)')
                      <= DailyLimit + retries' + Cardinality(refused')
  BY DEF WithinPlan
<1>1. IsFiniteSet(Owing(p)) /\ Cardinality(Owing(p)) \in Nat
      /\ IsFiniteSet(refused) /\ Cardinality(refused) \in Nat
  BY OwingFinite
<1>2. IsFiniteSet(Owing(p) \cup {r}) /\ Cardinality(Owing(p) \cup {r}) <= Cardinality(Owing(p)) + 1
      /\ Cardinality(Owing(p) \cup {r}) \in Nat
  <2> DEFINE own == Owing(p)
  <2>1. IsFiniteSet(own) /\ Cardinality(own) \in Nat
    BY <1>1
  <2> HIDE DEF own
  <2>2. IsFiniteSet(own \cup {r})
        /\ Cardinality(own \cup {r}) = IF r \in own THEN Cardinality(own) ELSE Cardinality(own) + 1
    BY <2>1, FS_AddElement
  <2>3. Cardinality(own \cup {r}) <= Cardinality(own) + 1 /\ Cardinality(own \cup {r}) \in Nat
    BY <2>1, <2>2
  <2> QED
    BY <2>2, <2>3 DEF own
<1>3. Cardinality(Owing(p)') <= Cardinality(Owing(p) \cup {r})
  BY <1>2, FS_Subset
<1>4. IsFiniteSet(Owing(p)') /\ Cardinality(Owing(p)') \in Nat
  BY <1>2, FS_Subset, FS_CardinalityType
<1>5. today[p] + Cardinality(Owing(p)) <= DailyLimit + retries + Cardinality(refused)
  BY DEF WithinPlan
<1>6. today[p] \in Nat /\ retries \in Nat /\ DailyLimit \in Nat /\ today'[p] = today[p]
  BY DEF RestTyped, SeriesAssumption
<1>7. retries' + Cardinality(refused') = retries + Cardinality(refused) + 1
      /\ retries' \in Nat /\ Cardinality(refused') \in Nat
  <2>1. CASE refused' = refused /\ retries' = retries + 1
    BY <1>1, <1>6, <2>1
  <2>2. CASE retries' = retries /\ refused' = refused \cup {r} /\ r \notin refused
    <3>1. Cardinality(refused \cup {r}) = Cardinality(refused) + 1
      BY <1>1, <2>2, FS_AddElement
    <3> QED
      BY <1>1, <1>6, <2>2, <3>1
  <2> QED
    BY <2>1, <2>2
<1> QED
  BY <1>1, <1>2, <1>3, <1>4, <1>5, <1>6, <1>7

-----------------------------------------------------------------------------
(* The initial states.                                                     *)

\* The batches are spaced apart.
LEMMA Spaced ==
  ASSUME NEW n \in Nat, NEW d \in Nat \ {0}
  PROVE  n * d \in Nat /\ n * d <= (n + 1) * d /\ (n > 0 => n * d > 0)
<1>1. (n + 1) * d = n * d + d /\ n * d \in Nat
  BY SMT
<1>2. n > 0 => n * d >= d
  BY SMT
<1> QED
  BY <1>1, <1>2

\* A series that was created has the invariant.
LEMMA SeriesInitInv ==
  ASSUME SeriesAssumption, Init
  PROVE  SeriesInv
<1>0. /\ Batches \in Nat \ {0} /\ Run = 1 .. Batches /\ 1 \in Run /\ Run \subseteq Nat
      /\ Spacing \in Nat \ {0} /\ DailyLimit \in Nat \ {0} /\ MaxTrouble \in Nat
      /\ StartQuarter \in 0 .. Day - 1
  BY DEF SeriesAssumption, Run, Day
<1>1. /\ status = [r \in Run |-> "queued"]
      /\ at = [r \in Run |-> (r - 1) * Spacing]
      /\ order = [i \in Run |-> i]
      /\ ckpt = [r \in Run |-> [p \in Provider |-> "queued"]]
      /\ job = [r \in Run |-> [p \in Provider |-> "none"]]
      /\ series = [status |-> "queued", completed |-> 0]
      /\ verdict = [p \in Provider |-> "none"]
      /\ seen = [p \in Provider |-> NoRow]
      /\ starter = "created"
      /\ pass = Idle /\ refused = {}
      /\ today = [p \in Provider |-> 0]
      /\ quarter = StartQuarter
      /\ lost = 0 /\ retries = 0 /\ retry = [step |-> "none", run |-> 0] /\ retried = {}
  BY DEF Init
<1>2. \A r \in Run : at[r] \in Nat /\ at[1] = 0 /\ (r # 1 => at[r] > 0)
  <2> SUFFICES ASSUME NEW r \in Run
               PROVE  at[r] \in Nat /\ at[1] = 0 /\ (r # 1 => at[r] > 0)
    OBVIOUS
  <2>1. r - 1 \in Nat /\ (r # 1 => r - 1 > 0)
    BY <1>0
  <2>2. (r - 1) * Spacing \in Nat /\ (r - 1 > 0 => (r - 1) * Spacing > 0)
    BY <1>0, <2>1, Spaced
  <2>3. (1 - 1) * Spacing = 0
    BY <1>0
  <2> QED
    BY <1>0, <1>1, <2>1, <2>2, <2>3
<1>3. InTime(order, at)
  <2> SUFFICES ASSUME NEW i \in 1 .. Batches - 1 PROVE at[order[i]] <= at[order[i + 1]]
    BY DEF InTime
  <2>1. i \in Run /\ i + 1 \in Run /\ i - 1 \in Nat /\ (i - 1) + 1 = (i + 1) - 1
    BY <1>0
  <2>2. (i - 1) * Spacing <= ((i - 1) + 1) * Spacing
    BY <1>0, <2>1, Spaced
  <2>3. at[order[i]] = (i - 1) * Spacing /\ at[order[i + 1]] = ((i + 1) - 1) * Spacing
    BY <1>1, <2>1
  <2> QED
    BY <2>1, <2>2, <2>3
<1>4. Listed(order)
  BY <1>1 DEF Listed
<1>5. \A r \in Run : ~Before(r, 1)
  BY <1>0, <1>1 DEF Before, Precedes
<1>6. pass.due = <<>> /\ pass.step = "idle" /\ pass.plan = "none" /\ pass \in PassType
      /\ DOMAIN pass.due = {}
  BY ONLY <1>1 DEF Idle, PassType
<1>7. RowsTyped
  <2>1. Cardinality(Provider) \in Nat
    BY FS_CardinalityType DEF SeriesAssumption
  <2>2. 0 \in 0 .. Batches * Cardinality(Provider)
    BY <1>0, <2>1, SMT
  <2>3. series \in SeriesRow
    BY <1>1, <2>2 DEF SeriesRow, SeriesStatus
  <2> QED
    BY <1>0, <1>1, <1>2, <2>3 DEF RowsTyped, RunStatus, CkptStatus
<1>8. Typed
  <2>1. Cardinality({}) = 0
    BY FS_EmptySet
  <2> QED
    BY <1>0, <1>1, <1>6, <1>7, <2>1 DEF Typed, JobsTyped, PassTyped, RestTyped, JobStatus
<1>9. Trouble = {} /\ \A s \in Run : Cleared(s) => s = 1
  BY <1>1, <1>6 DEF Trouble, Cleared
<1>10. WithinPlan
  <2> SUFFICES ASSUME NEW p \in Provider
               PROVE  today[p] + Cardinality(Owing(p))
                        <= DailyLimit + retries + Cardinality(refused)
    BY DEF WithinPlan
  <2>1. Owing(p) \subseteq {1}
    BY <1>9 DEF Owing
  <2>2. IsFiniteSet({1}) /\ Cardinality({1}) = 1
    BY FS_Singleton
  <2>3. Cardinality(Owing(p)) <= 1
    BY <2>1, <2>2, FS_Subset
  <2>4. Cardinality(Owing(p)) \in Nat /\ Cardinality(refused) \in Nat
    BY <1>8, OwingFinite DEF Typed
  <2> QED
    BY <1>0, <1>1, <2>3, <2>4
<1>11. OneActive /\ JobsKnown
  BY <1>1 DEF OneActive, JobsKnown, Active
<1>12. RefusedKnown /\ EndedClosed /\ PassKnown /\ JobsCleared
  BY <1>1, <1>6 DEF RefusedKnown, EndedClosed, Terminal, PassKnown, JobsCleared
<1>13. BeginsFirst
  BY <1>1, <1>2, <1>5, <1>6 DEF BeginsFirst
<1>14. ClearedInOrder
  BY <1>2, <1>5, <1>9 DEF ClearedInOrder
<1> QED
  BY <1>3, <1>4, <1>8, <1>10, <1>11, <1>12, <1>13, <1>14 DEF SeriesInv, InOrder

-----------------------------------------------------------------------------
(* The jobs.                                                               *)

\* The step of a job moves it alone.
LEMMA SetJobEffect ==
  ASSUME JobsTyped, NEW r \in Run, NEW p \in Provider, NEW v \in JobStatus, SetJob(r, p, v)
  PROVE  /\ job' \in [Run -> [Provider -> JobStatus]]
         /\ \A s \in Run, q \in Provider :
              job'[s][q] = IF s = r /\ q = p THEN v ELSE job[s][q]
<1>1. job' = [job EXCEPT ![r][p] = v] /\ job \in [Run -> [Provider -> JobStatus]]
  BY DEF SetJob, JobsTyped
<1> QED
  BY ONLY <1>1

\* Where nothing but jobs and what they know changes, the rest stays right.
LEMMA RestStays ==
  ASSUME SeriesAssumption, SeriesInv,
         UNCHANGED <<status, at, order, ckpt, passVars, userVars, timeVars>>,
         series' \in SeriesRow, JobsTyped', OneActive', JobsKnown',
         lost' \in Nat, lost' + retries <= MaxTrouble,
         \A r \in Run, p \in Provider : job'[r][p] # "none" => job[r][p] # "none"
  PROVE  SeriesInv'
<1> USE DEF SeriesInv, Typed
<1>1. /\ status' = status /\ at' = at /\ order' = order /\ ckpt' = ckpt
      /\ starter' = starter /\ pass' = pass /\ refused' = refused
      /\ retries' = retries /\ retry' = retry /\ retried' = retried
      /\ today' = today /\ quarter' = quarter
  BY DEF passVars, userVars, timeVars
<1>2. Typed'
  BY <1>1 DEF RowsTyped, PassTyped, RestTyped
<1>3. InOrder' /\ RefusedKnown' /\ PassKnown'
  BY <1>1 DEF InOrder, Listed, InTime, RefusedKnown, PassKnown, Trouble
<1>4. /\ Trouble' = Trouble
      /\ \A s \in Run : (Cleared(s)' <=> Cleared(s)) /\ (IsOpen(s)' <=> IsOpen(s))
      /\ \A r, s \in Run : Before(r, s)' <=> Before(r, s)
      /\ FirstPass' <=> FirstPass
  BY <1>1 DEF Trouble, Cleared, IsOpen, Open, Before, Precedes, FirstPass, InPass
<1>5. EndedClosed'
  BY <1>1, <1>4 DEF EndedClosed
<1>6. JobsCleared'
  BY <1>1, <1>4 DEF JobsCleared
<1>7. ClearedInOrder'
  BY <1>1, <1>4 DEF ClearedInOrder
<1>8. \A p \in Provider : Owing(p)' = Owing(p)
  BY <1>1, <1>4 DEF Owing, Open
<1>9. WithinPlan'
  BY <1>1, <1>8 DEF WithinPlan
<1>10. BeginsFirst'
  <2>1. 1 \in Run
    BY RunsFinite
  <2>2. \A s \in Run \ {1} : (\A p \in Provider : job[s][p] = "none")
          => \A p \in Provider : job'[s][p] = "none"
    OBVIOUS
  <2> QED
    BY <1>1, <1>4, <2>1, <2>2 DEF BeginsFirst
<1> QED
  BY <1>2, <1>3, <1>5, <1>6, <1>7, <1>9, <1>10

\* The worker takes a job: the provider has none other in hand.
LEMMA PickKeeps ==
  ASSUME SeriesAssumption, SeriesInv, NEW r \in Run, NEW p \in Provider, Pick(r, p)
  PROVE  SeriesInv'
<1> DEFINE v == IF ckpt[r][p] \in ClosedCkpt THEN "stored" ELSE "active"
<1>1. /\ job[r][p] = "waiting" /\ \A s \in Run : job[s][p] \notin Active
      /\ SetJob(r, p, v)
      /\ UNCHANGED <<rowVars, verdict, seen, lost, passVars, userVars, timeVars>>
  BY DEF Pick
<1>2. Typed /\ OneActive /\ JobsKnown
  BY DEF SeriesInv
<1>3. job' \in [Run -> [Provider -> JobStatus]]
      /\ \A s \in Run, q \in Provider :
           job'[s][q] = IF s = r /\ q = p THEN v ELSE job[s][q]
  BY <1>1, <1>2, SetJobEffect DEF Typed, JobStatus, Active
<1>4. UNCHANGED <<status, at, order, ckpt, series, verdict, seen, lost, retried, retries>>
  BY <1>1 DEF rowVars, userVars
<1>5. JobsTyped' /\ series' \in SeriesRow /\ lost' \in Nat /\ lost' + retries <= MaxTrouble
  BY <1>2, <1>3, <1>4 DEF JobsTyped, Typed, RowsTyped, RestTyped
<1>6. OneActive'
  BY <1>1, <1>2, <1>3 DEF OneActive
<1>7. JobsKnown'
  BY <1>2, <1>3, <1>4 DEF JobsKnown, IsOpen, Open
<1> QED
  BY <1>1, <1>3, <1>4, <1>5, <1>6, <1>7, RestStays

\* A finalization reads the samples of its run: a verdict other than "running"
\* means that none is open.
LEMMA TallyKeeps ==
  ASSUME SeriesAssumption, SeriesInv, NEW r \in Run, NEW p \in Provider, Tally(r, p)
  PROVE  SeriesInv'
<1>1. /\ job[r][p] = "stored" /\ SetJob(r, p, "tallied")
      /\ verdict' = [verdict EXCEPT ![p] = RunVerdict(ckpt[r])]
      /\ UNCHANGED <<rowVars, seen, lost, passVars, userVars, timeVars>>
  BY DEF Tally
<1>2. Typed /\ OneActive /\ JobsKnown
  BY DEF SeriesInv
<1>3. job' \in [Run -> [Provider -> JobStatus]]
      /\ \A s \in Run, q \in Provider :
           job'[s][q] = IF s = r /\ q = p THEN "tallied" ELSE job[s][q]
  BY <1>1, <1>2, SetJobEffect DEF Typed, JobStatus, Active
<1>4. UNCHANGED <<status, at, order, ckpt, series, seen, lost, retried, retries>>
  BY <1>1 DEF rowVars, userVars
<1>5. /\ RunVerdict(ckpt[r]) \in {"running"} \cup Terminal
      /\ RunVerdict(ckpt[r]) # "running" => ~IsOpen(r)
  BY VerdictFacts DEF IsOpen, Open
<1>6. verdict' \in [Provider -> {"none", "running"} \cup Terminal]
      /\ \A q \in Provider : verdict'[q] = IF q = p THEN RunVerdict(ckpt[r]) ELSE verdict[q]
  BY <1>1, <1>2, <1>5 DEF Typed, JobsTyped
<1>7. JobsTyped' /\ series' \in SeriesRow /\ lost' \in Nat /\ lost' + retries <= MaxTrouble
  BY <1>2, <1>3, <1>4, <1>6 DEF JobsTyped, Typed, RowsTyped, RestTyped
<1>8. OneActive'
  BY <1>1, <1>2, <1>3 DEF OneActive, Active
<1>9. JobsKnown'
  <2> SUFFICES ASSUME NEW s \in Run, NEW q \in Provider
               PROVE  /\ job'[s][q] = "active" => Open(s, q)'
                      /\ job'[s][q] = "tallied" =>
                           /\ verdict'[q] # "none"
                           /\ verdict'[q] # "running" /\ s \notin retried' => ~IsOpen(s)'
                      /\ job'[s][q] = "settled" => seen'[q] \in SeriesRow
    BY DEF JobsKnown
  <2>1. (Open(s, q)' <=> Open(s, q)) /\ (IsOpen(s)' <=> IsOpen(s))
    BY <1>4 DEF IsOpen, Open
  <2>2. CASE q # p
    BY <1>2, <1>3, <1>4, <1>6, <2>1, <2>2 DEF JobsKnown
  <2>3. CASE q = p /\ s = r
    BY <1>3, <1>5, <1>6, <2>1, <2>3 DEF Terminal
  <2>4. CASE q = p /\ s # r
    <3>1. job'[s][q] = job[s][q] /\ job[s][q] \notin Active
      BY <1>1, <1>2, <1>3, <2>4 DEF OneActive, Active
    <3> QED
      BY <3>1 DEF Active
  <2> QED
    BY <2>2, <2>3, <2>4
<1> QED
  BY <1>1, <1>3, <1>4, <1>7, <1>8, <1>9, RestStays

\* A finalization writes the series row, stale as it may be.
LEMMA SeriesWriteKeeps ==
  ASSUME SeriesAssumption, SeriesInv, NEW r \in Run, NEW p \in Provider, SeriesWrite(r, p)
  PROVE  SeriesInv'
<1>1. /\ job[r][p] = "settled" /\ SetJob(r, p, "none")
      /\ series' = seen[p] /\ seen' = [seen EXCEPT ![p] = NoRow]
      /\ UNCHANGED <<status, at, order, ckpt, verdict, lost, passVars, userVars, timeVars>>
  BY DEF SeriesWrite
<1>2. Typed /\ OneActive /\ JobsKnown
  BY DEF SeriesInv
<1>3. job' \in [Run -> [Provider -> JobStatus]]
      /\ \A s \in Run, q \in Provider :
           job'[s][q] = IF s = r /\ q = p THEN "none" ELSE job[s][q]
  BY <1>1, <1>2, SetJobEffect DEF Typed, JobStatus, Active
<1>4. UNCHANGED <<status, at, order, ckpt, verdict, lost, retried, retries>>
  BY <1>1 DEF userVars
<1>5. seen' \in [Provider -> SeriesRow \cup {NoRow}]
      /\ \A q \in Provider : q # p => seen'[q] = seen[q]
  BY <1>1, <1>2 DEF Typed, JobsTyped
<1>6. seen[p] \in SeriesRow
  BY <1>1, <1>2 DEF JobsKnown
<1>7. JobsTyped' /\ series' \in SeriesRow /\ lost' \in Nat /\ lost' + retries <= MaxTrouble
  BY <1>1, <1>2, <1>3, <1>4, <1>5, <1>6 DEF JobsTyped, Typed, RowsTyped, RestTyped
<1>8. OneActive'
  BY <1>1, <1>2, <1>3 DEF OneActive, Active
<1>9. JobsKnown'
  <2> SUFFICES ASSUME NEW s \in Run, NEW q \in Provider
               PROVE  /\ job'[s][q] = "active" => Open(s, q)'
                      /\ job'[s][q] = "tallied" =>
                           /\ verdict'[q] # "none"
                           /\ verdict'[q] # "running" /\ s \notin retried' => ~IsOpen(s)'
                      /\ job'[s][q] = "settled" => seen'[q] \in SeriesRow
    BY DEF JobsKnown
  <2>1. (Open(s, q)' <=> Open(s, q)) /\ (IsOpen(s)' <=> IsOpen(s))
    BY <1>4 DEF IsOpen, Open
  <2>2. CASE q # p
    BY <1>2, <1>3, <1>4, <1>5, <2>1, <2>2 DEF JobsKnown
  <2>3. CASE q = p
    <3>1. job'[s][q] \notin Active
      BY <1>1, <1>2, <1>3, <2>3 DEF OneActive, Active
    <3> QED
      BY <3>1 DEF Active
  <2> QED
    BY <2>2, <2>3
<1> QED
  BY <1>1, <1>3, <1>4, <1>7, <1>8, <1>9, RestStays

\* A job is lost: its sample stays open, and its run cleared.
LEMMA VanishKeeps ==
  ASSUME SeriesAssumption, SeriesInv, NEW r \in Run, NEW p \in Provider, Vanish(r, p)
  PROVE  SeriesInv'
<1>1. /\ job[r][p] \in {"waiting", "active"} /\ lost + retries < MaxTrouble
      /\ lost' = lost + 1 /\ SetJob(r, p, "none")
      /\ UNCHANGED <<rowVars, verdict, seen, passVars, userVars, timeVars>>
  BY DEF Vanish
<1>2. Typed /\ OneActive /\ JobsKnown
  BY DEF SeriesInv
<1>3. job' \in [Run -> [Provider -> JobStatus]]
      /\ \A s \in Run, q \in Provider :
           job'[s][q] = IF s = r /\ q = p THEN "none" ELSE job[s][q]
  BY <1>1, <1>2, SetJobEffect DEF Typed, JobStatus, Active
<1>4. UNCHANGED <<status, at, order, ckpt, series, verdict, seen, retried, retries>>
  BY <1>1 DEF rowVars, userVars
<1>5. lost \in Nat /\ retries \in Nat /\ MaxTrouble \in Nat
  BY <1>2 DEF Typed, RestTyped, SeriesAssumption
<1>6. JobsTyped' /\ series' \in SeriesRow /\ lost' \in Nat /\ lost' + retries <= MaxTrouble
  BY <1>1, <1>2, <1>3, <1>4, <1>5 DEF JobsTyped, Typed, RowsTyped
<1>7. OneActive'
  BY <1>1, <1>2, <1>3 DEF OneActive, Active
<1>8. JobsKnown'
  BY <1>2, <1>3, <1>4 DEF JobsKnown, IsOpen, Open
<1> QED
  BY <1>1, <1>3, <1>4, <1>6, <1>7, <1>8, RestStays

\* A provider is asked for a sample of a run that was cleared.
LEMMA ActiveOwed ==
  ASSUME SeriesInv, NEW r \in Run, NEW p \in Provider, job[r][p] = "active"
  PROVE  /\ r \in Owing(p) /\ Open(r, p)
         /\ FirstPass => r = 1 /\ Fresh(1)
<1>1. Open(r, p)
  BY DEF SeriesInv, JobsKnown
<1>2. r \in Trouble \/ Cleared(r)
  BY DEF SeriesInv, JobsCleared, Cleared
<1>3. FirstPass => r = 1
  BY DEF SeriesInv, BeginsFirst
<1> QED
  BY <1>1, <1>2, <1>3 DEF Owing, FirstPass, Fresh, InPass

\* A sample is closed: one less is owed when it counts for the day.
LEMMA CloseKeeps ==
  ASSUME SeriesAssumption, SeriesInv, NEW r \in Run, NEW p \in Provider, Close(r, p)
  PROVE  SeriesInv'
<1>1. /\ job[r][p] = "active" /\ SetJob(r, p, "stored")
      /\ UNCHANGED <<status, at, order, series, verdict, seen, lost, passVars, userVars, quarter>>
  BY DEF Close
<1>2. PICK v \in {"completed", "failed"} :
        /\ ckpt' = [ckpt EXCEPT ![r][p] = v]
        /\ v = "completed" => ~Fresh(r) /\ today' = [today EXCEPT ![p] = @ + 1]
        /\ v = "failed" => today' = today
  BY DEF Close
<1>3. /\ Typed /\ InOrder /\ OneActive /\ JobsKnown /\ RefusedKnown /\ EndedClosed
      /\ PassKnown /\ BeginsFirst /\ JobsCleared /\ ClearedInOrder /\ WithinPlan
  BY DEF SeriesInv
<1>4. job' \in [Run -> [Provider -> JobStatus]]
      /\ \A s \in Run, q \in Provider :
           job'[s][q] = IF s = r /\ q = p THEN "stored" ELSE job[s][q]
  BY <1>1, <1>3, SetJobEffect DEF Typed, JobStatus, Active
<1>5. /\ status' = status /\ at' = at /\ order' = order /\ series' = series
      /\ starter' = starter /\ pass' = pass /\ refused' = refused /\ lost' = lost
      /\ retries' = retries /\ retry' = retry /\ retried' = retried
      /\ quarter' = quarter /\ verdict' = verdict /\ seen' = seen
  BY <1>1 DEF passVars, userVars
<1>6. /\ ckpt' \in [Run -> [Provider -> CkptStatus]]
      /\ \A s \in Run, q \in Provider :
           ckpt'[s][q] = IF s = r /\ q = p THEN v ELSE ckpt[s][q]
  <2>1. ckpt \in [Run -> [Provider -> CkptStatus]] /\ v \in CkptStatus
    BY <1>3 DEF Typed, RowsTyped, CkptStatus, ClosedCkpt
  <2> QED
    BY ONLY <2>1, <1>2
<1>7. /\ r \in Owing(p) /\ Open(r, p) /\ (FirstPass => r = 1 /\ Fresh(1))
  BY <1>1, ActiveOwed
<1>8. /\ \A s \in Run, q \in Provider : Open(s, q)' => Open(s, q) /\ ~(s = r /\ q = p)
      /\ \A s \in Run : IsOpen(s)' => IsOpen(s)
  BY <1>6 DEF Open, IsOpen, ClosedCkpt
<1>9. today \in [Provider -> Nat]
  BY <1>3 DEF Typed, RestTyped
<1>10. /\ today' \in [Provider -> Nat]
       /\ \A q \in Provider : today'[q] = IF q = p /\ v = "completed" THEN today[q] + 1 ELSE today[q]
  BY <1>2, <1>9
<1>11. Typed'
  BY <1>3, <1>4, <1>5, <1>6, <1>10 DEF Typed, RowsTyped, JobsTyped, PassTyped, RestTyped
<1>12. /\ Trouble' = Trouble
       /\ \A s \in Run : Cleared(s)' <=> Cleared(s)
       /\ \A s, t \in Run : Before(s, t)' <=> Before(s, t)
       /\ FirstPass' <=> FirstPass
  BY <1>5 DEF Trouble, Cleared, Before, Precedes, FirstPass, InPass
<1>13. InOrder' /\ RefusedKnown' /\ PassKnown'
  BY <1>3, <1>5 DEF InOrder, Listed, InTime, RefusedKnown, PassKnown, Trouble
<1>14. OneActive'
  BY <1>1, <1>3, <1>4 DEF OneActive, Active
<1>15. JobsKnown'
  <2> SUFFICES ASSUME NEW s \in Run, NEW q \in Provider
               PROVE  /\ job'[s][q] = "active" => Open(s, q)'
                      /\ job'[s][q] = "tallied" =>
                           /\ verdict'[q] # "none"
                           /\ verdict'[q] # "running" /\ s \notin retried' => ~IsOpen(s)'
                      /\ job'[s][q] = "settled" => seen'[q] \in SeriesRow
    BY DEF JobsKnown
  <2>1. CASE s = r /\ q = p
    BY <1>4, <2>1
  <2>2. CASE ~(s = r /\ q = p)
    <3>1. job'[s][q] = job[s][q] /\ (Open(s, q)' <=> Open(s, q))
      BY <1>4, <1>6, <2>2 DEF Open
    <3> QED
      BY <1>3, <1>5, <1>8, <3>1 DEF JobsKnown
  <2> QED
    BY <2>1, <2>2
<1>16. EndedClosed'
  BY <1>3, <1>5, <1>8, <1>12 DEF EndedClosed
<1>17. BeginsFirst'
  <2> SUFFICES ASSUME FirstPass
               PROVE  /\ \A q \in Provider : today'[q] = 0
                      /\ \A s \in Run : ~Before(s, 1)'
                      /\ \A i \in DOMAIN pass'.due : pass'.due[i] = 1
                      /\ pass'.plan \in {"none", "claim"}
                      /\ retry'.step = "none" /\ retried' = {}
                      /\ \A s \in Run \ {1} :
                           /\ at'[s] > 0 /\ status'[s] = "queued"
                           /\ \A q \in Provider : job'[s][q] = "none" /\ ckpt'[s][q] = "queued"
    BY <1>12 DEF BeginsFirst
  <2>1. v = "failed" /\ r = 1
    BY <1>2, <1>7
  <2>2. \A s \in Run \ {1}, q \in Provider : job'[s][q] = job[s][q] /\ ckpt'[s][q] = ckpt[s][q]
    BY <1>4, <1>6, <2>1
  <2>3. today' = today
    BY <1>2, <2>1
  <2>4. 1 \in Run
    BY RunsFinite
  <2> QED
    BY <1>3, <1>5, <1>12, <2>2, <2>3, <2>4 DEF BeginsFirst
<1>18. JobsCleared'
  <2>1. \A s \in Run, q \in Provider : job'[s][q] # "none" => job[s][q] # "none"
    BY <1>1, <1>4
  <2> QED
    BY <1>3, <1>5, <1>12, <2>1 DEF JobsCleared
<1>19. ClearedInOrder'
  BY <1>3, <1>5, <1>8, <1>12 DEF ClearedInOrder
<1>20. \A q \in Provider : Owing(q)' \subseteq Owing(q) \ (IF q = p THEN {r} ELSE {})
  BY <1>8, <1>12 DEF Owing
<1>21. WithinPlan'
  <2> SUFFICES ASSUME NEW q \in Provider
               PROVE  today'[q] + Cardinality(Owing(q)')
                        <= DailyLimit + retries' + Cardinality(refused')
    BY DEF WithinPlan
  <2>1. IsFiniteSet(Owing(q)) /\ Cardinality(Owing(q)) \in Nat /\ Cardinality(refused) \in Nat
    BY <1>3, OwingFinite DEF Typed
  <2>2. today[q] + Cardinality(Owing(q)) <= DailyLimit + retries + Cardinality(refused)
    BY <1>3 DEF WithinPlan
  <2>3. today[q] \in Nat /\ retries \in Nat /\ DailyLimit \in Nat
    BY <1>3 DEF Typed, RestTyped, SeriesAssumption
  <2>4. CASE q = p
    <3> DEFINE own == Owing(q)
    <3>1. IsFiniteSet(own) /\ r \in own /\ Owing(q)' \subseteq own \ {r}
      BY <1>7, <1>20, <2>1, <2>4
    <3> HIDE DEF own
    <3>2. IsFiniteSet(own \ {r}) /\ Cardinality(own \ {r}) = Cardinality(own) - 1
      BY <3>1, FS_RemoveElement
    <3>3. Cardinality(Owing(q)') <= Cardinality(own \ {r}) /\ IsFiniteSet(Owing(q)')
      BY <3>1, <3>2, FS_Subset
    <3>4. Cardinality(Owing(q)') \in Nat /\ Cardinality(own) \in Nat
      BY <3>1, <3>3, FS_CardinalityType
    <3>5. Cardinality(Owing(q)') <= Cardinality(Owing(q)) - 1
      BY <3>2, <3>3 DEF own
    <3>6. today'[q] <= today[q] + 1 /\ today'[q] \in Nat
      BY <1>10, <2>3
    <3> QED
      BY <1>5, <2>1, <2>2, <2>3, <3>4, <3>5, <3>6
  <2>5. CASE q # p
    <3>1. Cardinality(Owing(q)') <= Cardinality(Owing(q)) /\ IsFiniteSet(Owing(q)')
      BY <1>20, <2>1, FS_Subset
    <3>2. Cardinality(Owing(q)') \in Nat /\ today'[q] = today[q]
      BY <1>10, <2>5, <3>1, FS_CardinalityType
    <3> QED
      BY <1>5, <2>1, <2>2, <2>3, <3>1, <3>2
  <2> QED
    BY <2>4, <2>5
<1> QED
  BY <1>11, <1>13, <1>14, <1>15, <1>16, <1>17, <1>18, <1>19, <1>21 DEF SeriesInv

\* A finalization writes the run's status: it stays cleared, and ends only
\* when its samples are closed.
LEMMA SettleKeeps ==
  ASSUME SeriesAssumption, SeriesInv, NEW r \in Run, NEW p \in Provider, Settle(r, p)
  PROVE  SeriesInv'
<1>1. /\ job[r][p] = "tallied" /\ SetJob(r, p, "settled")
      /\ status' = [status EXCEPT ![r] = verdict[p]]
      /\ verdict' = [verdict EXCEPT ![p] = "none"]
      /\ seen' = [seen EXCEPT ![p] = SeriesOf(status', ckpt)]
      /\ UNCHANGED <<at, order, ckpt, series, lost, passVars, userVars, timeVars>>
  BY DEF Settle
<1>2. /\ Typed /\ InOrder /\ OneActive /\ JobsKnown /\ RefusedKnown /\ EndedClosed
      /\ PassKnown /\ BeginsFirst /\ JobsCleared /\ ClearedInOrder /\ WithinPlan
  BY DEF SeriesInv
<1>3. job' \in [Run -> [Provider -> JobStatus]]
      /\ \A s \in Run, q \in Provider :
           job'[s][q] = IF s = r /\ q = p THEN "settled" ELSE job[s][q]
  BY <1>1, <1>2, SetJobEffect DEF Typed, JobStatus, Active
<1>4. /\ at' = at /\ order' = order /\ series' = series /\ ckpt' = ckpt
      /\ starter' = starter /\ pass' = pass /\ refused' = refused /\ lost' = lost
      /\ retries' = retries /\ retry' = retry /\ retried' = retried
      /\ today' = today /\ quarter' = quarter
  BY <1>1 DEF passVars, userVars, timeVars
<1>5. SeriesOf(status', ckpt) \in SeriesRow
  BY SeriesOfType
<1>6. /\ seen' \in [Provider -> SeriesRow \cup {NoRow}]
      /\ \A q \in Provider : seen'[q] = IF q = p THEN SeriesOf(status', ckpt) ELSE seen[q]
      /\ verdict' \in [Provider -> {"none", "running"} \cup Terminal]
      /\ \A q \in Provider : q # p => verdict'[q] = verdict[q]
  BY <1>1, <1>2, <1>5 DEF Typed, JobsTyped
<1>7. /\ verdict[p] \in {"running"} \cup Terminal
      /\ verdict[p] # "running" /\ r \notin retried => ~IsOpen(r)
  <2>1. verdict[p] \in {"none", "running"} \cup Terminal
    BY <1>2 DEF Typed, JobsTyped
  <2> QED
    BY <1>1, <1>2, <2>1 DEF JobsKnown
<1>8. /\ status' \in [Run -> RunStatus]
      /\ \A s \in Run : status'[s] = IF s = r THEN verdict[p] ELSE status[s]
  BY <1>1, <1>2, <1>7 DEF Typed, RowsTyped, RunStatus
<1>9. Typed'
  BY <1>2, <1>3, <1>4, <1>6, <1>8 DEF Typed, RowsTyped, JobsTyped, PassTyped, RestTyped
<1>10. verdict[p] # "queued"
  BY <1>7 DEF Terminal
<1>11. r \notin Trouble => status[r] # "queued" \/ (r = 1 /\ starter # "over")
  BY <1>1, <1>2 DEF JobsCleared
<1>12. /\ Trouble' = Trouble
       /\ \A s \in Run : IsOpen(s)' <=> IsOpen(s)
       /\ \A s \in Run \ Trouble : Cleared(s)' <=> Cleared(s)
       /\ \A s, t \in Run : Before(s, t)' <=> Before(s, t)
  BY <1>4, <1>8, <1>10, <1>11 DEF Trouble, Cleared, Before, Precedes, IsOpen, Open
<1>13. FirstPass' => FirstPass
  <2>1. 1 \in Run
    BY RunsFinite
  <2>2. InPass(1)' <=> InPass(1)
    BY <1>4 DEF InPass
  <2>3. r = 1 /\ status[1] = "queued" /\ 1 \notin Trouble => starter # "over"
    BY <1>11
  <2>4. r # 1 => status'[1] = status[1]
    BY <1>8, <2>1
  <2> QED
    BY <1>4, <1>12, <2>2, <2>3, <2>4 DEF FirstPass
<1>14. FirstPass => r = 1
  BY <1>1, <1>2 DEF BeginsFirst
<1>15. InOrder' /\ RefusedKnown'
  BY <1>2, <1>4 DEF InOrder, Listed, InTime, RefusedKnown
<1>16. PassKnown'
  <2>1. \A i \in DOMAIN pass.due : pass.due[i] \in Run
    BY <1>2 DEF Typed, PassTyped, PassType
  <2>2. ASSUME NEW i \in DOMAIN pass.due
        PROVE  \/ pass.due[i] \in Trouble
               \/ status'[pass.due[i]] = "queued"
               \/ i = 1 /\ (pass.due[i] = 1 \/ pass.step \notin {"check", "act"})
    <3>1. CASE pass.due[i] # r
      BY <1>2, <1>8, <2>1, <3>1 DEF PassKnown
    <3>2. CASE pass.due[i] = r /\ r \notin Trouble /\ status[r] = "queued"
      <4>1. r = 1 /\ starter # "over"
        BY <1>11, <3>2
      <4>2. \A j \in DOMAIN pass.due : pass.due[j] = 1
        BY <1>2, <4>1 DEF BeginsFirst, FirstPass
      <4>3. 1 \in DOMAIN pass.due
        <5>1. pass.due \in Seq(Run)
          BY <1>2 DEF Typed, PassTyped, PassType
        <5> QED
          BY <5>1
      <4>4. i = 1
        BY <1>2, <4>2, <4>3 DEF PassKnown
      <4> QED
        BY <3>2, <4>1, <4>4
    <3>3. CASE pass.due[i] = r /\ status[r] # "queued"
      BY <1>2, <3>3 DEF PassKnown
    <3> QED
      BY <3>1, <3>2, <3>3
  <2>3. pass.step \in {"enqueue", "mark", "failed"} =>
          Head(pass.due) \in Trouble \/ status'[Head(pass.due)] # "queued"
    <3>1. pass.step \in {"enqueue", "mark", "failed"} => Head(pass.due) \in Run
      BY <1>2, PassFacts DEF Typed
    <3> QED
      BY <1>2, <1>8, <1>10, <3>1 DEF PassKnown
  <2> QED
    BY <1>2, <1>4, <1>12, <2>2, <2>3 DEF PassKnown
<1>17. OneActive'
  BY <1>1, <1>2, <1>3 DEF OneActive, Active
<1>18. JobsKnown'
  <2> SUFFICES ASSUME NEW s \in Run, NEW q \in Provider
               PROVE  /\ job'[s][q] = "active" => Open(s, q)'
                      /\ job'[s][q] = "tallied" =>
                           /\ verdict'[q] # "none"
                           /\ verdict'[q] # "running" /\ s \notin retried' => ~IsOpen(s)'
                      /\ job'[s][q] = "settled" => seen'[q] \in SeriesRow
    BY DEF JobsKnown
  <2>1. Open(s, q)' <=> Open(s, q)
    BY <1>4 DEF Open
  <2>2. CASE q # p
    BY <1>2, <1>3, <1>4, <1>6, <1>12, <2>1, <2>2 DEF JobsKnown
  <2>3. CASE q = p /\ s = r
    BY <1>3, <1>5, <1>6, <2>3
  <2>4. CASE q = p /\ s # r
    <3>1. job'[s][q] = job[s][q] /\ job[s][q] \notin Active
      BY <1>1, <1>2, <1>3, <2>4 DEF OneActive, Active
    <3> QED
      BY <3>1 DEF Active
  <2> QED
    BY <2>2, <2>3, <2>4
<1>19. EndedClosed'
  <2> SUFFICES ASSUME NEW s \in Run \ Trouble, status'[s] \in Terminal PROVE ~IsOpen(s)
    BY <1>12 DEF EndedClosed
  <2>1. CASE s = r
    BY <1>7, <1>8, <2>1 DEF Trouble, Terminal
  <2>2. CASE s # r
    BY <1>2, <1>8, <2>2 DEF EndedClosed
  <2> QED
    BY <2>1, <2>2
<1>20. BeginsFirst'
  <2> SUFFICES ASSUME FirstPass
               PROVE  /\ \A q \in Provider : today'[q] = 0
                      /\ \A s \in Run : ~Before(s, 1)'
                      /\ \A i \in DOMAIN pass'.due : pass'.due[i] = 1
                      /\ pass'.plan \in {"none", "claim"}
                      /\ retry'.step = "none" /\ retried' = {}
                      /\ \A s \in Run \ {1} :
                           /\ at'[s] > 0 /\ status'[s] = "queued"
                           /\ \A q \in Provider : job'[s][q] = "none" /\ ckpt'[s][q] = "queued"
    BY <1>13 DEF BeginsFirst
  <2>1. \A s \in Run \ {1} : status'[s] = status[s]
          /\ \A q \in Provider : job'[s][q] = job[s][q]
    BY <1>3, <1>8, <1>14
  <2>2. 1 \in Run
    BY RunsFinite
  <2> QED
    BY <1>2, <1>4, <1>12, <2>1, <2>2 DEF BeginsFirst
<1>21. JobsCleared'
  <2> SUFFICES ASSUME NEW s \in Run \ Trouble, NEW q \in Provider, job'[s][q] # "none"
               PROVE  status'[s] # "queued" \/ (s = 1 /\ starter # "over")
    BY <1>4, <1>12 DEF JobsCleared
  <2>1. CASE s = r
    BY <1>8, <1>10, <2>1
  <2>2. CASE s # r
    <3>1. job[s][q] # "none" /\ status'[s] = status[s]
      BY <1>3, <1>8, <2>2
    <3> QED
      BY <1>2, <3>1 DEF JobsCleared
  <2> QED
    BY <2>1, <2>2
<1>22. ClearedInOrder'
  BY <1>2, <1>4, <1>12 DEF ClearedInOrder
<1>23. WithinPlan'
  <2>1. \A q \in Provider : Owing(q)' \subseteq Owing(q)
    BY <1>4, <1>12 DEF Owing, Open
  <2>2. PassTyped /\ PassTyped' /\ RestTyped
    BY <1>2, <1>9 DEF Typed
  <2>3. UNCHANGED <<today, retries, refused>>
    BY <1>4
  <2> QED
    BY <1>2, <2>1, <2>2, <2>3, LimitKept
<1> QED
  BY <1>9, <1>15, <1>16, <1>17, <1>18, <1>19, <1>20, <1>21, <1>22, <1>23 DEF SeriesInv

-----------------------------------------------------------------------------
(* The request that starts the series, and the dispatcher.                 *)

\* Jobs that are inserted are in nobody's hand yet.
LEMMA WaitingJobs ==
  ASSUME OneActive, JobsKnown, UNCHANGED <<ckpt, verdict, seen, retried>>,
         \A s \in Run, q \in Provider : job'[s][q] = job[s][q] \/ job'[s][q] = "waiting"
  PROVE  OneActive' /\ JobsKnown'
<1>1. OneActive'
  BY DEF OneActive, Active
<1>2. JobsKnown'
  BY DEF JobsKnown, Open, IsOpen
<1> QED
  BY <1>1, <1>2

\* Jobs are inserted for one run; when all insertions fail it will be refused.
LEMMA EnqueueEffect ==
  ASSUME SeriesAssumption, JobsTyped, PassTyped, RestTyped, NEW r \in Run,
         NEW failing \in SUBSET Provider, Enqueue(r, failing)
  PROVE  /\ job' \in [Run -> [Provider -> JobStatus]]
         /\ \A s \in Run, q \in Provider :
              job'[s][q] = job[s][q] \/ (s = r /\ job'[s][q] = "waiting")
         /\ verdict' = verdict /\ seen' = seen
         /\ lost' \in Nat /\ lost' + retries <= MaxTrouble
         /\ refused' = (IF failing = Provider THEN refused \cup {r} ELSE refused)
         /\ refused' \subseteq Run
<1>1. /\ failing = {} \/ lost + retries < MaxTrouble
      /\ lost' = IF failing = {} THEN lost ELSE lost + 1
      /\ job' = [job EXCEPT ![r] = [p \in Provider |->
                   IF p \in failing THEN job[r][p] ELSE Waiting(r)[p]]]
      /\ refused' = (IF failing = Provider THEN refused \cup {r} ELSE refused)
      /\ verdict' = verdict /\ seen' = seen
  BY DEF Enqueue
<1> DEFINE row == [p \in Provider |-> IF p \in failing THEN job[r][p] ELSE Waiting(r)[p]]
<1>2. /\ row \in [Provider -> JobStatus]
      /\ \A q \in Provider : row[q] = job[r][q] \/ row[q] = "waiting"
  BY DEF Waiting, JobsTyped, JobStatus
<1>3. job' = [job EXCEPT ![r] = row] /\ job \in [Run -> [Provider -> JobStatus]]
  BY <1>1 DEF JobsTyped
<1> HIDE DEF row
<1>4. /\ job' \in [Run -> [Provider -> JobStatus]]
      /\ \A s \in Run, q \in Provider :
           job'[s][q] = job[s][q] \/ (s = r /\ job'[s][q] = "waiting")
  BY ONLY <1>2, <1>3
<1>5. lost \in Nat /\ retries \in Nat /\ MaxTrouble \in Nat /\ lost + retries <= MaxTrouble
  BY DEF RestTyped, SeriesAssumption
<1>6. lost' \in Nat /\ lost' + retries <= MaxTrouble
  BY <1>1, <1>5
<1>7. refused' \subseteq Run
  BY <1>1 DEF PassTyped
<1> QED
  BY <1>1, <1>4, <1>6, <1>7

\* The request inserts the jobs of the first batch.
LEMMA StartEnqueueKeeps ==
  ASSUME SeriesAssumption, SeriesInv, StartEnqueue
  PROVE  SeriesInv'
<1>1. PICK failing \in SUBSET Provider :
        /\ Enqueue(1, failing)
        /\ starter' = IF failing = Provider THEN "failed" ELSE "enqueued"
  BY DEF StartEnqueue
<1>2. starter = "created" /\ UNCHANGED <<rowVars, pass, userVars, timeVars>>
  BY DEF StartEnqueue
<1>3. /\ Typed /\ InOrder /\ OneActive /\ JobsKnown /\ RefusedKnown /\ EndedClosed
      /\ PassKnown /\ BeginsFirst /\ JobsCleared /\ ClearedInOrder /\ WithinPlan
  BY DEF SeriesInv
<1>4. 1 \in Run
  BY RunsFinite
<1>5. /\ job' \in [Run -> [Provider -> JobStatus]]
      /\ \A s \in Run, q \in Provider :
           job'[s][q] = job[s][q] \/ (s = 1 /\ job'[s][q] = "waiting")
      /\ verdict' = verdict /\ seen' = seen
      /\ lost' \in Nat /\ lost' + retries <= MaxTrouble
      /\ refused' = (IF failing = Provider THEN refused \cup {1} ELSE refused)
      /\ refused' \subseteq Run
  BY <1>1, <1>3, <1>4, EnqueueEffect DEF Typed
<1>6. /\ status' = status /\ at' = at /\ order' = order /\ series' = series /\ ckpt' = ckpt
      /\ pass' = pass /\ retries' = retries /\ retry' = retry /\ retried' = retried
      /\ today' = today /\ quarter' = quarter
  BY <1>2 DEF rowVars, userVars, timeVars
<1>7. starter # "over" /\ starter' # "over" /\ FirstPass /\ FirstPass'
  BY <1>1, <1>2 DEF FirstPass
<1>8. Typed'
  BY <1>1, <1>3, <1>5, <1>6 DEF Typed, RowsTyped, JobsTyped, PassTyped, RestTyped
<1>9. OneActive' /\ JobsKnown'
  BY <1>3, <1>5, <1>6, WaitingJobs
<1>10. RefusedKnown'
  BY <1>1, <1>3, <1>5, <1>6 DEF RefusedKnown
<1>11. /\ Trouble \subseteq Trouble' /\ Trouble' \subseteq Trouble \cup {1}
       /\ \A s \in Run : (IsOpen(s)' <=> IsOpen(s)) /\ (Cleared(s)' <=> Cleared(s))
       /\ \A s, t \in Run : Before(s, t)' <=> Before(s, t)
  BY <1>5, <1>6, <1>7 DEF Trouble, Cleared, Before, Precedes, IsOpen, Open
<1>12. InOrder'
  BY <1>3, <1>6 DEF InOrder, Listed, InTime
<1>13. PassKnown'
  BY <1>3, <1>6, <1>11 DEF PassKnown
<1>14. EndedClosed'
  BY <1>3, <1>6, <1>11 DEF EndedClosed
<1>15. BeginsFirst'
  BY <1>3, <1>4, <1>5, <1>6, <1>7, <1>11 DEF BeginsFirst
<1>16. JobsCleared'
  BY <1>3, <1>5, <1>6, <1>7, <1>11 DEF JobsCleared
<1>17. ClearedInOrder'
  BY <1>3, <1>6, <1>11, OrderKept DEF ClearedInOrder
<1>18. WithinPlan'
  <2>1. CASE refused' = refused
    <3>1. \A q \in Provider : Owing(q)' \subseteq Owing(q)
      BY <1>6, <1>11, <2>1 DEF Owing, Open, Trouble
    <3> QED
      BY <1>3, <1>6, <1>8, <2>1, <3>1, LimitKept DEF Typed
  <2>2. CASE refused' # refused
    <3>1. \A q \in Provider : Owing(q)' \subseteq Owing(q) \cup {1}
      BY <1>6, <1>11 DEF Owing, Open
    <3>2. retries' = retries /\ refused' = refused \cup {1} /\ 1 \notin refused
      BY <1>5, <1>6, <2>2
    <3> QED
      BY <1>3, <1>6, <1>8, <3>1, <3>2, LimitRaised DEF Typed
  <2> QED
    BY <2>1, <2>2
<1> QED
  BY <1>8, <1>9, <1>10, <1>12, <1>13, <1>14, <1>15, <1>16, <1>17, <1>18 DEF SeriesInv

\* The request writes the status of the first batch: it stays cleared.
LEMMA StartMarkKeeps ==
  ASSUME SeriesAssumption, SeriesInv, StartMark
  PROVE  SeriesInv'
<1>1. /\ starter \in {"enqueued", "failed"}
      /\ status' = [status EXCEPT ![1] = IF starter = "failed" THEN "failed" ELSE "running"]
      /\ series' = [series EXCEPT !.status = IF starter = "failed" THEN "scheduled"
                                             ELSE "running"]
      /\ starter' = "over"
      /\ UNCHANGED <<at, order, ckpt, jobVars, pass, refused, userVars, timeVars>>
  BY DEF StartMark
<1>2. /\ Typed /\ InOrder /\ OneActive /\ JobsKnown /\ RefusedKnown /\ EndedClosed
      /\ PassKnown /\ BeginsFirst /\ JobsCleared /\ ClearedInOrder /\ WithinPlan
  BY DEF SeriesInv
<1>3. 1 \in Run
  BY RunsFinite
<1>4. /\ at' = at /\ order' = order /\ ckpt' = ckpt /\ job' = job /\ verdict' = verdict
      /\ seen' = seen /\ lost' = lost /\ refused' = refused
      /\ pass' = pass /\ retries' = retries /\ retry' = retry /\ retried' = retried
      /\ today' = today /\ quarter' = quarter
  BY <1>1 DEF jobVars, userVars, timeVars
<1>5. series' \in SeriesRow
  BY <1>1, <1>2 DEF Typed, RowsTyped, SeriesRow, SeriesStatus
<1>6. /\ status' \in [Run -> RunStatus] /\ status'[1] \in {"failed", "running"}
      /\ status'[1] = "failed" => starter = "failed"
      /\ \A s \in Run : s # 1 => status'[s] = status[s]
  BY <1>1, <1>2, <1>3 DEF Typed, RowsTyped, RunStatus, Terminal
<1>7. starter # "over" /\ starter' = "over" /\ FirstPass
  BY <1>1 DEF FirstPass
<1>8. Typed'
  BY <1>2, <1>4, <1>5, <1>6, <1>7 DEF Typed, RowsTyped, JobsTyped, PassTyped, RestTyped
<1>9. OneActive' /\ JobsKnown'
  BY <1>2, <1>4 DEF OneActive, JobsKnown, Open, IsOpen
<1>10. RefusedKnown'
  BY <1>2, <1>4, <1>7 DEF RefusedKnown
<1>11. /\ Trouble' = Trouble
       /\ \A s \in Run : (IsOpen(s)' <=> IsOpen(s)) /\ (Cleared(s)' => Cleared(s))
       /\ \A s, t \in Run : Before(s, t)' <=> Before(s, t)
  BY <1>4, <1>6, <1>7 DEF Trouble, Cleared, Before, Precedes, IsOpen, Open
<1>12. InOrder'
  BY <1>2, <1>4 DEF InOrder, Listed, InTime
<1>13. PassKnown'
  <2>1. /\ \A i \in DOMAIN pass.due : pass.due[i] = 1
        /\ \A i, j \in DOMAIN pass.due : pass.due[i] = pass.due[j] => i = j
    BY <1>2, <1>7 DEF BeginsFirst, PassKnown
  <2>2. \A i \in DOMAIN pass.due : 1 \in DOMAIN pass.due
    <3>1. pass.due \in Seq(Run)
      BY <1>2 DEF Typed, PassTyped, PassType
    <3> QED
      BY <3>1
  <2>3. \A i \in DOMAIN pass.due : i = 1 /\ pass.due[i] = 1
    BY <2>1, <2>2
  <2>4. pass.step \in {"enqueue", "mark", "failed"} => Head(pass.due) = 1
    BY <1>2, <2>1, PassFacts DEF Typed
  <2> QED
    BY <1>2, <1>4, <1>6, <1>11, <2>3, <2>4 DEF PassKnown
<1>14. EndedClosed'
  BY <1>2, <1>4, <1>6, <1>11 DEF EndedClosed, RefusedKnown, Terminal, Trouble
<1>15. BeginsFirst'
  BY <1>2, <1>3, <1>4, <1>6, <1>7, <1>11 DEF BeginsFirst
<1>16. JobsCleared'
  BY <1>2, <1>4, <1>6, <1>11 DEF JobsCleared
<1>17. ClearedInOrder'
  BY <1>2, <1>4, <1>11 DEF ClearedInOrder
<1>18. WithinPlan'
  <2>1. \A q \in Provider : Owing(q)' \subseteq Owing(q)
    BY <1>4, <1>11 DEF Owing, Open
  <2> QED
    BY <1>2, <1>4, <1>8, <2>1, LimitKept DEF Typed
<1> QED
  BY <1>8, <1>9, <1>10, <1>12, <1>13, <1>14, <1>15, <1>16, <1>17, <1>18 DEF SeriesInv

\* The pass reads the due runs, all of which are queued, once each.
LEMMA PassReadKeeps ==
  ASSUME SeriesAssumption, SeriesInv, PassRead
  PROVE  SeriesInv'
<1>1. /\ pass.step = "idle" /\ Due # {}
      /\ UNCHANGED <<rowVars, starter, refused, jobVars, userVars, timeVars>>
  BY DEF PassRead
<1>2. PICK list \in DueInOrder : pass' = [due |-> list, step |-> "check", plan |-> "none"]
  BY DEF PassRead
<1>3. /\ Typed /\ InOrder /\ OneActive /\ JobsKnown /\ RefusedKnown /\ EndedClosed
      /\ PassKnown /\ BeginsFirst /\ JobsCleared /\ ClearedInOrder /\ WithinPlan
  BY DEF SeriesInv
<1>4. /\ status' = status /\ at' = at /\ order' = order /\ ckpt' = ckpt /\ series' = series
      /\ job' = job /\ verdict' = verdict /\ starter' = starter
      /\ seen' = seen /\ lost' = lost /\ refused' = refused
      /\ retries' = retries /\ retry' = retry /\ retried' = retried
      /\ today' = today /\ quarter' = quarter
  BY <1>1 DEF rowVars, jobVars, userVars, timeVars
<1> DEFINE n == Min({10, Cardinality(Due)})
<1>5. list \in [1 .. n -> Due] /\ \A i, j \in 1 .. n : i < j => Rank(list[i]) < Rank(list[j])
  BY DEF DueInOrder
<1>6. n \in Nat /\ n >= 1
  <2>1. Due \subseteq Run
    BY DEF Due
  <2>2. IsFiniteSet(Due) /\ Cardinality(Due) \in Nat
    BY <2>1, RunsFinite
  <2>3. Cardinality(Due) # 0
    BY <1>1, <2>2, FS_EmptySet
  <2> DEFINE c == Cardinality(Due)
             least == IF c < 10 THEN c ELSE 10
  <2>4. c \in Nat /\ c >= 1
    BY <2>2, <2>3
  <2> HIDE DEF c
  <2>5. least \in {10, c} /\ \A x \in {10, c} : least <= x
    BY <2>4
  <2>6. Min({10, c}) \in {10, c}
    BY <2>5 DEF Min
  <2> QED
    BY <2>4, <2>6 DEF c
<1> HIDE DEF n
<1>7. list \in Seq(Run) /\ list # <<>> /\ DOMAIN list = 1 .. n /\ \A i \in 1 .. n : list[i] \in Due
  <2>1. list \in [1 .. n -> Run]
    BY <1>5 DEF Due
  <2>2. list \in Seq(Run) /\ Len(list) = n
    BY ONLY <1>6, <2>1
  <2>3. Len(<<>>) = 0
    OBVIOUS
  <2> QED
    BY <1>5, <1>6, <2>2, <2>3
<1>8. \A i, j \in 1 .. n : list[i] = list[j] => i = j
  <2>1. \A r \in Due : Rank(r) \in Int
    BY <1>3, RankIsPlace DEF Due, InOrder, Run
  <2> SUFFICES ASSUME NEW i \in 1 .. n, NEW j \in 1 .. n, list[i] = list[j], i # j
               PROVE  FALSE
    OBVIOUS
  <2>2. i < j \/ j < i
    OBVIOUS
  <2>3. Rank(list[i]) < Rank(list[j]) \/ Rank(list[j]) < Rank(list[i])
    BY <1>5, <2>2
  <2>4. Rank(list[i]) = Rank(list[j]) /\ Rank(list[i]) \in Int
    BY <1>7, <2>1
  <2> QED
    BY <2>3, <2>4
<1>9. pass'.due = list /\ pass'.step = "check" /\ pass'.plan = "none" /\ pass' \in PassType
  BY <1>2, <1>7 DEF PassType
<1>10. pass.due = <<>> /\ pass.plan = "none"
  BY <1>1, <1>3 DEF Typed, PassTyped, PassKnown
<1>11. Typed'
  BY <1>3, <1>4, <1>7, <1>9 DEF Typed, RowsTyped, JobsTyped, PassTyped, RestTyped
<1>12. /\ Trouble' = Trouble
       /\ \A s \in Run : (IsOpen(s)' <=> IsOpen(s)) /\ (Cleared(s)' <=> Cleared(s))
       /\ \A s, t \in Run : Before(s, t)' <=> Before(s, t)
  BY <1>4, <1>9, <1>10 DEF Trouble, Cleared, Before, Precedes, IsOpen, Open
<1>13. InOrder' /\ OneActive' /\ JobsKnown' /\ EndedClosed' /\ JobsCleared' /\ RefusedKnown'
  BY <1>3, <1>4, <1>9, <1>12
     DEF InOrder, Listed, InTime, OneActive, JobsKnown, Open, IsOpen, EndedClosed, JobsCleared,
         RefusedKnown
<1>14. PassKnown'
  <2>1. \A i \in 1 .. n : at[list[i]] <= 0 /\ status[list[i]] = "queued"
    BY <1>7 DEF Due
  <2> QED
    BY <1>4, <1>7, <1>8, <1>9, <2>1 DEF PassKnown
<1>15. FirstPass' => FirstPass /\ starter # "over"
  <2>1. \A i \in 1 .. n : status[list[i]] = "queued"
    BY <1>7 DEF Due
  <2> QED
    BY <1>4, <1>7, <1>9, <2>1 DEF FirstPass, InPass
<1>16. BeginsFirst'
  <2> SUFFICES ASSUME FirstPass
               PROVE  /\ \A q \in Provider : today'[q] = 0
                      /\ \A s \in Run : ~Before(s, 1)'
                      /\ \A i \in DOMAIN pass'.due : pass'.due[i] = 1
                      /\ pass'.plan \in {"none", "claim"}
                      /\ retry'.step = "none" /\ retried' = {}
                      /\ \A s \in Run \ {1} :
                           /\ at'[s] > 0 /\ status'[s] = "queued"
                           /\ \A q \in Provider : job'[s][q] = "none" /\ ckpt'[s][q] = "queued"
    BY <1>15 DEF BeginsFirst
  <2>1. \A s \in Run \ {1} : s \notin Due
    <3>1. at \in [Run -> Int]
      BY <1>3 DEF Typed, RowsTyped
    <3> QED
      BY <1>3, <3>1 DEF BeginsFirst, Due
  <2>2. Due \subseteq Run /\ 1 \in Run
    BY RunsFinite DEF Due
  <2>3. \A i \in 1 .. n : list[i] = 1
    BY <1>7, <2>1, <2>2
  <2> QED
    BY <1>3, <1>4, <1>7, <1>9, <1>12, <2>2, <2>3 DEF BeginsFirst
<1>17. ClearedInOrder'
  BY <1>3, <1>4, <1>12 DEF ClearedInOrder
<1>18. WithinPlan'
  <2>1. \A q \in Provider : Owing(q)' \subseteq Owing(q)
    BY <1>4, <1>12 DEF Owing, Open
  <2> QED
    BY <1>3, <1>4, <1>11, <2>1, LimitKept DEF Typed
<1> QED
  BY <1>11, <1>13, <1>14, <1>16, <1>17, <1>18 DEF SeriesInv

\* Besides the runs of the user and those that were refused, one run at most
\* is owed: of two that are cleared the earlier has no open samples.
LEMMA OwedBound ==
  ASSUME SeriesAssumption, PassTyped', RestTyped', ClearedInOrder', InOrder', NEW p \in Provider
  PROVE  /\ Cardinality(Owing(p)') \in Nat /\ Cardinality(refused') \in Nat
         /\ Cardinality(Owing(p)') <= retries' + Cardinality(refused') + 1
<1>1. \A s, t \in Run : s # t => Before(s, t)' \/ Before(t, s)'
  <2> SUFFICES ASSUME NEW s \in Run, NEW t \in Run, s # t PROVE Before(s, t)' \/ Before(t, s)'
    OBVIOUS
  <2>1. PICK i \in Run, j \in Run : order'[i] = s /\ order'[j] = t
    BY DEF InOrder, Listed
  <2>2. i # j /\ i \in Int /\ j \in Int
    BY <2>1 DEF Run
  <2>3. i < j \/ j < i
    BY <2>2
  <2> QED
    BY <2>1, <2>3 DEF Before, Precedes
<1>2. \A s, t \in Owing(p)' \ Trouble' : s = t
  <2> SUFFICES ASSUME NEW s \in Owing(p)' \ Trouble', NEW t \in Owing(p)' \ Trouble', s # t
               PROVE  FALSE
    OBVIOUS
  <2>1. /\ s \in Run \ Trouble' /\ t \in Run \ Trouble' /\ Cleared(s)' /\ Cleared(t)'
        /\ IsOpen(s)' /\ IsOpen(t)'
    BY DEF Owing, IsOpen
  <2>2. ~Before(s, t)' /\ ~Before(t, s)'
    BY <2>1 DEF ClearedInOrder
  <2> QED
    BY <1>1, <2>1, <2>2
<1>3. \E x : Owing(p)' \subseteq Trouble' \cup {x}
  <2>1. CASE Owing(p)' \subseteq Trouble'
    BY <2>1
  <2>2. CASE ~(Owing(p)' \subseteq Trouble')
    <3>1. PICK x : x \in Owing(p)' \ Trouble'
      BY <2>2
    <3> QED
      BY <1>2, <3>1
  <2> QED
    BY <2>1, <2>2
<1>4. PICK x : Owing(p)' \subseteq Trouble' \cup {x}
  BY <1>3
<1>5. /\ retried' \subseteq Run /\ refused' \subseteq Run /\ Owing(p)' \subseteq Run
      /\ Cardinality(retried') <= retries' /\ retries' \in Nat
  BY DEF PassTyped, RestTyped, Owing
<1>6. /\ IsFiniteSet(retried') /\ IsFiniteSet(refused') /\ IsFiniteSet(Owing(p)')
      /\ Cardinality(retried') \in Nat /\ Cardinality(refused') \in Nat
      /\ Cardinality(Owing(p)') \in Nat
  BY <1>5, RunsFinite
<1> DEFINE a == retried'
           b == refused'
           both == a \cup b
<1>7. IsFiniteSet(a) /\ IsFiniteSet(b) /\ Cardinality(a) \in Nat /\ Cardinality(b) \in Nat
      /\ Cardinality(a) <= retries' /\ Owing(p)' \subseteq both \cup {x}
  BY <1>4, <1>5, <1>6 DEF Trouble
<1> HIDE DEF a, b
<1>8. IsFiniteSet(both) /\ Cardinality(both) = Cardinality(a) + Cardinality(b) - Cardinality(a \cap b)
  BY <1>7, FS_Union
<1>9. IsFiniteSet(a \cap b)
  BY <1>7, FS_Intersection
<1>10. Cardinality(a \cap b) \in Nat /\ Cardinality(both) \in Nat
  BY <1>8, <1>9, FS_CardinalityType
<1> HIDE DEF both
<1>11. IsFiniteSet(both \cup {x}) /\ Cardinality(both \cup {x}) <= Cardinality(both) + 1
  <2>1. IsFiniteSet(both \cup {x})
        /\ Cardinality(both \cup {x}) = IF x \in both THEN Cardinality(both) ELSE Cardinality(both) + 1
    BY <1>8, FS_AddElement
  <2> QED
    BY <1>10, <2>1
<1>12. Cardinality(Owing(p)') <= Cardinality(both \cup {x})
  BY <1>7, <1>11, FS_Subset
<1>13. Cardinality(both \cup {x}) \in Nat
  BY <1>11, FS_CardinalityType
<1>14. Cardinality(Owing(p)') <= retries' + Cardinality(b) + 1
  BY <1>5, <1>6, <1>7, <1>8, <1>10, <1>11, <1>12, <1>13
<1> QED
  BY <1>6, <1>14 DEF b

\* The pass decides: a run is cleared when those before it have ended and
\* the limit has room for it.
LEMMA PassCheckKeeps ==
  ASSUME SeriesAssumption, SeriesInv, PassCheck
  PROVE  SeriesInv'
<1> DEFINE h == Head(pass.due)
           plan == IF Blocked(h) THEN "later" ELSE IF LimitReached THEN "tomorrow" ELSE "claim"
<1>1. /\ pass.step = "check"
      /\ pass' = [pass EXCEPT !.step = "act", !.plan = plan]
      /\ UNCHANGED <<rowVars, starter, refused, jobVars, userVars, timeVars>>
  BY DEF PassCheck
<1>2. /\ Typed /\ InOrder /\ OneActive /\ JobsKnown /\ RefusedKnown /\ EndedClosed
      /\ PassKnown /\ BeginsFirst /\ JobsCleared /\ ClearedInOrder /\ WithinPlan
  BY DEF SeriesInv
<1>3. /\ status' = status /\ at' = at /\ order' = order /\ ckpt' = ckpt /\ series' = series
      /\ job' = job /\ verdict' = verdict /\ starter' = starter
      /\ seen' = seen /\ lost' = lost /\ refused' = refused
      /\ retries' = retries /\ retry' = retry /\ retried' = retried
      /\ today' = today /\ quarter' = quarter
  BY <1>1 DEF rowVars, jobVars, userVars, timeVars
<1>4. /\ pass.due # <<>> /\ DOMAIN pass.due = 1 .. Len(pass.due)
      /\ 1 \in DOMAIN pass.due /\ h = pass.due[1] /\ h \in Run
  BY <1>1, <1>2, PassFacts DEF Typed
<1>5. pass' \in PassType /\ pass'.due = pass.due /\ pass'.step = "act" /\ pass'.plan = plan
      /\ plan \in {"later", "tomorrow", "claim"}
  <2>1. pass \in PassType
    BY <1>2 DEF Typed, PassTyped
  <2>2. plan \in {"later", "tomorrow", "claim"}
    OBVIOUS
  <2> HIDE DEF plan
  <2>3. pass' \in PassType /\ pass'.due = pass.due /\ pass'.step = "act" /\ pass'.plan = plan
    BY ONLY <1>1, <2>1, <2>2 DEF PassType
  <2> QED
    BY <2>2, <2>3
<1>6. pass.plan = "none"
  BY <1>1, <1>2 DEF PassKnown
<1>7. Typed'
  BY <1>1, <1>2, <1>3, <1>4, <1>5 DEF Typed, RowsTyped, JobsTyped, PassTyped, RestTyped
<1>8. plan = "claim" =>
        /\ \A r \in Run : Before(r, h) => status[r] \in Terminal
        /\ \A p \in Provider : today[p] + 1 <= DailyLimit
  <2> SUFFICES ASSUME plan = "claim"
               PROVE  /\ \A r \in Run : Before(r, h) => status[r] \in Terminal
                      /\ \A p \in Provider : today[p] + 1 <= DailyLimit
    OBVIOUS
  <2>1. ~Blocked(h) /\ ~LimitReached
    OBVIOUS
  <2>2. ASSUME NEW r \in Run, Before(r, h) PROVE status[r] \in Terminal
    <3>1. r # h /\ Rank(r) < Rank(h)
      BY <1>2, <1>4, <2>2, BeforeOnce, RankOrders DEF InOrder
    <3> QED
      BY <2>1, <3>1 DEF Blocked
  <2>3. \A p \in Provider : today[p] + 1 <= DailyLimit
    BY <1>2, <2>1 DEF LimitReached, Typed, RestTyped, SeriesAssumption
  <2> QED
    BY <2>2, <2>3
<1>9. FirstPass => plan = "claim"
  <2> SUFFICES ASSUME FirstPass PROVE plan = "claim"
    OBVIOUS
  <2>1. h = 1 /\ \A r \in Run : ~Before(r, h)
    BY <1>2, <1>4 DEF BeginsFirst
  <2>2. ~Blocked(h)
    BY <1>2, <1>4, <2>1, RankOrders DEF Blocked, InOrder
  <2>3. ~LimitReached
    <3>1. \A p \in Provider : today[p] = 0
      BY <1>2 DEF BeginsFirst
    <3> QED
      BY <3>1 DEF LimitReached, SeriesAssumption
  <2> QED
    BY <2>2, <2>3
<1> HIDE DEF plan, h
<1>10. /\ Trouble' = Trouble
       /\ \A s \in Run : IsOpen(s)' <=> IsOpen(s)
       /\ \A s \in Run : Cleared(s)' => Cleared(s) \/ (s = h /\ plan = "claim")
       /\ \A s, t \in Run : Before(s, t)' <=> Before(s, t)
       /\ FirstPass' => FirstPass
  BY <1>1, <1>3, <1>5
     DEF Trouble, Cleared, Before, Precedes, IsOpen, Open, FirstPass, InPass, h
<1>11. InOrder' /\ OneActive' /\ JobsKnown' /\ EndedClosed' /\ JobsCleared' /\ RefusedKnown'
  BY <1>2, <1>3, <1>5, <1>10
     DEF InOrder, Listed, InTime, OneActive, JobsKnown, Open, IsOpen, EndedClosed, JobsCleared,
         RefusedKnown
<1>12. PassKnown'
  <2>1. \A i \in DOMAIN pass.due :
          /\ at[pass.due[i]] <= 0
          /\ \/ pass.due[i] \in Trouble
             \/ status[pass.due[i]] = "queued"
             \/ i = 1 /\ pass.due[i] = 1
    BY <1>1, <1>2 DEF PassKnown
  <2>2. \A i, j \in DOMAIN pass.due : pass.due[i] = pass.due[j] => i = j
    BY <1>2 DEF PassKnown
  <2> QED
    BY <1>3, <1>5, <1>10, <2>1, <2>2 DEF PassKnown
<1>13. BeginsFirst'
  BY <1>2, <1>3, <1>5, <1>9, <1>10, RunsFinite DEF BeginsFirst
<1>14. ClearedInOrder'
  <2> SUFFICES ASSUME NEW s \in Run \ Trouble, Cleared(s)'
               PROVE  at[s] <= 0 /\ \A r \in Run \ Trouble : Before(r, s) => ~IsOpen(r)
    BY <1>3, <1>10 DEF ClearedInOrder
  <2>1. CASE Cleared(s)
    BY <1>2, <2>1 DEF ClearedInOrder
  <2>2. CASE s = h /\ plan = "claim"
    <3>1. at[h] <= 0
      BY <1>2, <1>4 DEF PassKnown
    <3> QED
      BY <1>2, <1>8, <2>2, <3>1 DEF EndedClosed
  <2> QED
    BY <1>10, <2>1, <2>2
<1>15. WithinPlan'
  <2>1. CASE plan # "claim"
    <3>1. \A q \in Provider : Owing(q)' \subseteq Owing(q)
      BY <1>3, <1>10, <2>1 DEF Owing, Open
    <3> QED
      BY <1>2, <1>3, <1>7, <3>1, LimitKept DEF Typed
  <2>2. CASE plan = "claim"
    <3> SUFFICES ASSUME NEW q \in Provider
                 PROVE  today'[q] + Cardinality(Owing(q)')
                          <= DailyLimit + retries' + Cardinality(refused')
      BY DEF WithinPlan
    <3>1. /\ Cardinality(Owing(q)') \in Nat /\ Cardinality(refused') \in Nat
          /\ Cardinality(Owing(q)') <= retries' + Cardinality(refused') + 1
      BY <1>7, <1>11, <1>14, OwedBound DEF Typed
    <3>2. today'[q] + 1 <= DailyLimit /\ today'[q] \in Nat /\ retries' \in Nat /\ DailyLimit \in Nat
      BY <1>3, <1>7, <1>8, <2>2 DEF Typed, RestTyped, SeriesAssumption
    <3> QED
      BY <3>1, <3>2
  <2> QED
    BY <2>1, <2>2
<1> QED
  BY <1>7, <1>11, <1>12, <1>13, <1>14, <1>15 DEF SeriesInv

\* When the dispatcher goes on, what is left are runs it has not looked at.
LEMMA NextDueKnown ==
  ASSUME SeriesAssumption, Typed, PassKnown, pass.step # "idle", pass' = NextDue
  PROVE  /\ pass' \in PassType /\ (pass'.step = "idle" <=> pass'.due = <<>>)
         /\ pass'.plan = "none" /\ pass'.step \in {"idle", "check"}
         /\ Head(pass.due) = pass.due[1] /\ Head(pass.due) \in Run /\ 1 \in DOMAIN pass.due
         /\ \A i, j \in DOMAIN pass'.due : pass'.due[i] = pass'.due[j] => i = j
         /\ \A i \in DOMAIN pass'.due :
              /\ pass'.due[i] \in Run /\ pass'.due[i] # Head(pass.due)
              /\ at[pass'.due[i]] <= 0
              /\ pass'.due[i] \in Trouble \/ status[pass'.due[i]] = "queued"
              /\ \E j \in DOMAIN pass.due : pass'.due[i] = pass.due[j]
         /\ FirstPass /\ BeginsFirst => \A i \in DOMAIN pass'.due : FALSE
<1>1. /\ pass' \in PassType /\ pass'.plan = "none" /\ pass'.step \in {"idle", "check"}
      /\ pass'.step = "idle" <=> pass'.due = <<>>
      /\ \A i \in DOMAIN pass'.due :
           i + 1 \in DOMAIN pass.due /\ i + 1 # 1 /\ pass'.due[i] = pass.due[i + 1]
  BY NextDueFacts DEF Typed
<1>2. /\ DOMAIN pass.due = 1 .. Len(pass.due) /\ Len(pass.due) \in Nat
      /\ 1 \in DOMAIN pass.due /\ Head(pass.due) = pass.due[1] /\ Head(pass.due) \in Run
      /\ pass.due \in Seq(Run)
  BY PassFacts DEF Typed
<1>3. /\ \A i, j \in DOMAIN pass.due : pass.due[i] = pass.due[j] => i = j
      /\ \A i \in DOMAIN pass.due :
           /\ at[pass.due[i]] <= 0
           /\ pass.due[i] \in Trouble \/ status[pass.due[i]] = "queued" \/ i = 1
  BY DEF PassKnown
<1>4. \A i \in DOMAIN pass'.due : i \in Int
  <2>1. pass'.due \in Seq(Run)
    BY <1>1 DEF PassType
  <2> QED
    BY <2>1
<1>5. \A i, j \in DOMAIN pass'.due : pass'.due[i] = pass'.due[j] => i = j
  <2> SUFFICES ASSUME NEW i \in DOMAIN pass'.due, NEW j \in DOMAIN pass'.due,
                      pass'.due[i] = pass'.due[j]
               PROVE  i = j
    OBVIOUS
  <2>1. i + 1 = j + 1
    BY <1>1, <1>3
  <2> QED
    BY <1>4, <2>1
<1>6. ASSUME NEW i \in DOMAIN pass'.due
      PROVE  /\ pass'.due[i] \in Run /\ pass'.due[i] # Head(pass.due)
             /\ at[pass'.due[i]] <= 0
             /\ pass'.due[i] \in Trouble \/ status[pass'.due[i]] = "queued"
             /\ \E j \in DOMAIN pass.due : pass'.due[i] = pass.due[j]
  <2>1. i + 1 \in DOMAIN pass.due /\ i + 1 # 1 /\ pass'.due[i] = pass.due[i + 1]
    BY <1>1
  <2>2. pass.due[i + 1] \in Run
    BY <1>2, <2>1
  <2> QED
    BY <1>2, <1>3, <2>1, <2>2
<1>7. ASSUME FirstPass, BeginsFirst, NEW i \in DOMAIN pass'.due PROVE FALSE
  <2>1. pass'.due[i] = 1 /\ Head(pass.due) = 1
    BY <1>2, <1>6, <1>7 DEF BeginsFirst
  <2> QED
    BY <1>6, <2>1
<1> QED
  BY <1>1, <1>2, <1>5, <1>6, <1>7

\* A run that the dispatcher postpones is not being collected.
LEMMA PostponedIsQueued ==
  ASSUME SeriesAssumption, SeriesInv, pass.step = "act", pass.plan \in {"later", "tomorrow"}
  PROVE  /\ ~FirstPass /\ Head(pass.due) \in Run
         /\ Head(pass.due) \in Trouble \/ ~Cleared(Head(pass.due))
<1>1. ~FirstPass
  BY DEF SeriesInv, BeginsFirst
<1>2. 1 \in DOMAIN pass.due /\ Head(pass.due) = pass.due[1] /\ Head(pass.due) \in Run
  BY PassFacts DEF SeriesInv, Typed
<1>3. starter = "over"
  BY <1>1 DEF FirstPass
<1>4. ASSUME pass.due[1] \notin Trouble PROVE status[pass.due[1]] = "queued"
  <2>1. status[pass.due[1]] = "queued" \/ pass.due[1] = 1
    BY <1>2, <1>4 DEF SeriesInv, PassKnown
  <2>2. pass.due[1] = 1 => status[1] = "queued"
    BY <1>1, <1>2, <1>4 DEF FirstPass, InPass
  <2> QED
    BY <2>1, <2>2
<1> QED
  BY <1>1, <1>2, <1>3, <1>4 DEF Cleared

\* The pass postpones a run: it moves behind others, uncleared.
LEMMA PostponeKeeps ==
  ASSUME SeriesAssumption, SeriesInv, Postpone
  PROVE  SeriesInv'
<1> DEFINE h == Head(pass.due)
           t == IF pass.plan = "later" THEN 1 ELSE Day
<1>1. /\ pass.step = "act" /\ pass.plan \in {"later", "tomorrow"}
      /\ Reschedule(h, t) /\ pass' = NextDue
      /\ UNCHANGED <<status, ckpt, series, starter, refused, jobVars, userVars, timeVars>>
  BY DEF Postpone
<1>2. /\ Typed /\ InOrder /\ OneActive /\ JobsKnown /\ RefusedKnown /\ EndedClosed
      /\ PassKnown /\ BeginsFirst /\ JobsCleared /\ ClearedInOrder /\ WithinPlan
  BY DEF SeriesInv
<1>3. /\ status' = status /\ ckpt' = ckpt /\ series' = series
      /\ job' = job /\ verdict' = verdict /\ starter' = starter
      /\ seen' = seen /\ lost' = lost /\ refused' = refused
      /\ retries' = retries /\ retry' = retry /\ retried' = retried
      /\ today' = today /\ quarter' = quarter
  BY <1>1 DEF jobVars, userVars, timeVars
<1>4. ~FirstPass /\ h \in Run /\ (h \in Trouble \/ ~Cleared(h))
  BY <1>1, PostponedIsQueued
<1>5. /\ pass' \in PassType /\ (pass'.step = "idle" <=> pass'.due = <<>>)
      /\ pass'.plan = "none" /\ pass'.step \in {"idle", "check"}
      /\ \A i, j \in DOMAIN pass'.due : pass'.due[i] = pass'.due[j] => i = j
      /\ \A i \in DOMAIN pass'.due :
           /\ pass'.due[i] \in Run /\ pass'.due[i] # h
           /\ at[pass'.due[i]] <= 0
           /\ pass'.due[i] \in Trouble \/ status[pass'.due[i]] = "queued"
           /\ \E j \in DOMAIN pass.due : pass'.due[i] = pass.due[j]
  BY <1>1, <1>2, NextDueKnown
<1>6. at \in [Run -> Int] /\ Listed(order) /\ t \in Nat
  BY <1>2 DEF Typed, RowsTyped, InOrder, Day
<1> HIDE DEF h, t
<1>7. /\ at' \in [Run -> Int] /\ \A x \in Run : x # h => at'[x] = at[x]
      /\ Listed(order') /\ InTime(order', at')
      /\ \A x, y \in Run : x # h /\ y # h /\ Precedes(order', x, y) => Before(x, y)
      /\ \A y \in Run : y # h /\ at[y] <= 0 => ~Precedes(order', h, y)
  BY <1>1, <1>4, <1>6, RescheduleEffect
<1>8. Typed' /\ InOrder'
  BY <1>2, <1>3, <1>5, <1>7 DEF Typed, RowsTyped, JobsTyped, PassTyped, RestTyped, InOrder
<1>9. /\ Trouble' = Trouble
      /\ \A s \in Run : (IsOpen(s)' <=> IsOpen(s)) /\ (Cleared(s)' => Cleared(s))
      /\ ~FirstPass'
  <2>1. /\ Trouble' = Trouble
        /\ \A s \in Run : (IsOpen(s)' <=> IsOpen(s)) /\ (Cleared(s)' => Cleared(s))
    BY <1>3, <1>5 DEF Trouble, Cleared, IsOpen, Open
  <2>2. InPass(1)' => InPass(1)
    BY <1>5 DEF InPass
  <2>3. ~FirstPass'
    BY <1>1, <1>3, <1>4, <2>1, <2>2 DEF FirstPass
  <2> QED
    BY <2>1, <2>3
<1>10. OneActive' /\ JobsKnown' /\ EndedClosed' /\ JobsCleared' /\ RefusedKnown'
  BY <1>2, <1>3, <1>5, <1>9
     DEF OneActive, JobsKnown, Open, IsOpen, EndedClosed, JobsCleared, RefusedKnown
<1>11. PassKnown'
  BY <1>3, <1>5, <1>7, <1>9 DEF PassKnown
<1>12. BeginsFirst'
  BY <1>9 DEF BeginsFirst
<1>13. ClearedInOrder'
  <2> SUFFICES ASSUME NEW s \in Run \ Trouble, Cleared(s)
               PROVE  at'[s] <= 0 /\ \A r \in Run \ Trouble : Before(r, s)' => ~IsOpen(r)
    BY <1>9 DEF ClearedInOrder
  <2>1. s # h /\ at[s] <= 0 /\ \A r \in Run \ Trouble : Before(r, s) => ~IsOpen(r)
    BY <1>2, <1>4 DEF ClearedInOrder
  <2>2. ASSUME NEW r \in Run \ Trouble, Before(r, s)' PROVE ~IsOpen(r)
    <3>1. r # h
      BY <1>7, <2>1, <2>2 DEF Before
    <3> QED
      BY <1>7, <2>1, <2>2, <3>1 DEF Before
  <2> QED
    BY <1>7, <2>1, <2>2
<1>14. WithinPlan'
  <2>1. \A q \in Provider : Owing(q)' \subseteq Owing(q)
    BY <1>3, <1>9 DEF Owing, Open
  <2> QED
    BY <1>2, <1>3, <1>8, <2>1, LimitKept DEF Typed
<1> QED
  BY <1>8, <1>10, <1>11, <1>12, <1>13, <1>14 DEF SeriesInv

\* The pass claims a run, or lets one go that was started meanwhile.
LEMMA ClaimKeeps ==
  ASSUME SeriesAssumption, SeriesInv, Claim
  PROVE  SeriesInv'
<1> DEFINE h == Head(pass.due)
<1>1. /\ pass.step = "act" /\ pass.plan = "claim"
      /\ UNCHANGED <<at, order, ckpt, series, starter, refused, jobVars, userVars, timeVars>>
      /\ \/ /\ status[h] = "queued"
            /\ status' = [status EXCEPT ![h] = "waiting_runner"]
            /\ pass' = [pass EXCEPT !.step = "enqueue"]
         \/ status[h] # "queued" /\ status' = status /\ pass' = NextDue
  BY DEF Claim
<1>2. /\ Typed /\ InOrder /\ OneActive /\ JobsKnown /\ RefusedKnown /\ EndedClosed
      /\ PassKnown /\ BeginsFirst /\ JobsCleared /\ ClearedInOrder /\ WithinPlan
  BY DEF SeriesInv
<1>3. /\ at' = at /\ order' = order /\ ckpt' = ckpt /\ series' = series
      /\ job' = job /\ verdict' = verdict /\ starter' = starter
      /\ seen' = seen /\ lost' = lost /\ refused' = refused
      /\ retries' = retries /\ retry' = retry /\ retried' = retried
      /\ today' = today /\ quarter' = quarter
  BY <1>1 DEF jobVars, userVars, timeVars
<1>4. /\ h = pass.due[1] /\ h \in Run /\ 1 \in DOMAIN pass.due /\ pass.due # <<>>
      /\ 1 \in Run
  BY <1>1, <1>2, PassFacts, RunsFinite DEF Typed
<1>5. Cleared(h)
  BY <1>1, <1>4 DEF Cleared
<1>6. /\ Trouble' = Trouble
      /\ \A s \in Run : IsOpen(s)' <=> IsOpen(s)
      /\ \A s, u \in Run : Before(s, u)' <=> Before(s, u)
  BY <1>3 DEF Trouble, IsOpen, Open, Before, Precedes
<1>7. CASE status[h] = "queued"
  <2>1. /\ status' = [status EXCEPT ![h] = "waiting_runner"]
        /\ pass' = [pass EXCEPT !.step = "enqueue"]
    BY <1>1, <1>7
  <2>2. /\ status' \in [Run -> RunStatus] /\ status'[h] = "waiting_runner"
        /\ \A s \in Run : s # h => status'[s] = status[s]
    BY <1>2, <1>4, <2>1 DEF Typed, RowsTyped, RunStatus
  <2>3. pass' \in PassType /\ pass'.due = pass.due /\ pass'.step = "enqueue" /\ pass'.plan = "claim"
    <3>1. pass \in PassType
      BY <1>2 DEF Typed, PassTyped
    <3> QED
      BY ONLY <1>1, <2>1, <3>1 DEF PassType
  <2> HIDE DEF h
  <2>4. Typed'
    BY <1>2, <1>3, <1>4, <2>2, <2>3 DEF Typed, RowsTyped, JobsTyped, PassTyped, RestTyped
  <2>5. \A s \in Run : Cleared(s)' => Cleared(s)
    BY <1>3, <1>5, <2>2, <2>3 DEF Cleared, h
  <2>6. FirstPass' => starter # "over" /\ FirstPass
    BY <1>3, <2>3 DEF FirstPass
  <2>7. InOrder' /\ OneActive' /\ JobsKnown' /\ RefusedKnown'
    BY <1>2, <1>3, <2>3 DEF InOrder, Listed, InTime, OneActive, JobsKnown, Open, IsOpen, RefusedKnown
  <2>8. EndedClosed'
    BY <1>2, <1>6, <2>2 DEF EndedClosed, Terminal
  <2>9. JobsCleared'
    BY <1>2, <1>3, <1>6, <2>2 DEF JobsCleared
  <2>10. PassKnown'
    <3>1. \A i \in DOMAIN pass.due : pass.due[i] \in Run
      BY <1>2 DEF Typed, PassTyped, PassType
    <3>2. \A i \in DOMAIN pass.due :
            /\ at[pass.due[i]] <= 0
            /\ pass.due[i] \in Trouble \/ status[pass.due[i]] = "queued" \/ i = 1
      BY <1>2 DEF PassKnown
    <3>3. \A i, j \in DOMAIN pass.due : pass.due[i] = pass.due[j] => i = j
      BY <1>2 DEF PassKnown
    <3>4. ASSUME NEW i \in DOMAIN pass.due
          PROVE  pass.due[i] \in Trouble \/ status'[pass.due[i]] = "queued" \/ i = 1
      <4>1. pass.due[i] = h => i = 1
        BY <1>4, <3>3
      <4> QED
        BY <2>2, <3>1, <3>2, <4>1
    <3>5. Head(pass'.due) = h
      BY <2>3 DEF h
    <3> QED
      BY <1>3, <1>6, <2>2, <2>3, <3>2, <3>3, <3>4, <3>5 DEF PassKnown
  <2>11. BeginsFirst'
    <3> SUFFICES ASSUME FirstPass
                 PROVE  /\ \A q \in Provider : today'[q] = 0
                        /\ \A s \in Run : ~Before(s, 1)'
                        /\ \A i \in DOMAIN pass'.due : pass'.due[i] = 1
                        /\ pass'.plan \in {"none", "claim"}
                        /\ retry'.step = "none" /\ retried' = {}
                        /\ \A s \in Run \ {1} :
                             /\ at'[s] > 0 /\ status'[s] = "queued"
                             /\ \A q \in Provider : job'[s][q] = "none" /\ ckpt'[s][q] = "queued"
      BY <2>6 DEF BeginsFirst
    <3>1. h = 1
      BY <1>2, <1>4 DEF BeginsFirst
    <3>2. \A s \in Run \ {1} : status'[s] = status[s]
      BY <2>2, <3>1
    <3> QED
      BY <1>2, <1>3, <1>4, <1>6, <2>3, <3>2 DEF BeginsFirst
  <2>12. ClearedInOrder'
    BY <1>2, <1>3, <1>6, <2>5 DEF ClearedInOrder
  <2>13. WithinPlan'
    <3>1. \A q \in Provider : Owing(q)' \subseteq Owing(q)
      BY <1>3, <1>6, <2>5 DEF Owing, Open
    <3> QED
      BY <1>2, <1>3, <2>4, <3>1, LimitKept DEF Typed
  <2> QED
    BY <2>4, <2>7, <2>8, <2>9, <2>10, <2>11, <2>12, <2>13 DEF SeriesInv
<1>8. CASE status[h] # "queued"
  <2>1. status' = status /\ pass' = NextDue
    BY <1>1, <1>8
  <2>2. /\ pass' \in PassType /\ (pass'.step = "idle" <=> pass'.due = <<>>)
        /\ pass'.plan = "none" /\ pass'.step \in {"idle", "check"}
        /\ \A i, j \in DOMAIN pass'.due : pass'.due[i] = pass'.due[j] => i = j
        /\ \A i \in DOMAIN pass'.due :
             /\ pass'.due[i] \in Run /\ pass'.due[i] # h
             /\ at[pass'.due[i]] <= 0
             /\ pass'.due[i] \in Trouble \/ status[pass'.due[i]] = "queued"
             /\ \E j \in DOMAIN pass.due : pass'.due[i] = pass.due[j]
        /\ FirstPass /\ BeginsFirst => \A i \in DOMAIN pass'.due : FALSE
    BY <1>1, <1>2, <2>1, NextDueKnown
  <2> HIDE DEF h
  <2>3. Typed'
    BY <1>2, <1>3, <2>1, <2>2 DEF Typed, RowsTyped, JobsTyped, PassTyped, RestTyped
  <2>4. /\ \A s \in Run : Cleared(s)' => Cleared(s)
        /\ FirstPass' => FirstPass
    <3>1. InPass(1)' => InPass(1)
      BY <2>2 DEF InPass
    <3> QED
      BY <1>1, <1>3, <1>6, <2>1, <2>2, <3>1 DEF Cleared, FirstPass
  <2>5. InOrder' /\ OneActive' /\ JobsKnown' /\ RefusedKnown' /\ EndedClosed' /\ JobsCleared'
    BY <1>2, <1>3, <1>6, <2>1, <2>2
       DEF InOrder, Listed, InTime, OneActive, JobsKnown, Open, IsOpen, RefusedKnown,
           EndedClosed, JobsCleared
  <2>6. PassKnown'
    BY <1>3, <1>6, <2>1, <2>2 DEF PassKnown
  <2>7. BeginsFirst'
    BY <1>2, <1>3, <1>4, <1>6, <2>1, <2>2, <2>4 DEF BeginsFirst
  <2>8. ClearedInOrder'
    BY <1>2, <1>3, <1>6, <2>4 DEF ClearedInOrder
  <2>9. WithinPlan'
    <3>1. \A q \in Provider : Owing(q)' \subseteq Owing(q)
      BY <1>3, <1>6, <2>4 DEF Owing, Open
    <3> QED
      BY <1>2, <1>3, <2>3, <3>1, LimitKept DEF Typed
  <2> QED
    BY <2>3, <2>5, <2>6, <2>7, <2>8, <2>9 DEF SeriesInv
<1> QED
  BY <1>7, <1>8

\* The pass inserts the jobs of the run it has claimed.
LEMMA DispatchEnqueueKeeps ==
  ASSUME SeriesAssumption, SeriesInv, DispatchEnqueue
  PROVE  SeriesInv'
<1> DEFINE h == Head(pass.due)
<1>1. pass.step = "enqueue" /\ UNCHANGED <<rowVars, starter, userVars, timeVars>>
  BY DEF DispatchEnqueue
<1>2. PICK failing \in SUBSET Provider :
        /\ Enqueue(h, failing)
        /\ pass' = [pass EXCEPT !.step = IF failing = Provider THEN "failed" ELSE "mark"]
  BY DEF DispatchEnqueue
<1>3. /\ Typed /\ InOrder /\ OneActive /\ JobsKnown /\ RefusedKnown /\ EndedClosed
      /\ PassKnown /\ BeginsFirst /\ JobsCleared /\ ClearedInOrder /\ WithinPlan
  BY DEF SeriesInv
<1>4. /\ h = pass.due[1] /\ h \in Run /\ 1 \in DOMAIN pass.due /\ pass.due # <<>>
      /\ 1 \in Run
  BY <1>1, <1>3, PassFacts, RunsFinite DEF Typed
<1>5. /\ job' \in [Run -> [Provider -> JobStatus]]
      /\ \A s \in Run, q \in Provider :
           job'[s][q] = job[s][q] \/ (s = h /\ job'[s][q] = "waiting")
      /\ verdict' = verdict /\ seen' = seen
      /\ lost' \in Nat /\ lost' + retries <= MaxTrouble
      /\ refused' = (IF failing = Provider THEN refused \cup {h} ELSE refused)
      /\ refused' \subseteq Run
  BY <1>2, <1>3, <1>4, EnqueueEffect DEF Typed
<1>6. /\ status' = status /\ at' = at /\ order' = order /\ series' = series /\ ckpt' = ckpt
      /\ starter' = starter /\ retries' = retries /\ retry' = retry /\ retried' = retried
      /\ today' = today /\ quarter' = quarter
  BY <1>1 DEF rowVars, userVars, timeVars
<1>7. /\ pass' \in PassType /\ pass'.due = pass.due /\ pass'.plan = pass.plan
      /\ pass'.step = (IF failing = Provider THEN "failed" ELSE "mark")
  <2>1. pass \in PassType
    BY <1>3 DEF Typed, PassTyped
  <2> QED
    BY ONLY <1>2, <2>1 DEF PassType
<1> HIDE DEF h
<1>8. Typed'
  BY <1>3, <1>4, <1>5, <1>6, <1>7 DEF Typed, RowsTyped, JobsTyped, PassTyped, RestTyped
<1>9. OneActive' /\ JobsKnown'
  BY <1>3, <1>5, <1>6, WaitingJobs
<1>10. RefusedKnown'
  <2>1. Head(pass'.due) = h
    BY <1>7 DEF h
  <2> QED
    BY <1>3, <1>5, <1>6, <1>7, <2>1 DEF RefusedKnown
<1>11. /\ Trouble \subseteq Trouble' /\ Trouble' \subseteq Trouble \cup {h}
       /\ \A s \in Run : (IsOpen(s)' <=> IsOpen(s)) /\ (Cleared(s)' <=> Cleared(s))
       /\ \A s, u \in Run : Before(s, u)' <=> Before(s, u)
       /\ FirstPass' => FirstPass
  BY <1>1, <1>5, <1>6, <1>7 DEF Trouble, Cleared, Before, Precedes, IsOpen, Open, FirstPass
<1>12. InOrder'
  BY <1>3, <1>6 DEF InOrder, Listed, InTime
<1>13. h \in Trouble \/ status[h] # "queued"
  BY <1>1, <1>3 DEF PassKnown, h
<1>14. PassKnown'
  <2>1. pass.plan = "claim"
    BY <1>1, <1>3 DEF PassKnown
  <2>2. \A i \in DOMAIN pass.due :
          /\ at[pass.due[i]] <= 0
          /\ pass.due[i] \in Trouble \/ status[pass.due[i]] = "queued" \/ i = 1
    BY <1>3 DEF PassKnown
  <2>3. \A i, j \in DOMAIN pass.due : pass.due[i] = pass.due[j] => i = j
    BY <1>3 DEF PassKnown
  <2>4. Head(pass'.due) = h
    BY <1>7 DEF h
  <2> QED
    BY <1>6, <1>7, <1>11, <1>13, <2>1, <2>2, <2>3, <2>4 DEF PassKnown
<1>15. EndedClosed'
  BY <1>3, <1>6, <1>11 DEF EndedClosed
<1>16. BeginsFirst'
  <2> SUFFICES ASSUME FirstPass
               PROVE  /\ \A q \in Provider : today'[q] = 0
                      /\ \A s \in Run : ~Before(s, 1)'
                      /\ \A i \in DOMAIN pass'.due : pass'.due[i] = 1
                      /\ pass'.plan \in {"none", "claim"}
                      /\ retry'.step = "none" /\ retried' = {}
                      /\ \A s \in Run \ {1} :
                           /\ at'[s] > 0 /\ status'[s] = "queued"
                           /\ \A q \in Provider : job'[s][q] = "none" /\ ckpt'[s][q] = "queued"
    BY <1>11 DEF BeginsFirst
  <2>1. h = 1
    BY <1>3, <1>4 DEF BeginsFirst
  <2>2. \A s \in Run \ {1}, q \in Provider : job'[s][q] = job[s][q]
    BY <1>5, <2>1
  <2> QED
    BY <1>3, <1>4, <1>6, <1>7, <1>11, <2>2 DEF BeginsFirst
<1>17. JobsCleared'
  <2> SUFFICES ASSUME NEW s \in Run \ Trouble', NEW q \in Provider, job'[s][q] # "none"
               PROVE  status[s] # "queued" \/ (s = 1 /\ starter # "over")
    BY <1>6 DEF JobsCleared
  <2>1. s \in Run \ Trouble
    BY <1>11
  <2>2. CASE s = h
    BY <1>13, <2>1, <2>2
  <2>3. CASE s # h
    <3>1. job[s][q] # "none"
      BY <1>5, <2>3
    <3> QED
      BY <1>3, <2>1, <3>1 DEF JobsCleared
  <2> QED
    BY <2>2, <2>3
<1>18. ClearedInOrder'
  BY <1>3, <1>6, <1>11 DEF ClearedInOrder
<1>19. WithinPlan'
  <2>1. CASE refused' = refused
    <3>1. \A q \in Provider : Owing(q)' \subseteq Owing(q)
      BY <1>6, <1>11, <2>1 DEF Owing, Open, Trouble
    <3> QED
      BY <1>3, <1>6, <1>8, <2>1, <3>1, LimitKept DEF Typed
  <2>2. CASE refused' # refused
    <3>1. \A q \in Provider : Owing(q)' \subseteq Owing(q) \cup {h}
      BY <1>6, <1>11 DEF Owing, Open
    <3>2. retries' = retries /\ refused' = refused \cup {h} /\ h \notin refused
      BY <1>5, <1>6, <2>2
    <3> QED
      BY <1>3, <1>6, <1>8, <3>1, <3>2, LimitRaised DEF Typed
  <2> QED
    BY <2>1, <2>2
<1> QED
  BY <1>8, <1>9, <1>10, <1>12, <1>14, <1>15, <1>16, <1>17, <1>18, <1>19 DEF SeriesInv

\* The pass writes the status of the run it has claimed.
LEMMA DispatchMarkKeeps ==
  ASSUME SeriesAssumption, SeriesInv, DispatchMark
  PROVE  SeriesInv'
<1> DEFINE h == Head(pass.due)
           v == IF pass.step = "mark" THEN "running" ELSE "failed"
<1>1. /\ pass.step \in {"mark", "failed"} /\ pass' = NextDue
      /\ status' = [status EXCEPT ![h] = v] /\ series' = SeriesOf(status', ckpt)
      /\ UNCHANGED <<at, order, ckpt, starter, refused, jobVars, userVars, timeVars>>
  BY DEF DispatchMark
<1>2. /\ Typed /\ InOrder /\ OneActive /\ JobsKnown /\ RefusedKnown /\ EndedClosed
      /\ PassKnown /\ BeginsFirst /\ JobsCleared /\ ClearedInOrder /\ WithinPlan
  BY DEF SeriesInv
<1>3. /\ at' = at /\ order' = order /\ ckpt' = ckpt
      /\ job' = job /\ verdict' = verdict /\ starter' = starter
      /\ seen' = seen /\ lost' = lost /\ refused' = refused
      /\ retries' = retries /\ retry' = retry /\ retried' = retried
      /\ today' = today /\ quarter' = quarter
  BY <1>1 DEF jobVars, userVars, timeVars
<1>4. /\ h = pass.due[1] /\ h \in Run /\ 1 \in DOMAIN pass.due /\ pass.due # <<>>
      /\ 1 \in Run
  BY <1>1, <1>2, PassFacts, RunsFinite DEF Typed
<1>5. /\ v \in {"running", "failed"}
      /\ v = "failed" => h \in Trouble
      /\ pass.plan = "claim" /\ Cleared(h)
  BY <1>1, <1>2, <1>4 DEF RefusedKnown, PassKnown, Trouble, Cleared
<1>6. /\ status' \in [Run -> RunStatus] /\ status'[h] = v
      /\ \A s \in Run : s # h => status'[s] = status[s]
  <2>1. v \in RunStatus
    BY <1>5 DEF RunStatus, Terminal
  <2> HIDE DEF v, h
  <2> QED
    BY <1>1, <1>2, <1>4, <2>1 DEF Typed, RowsTyped
<1>7. series' \in SeriesRow
  BY <1>1, SeriesOfType
<1>8. /\ pass' \in PassType /\ (pass'.step = "idle" <=> pass'.due = <<>>)
      /\ pass'.plan = "none" /\ pass'.step \in {"idle", "check"}
      /\ \A i, j \in DOMAIN pass'.due : pass'.due[i] = pass'.due[j] => i = j
      /\ \A i \in DOMAIN pass'.due :
           /\ pass'.due[i] \in Run /\ pass'.due[i] # h
           /\ at[pass'.due[i]] <= 0
           /\ pass'.due[i] \in Trouble \/ status[pass'.due[i]] = "queued"
           /\ \E j \in DOMAIN pass.due : pass'.due[i] = pass.due[j]
      /\ FirstPass /\ BeginsFirst => \A i \in DOMAIN pass'.due : FALSE
  BY <1>1, <1>2, NextDueKnown
<1> HIDE DEF h, v
<1>9. Typed'
  BY <1>2, <1>3, <1>6, <1>7, <1>8 DEF Typed, RowsTyped, JobsTyped, PassTyped, RestTyped
<1>10. /\ Trouble' = Trouble
       /\ \A s \in Run : IsOpen(s)' <=> IsOpen(s)
       /\ \A s, u \in Run : Before(s, u)' <=> Before(s, u)
       /\ \A s \in Run : Cleared(s)' => Cleared(s)
  BY <1>3, <1>5, <1>6, <1>8 DEF Trouble, IsOpen, Open, Before, Precedes, Cleared
<1>11. FirstPass' => FirstPass /\ starter # "over"
  <2>1. ASSUME NEW i \in DOMAIN pass'.due, pass'.due[i] = 1, 1 \notin Trouble
        PROVE  status'[1] = "queued"
    BY <1>4, <1>6, <1>8, <2>1
  <2> QED
    BY <1>3, <1>10, <2>1 DEF FirstPass, InPass
<1>12. InOrder' /\ OneActive' /\ JobsKnown' /\ RefusedKnown'
  BY <1>2, <1>3, <1>8, <1>10
     DEF InOrder, Listed, InTime, OneActive, JobsKnown, Open, IsOpen, RefusedKnown
<1>13. EndedClosed' /\ JobsCleared'
  <2>1. EndedClosed'
    BY <1>2, <1>5, <1>6, <1>10 DEF EndedClosed, Terminal
  <2>2. JobsCleared'
    BY <1>2, <1>3, <1>5, <1>6, <1>10 DEF JobsCleared
  <2> QED
    BY <2>1, <2>2
<1>14. PassKnown'
  BY <1>3, <1>6, <1>8, <1>10 DEF PassKnown
<1>15. BeginsFirst'
  <2> SUFFICES ASSUME FirstPass
               PROVE  /\ \A q \in Provider : today'[q] = 0
                      /\ \A s \in Run : ~Before(s, 1)'
                      /\ \A i \in DOMAIN pass'.due : pass'.due[i] = 1
                      /\ pass'.plan \in {"none", "claim"}
                      /\ retry'.step = "none" /\ retried' = {}
                      /\ \A s \in Run \ {1} :
                           /\ at'[s] > 0 /\ status'[s] = "queued"
                           /\ \A q \in Provider : job'[s][q] = "none" /\ ckpt'[s][q] = "queued"
    BY <1>11 DEF BeginsFirst
  <2>1. h = 1
    BY <1>2, <1>4 DEF BeginsFirst
  <2>2. \A s \in Run \ {1} : status'[s] = status[s]
    BY <1>6, <2>1
  <2> QED
    BY <1>2, <1>3, <1>4, <1>8, <1>10, <2>2 DEF BeginsFirst
<1>16. ClearedInOrder'
  BY <1>2, <1>3, <1>10 DEF ClearedInOrder
<1>17. WithinPlan'
  <2>1. \A q \in Provider : Owing(q)' \subseteq Owing(q)
    BY <1>3, <1>10 DEF Owing, Open
  <2> QED
    BY <1>2, <1>3, <1>9, <2>1, LimitKept DEF Typed
<1> QED
  BY <1>9, <1>12, <1>13, <1>14, <1>15, <1>16, <1>17 DEF SeriesInv

-----------------------------------------------------------------------------
(* Recovery, the user's retry, and time.                                   *)

\* What recovery makes of a run: it is queued again behind what is due, or it
\* has ended, and its samples with it.
LEMMA ReconcileEffect ==
  ASSUME SeriesAssumption, Typed, InOrder, NEW r \in Run, Reconcile(r)
  PROVE  /\ status[r] \in {"running", "waiting_runner"} /\ Quiet(r)
         /\ status' \in [Run -> RunStatus] /\ ckpt' \in [Run -> [Provider -> CkptStatus]]
         /\ at' \in [Run -> Int] /\ series' \in SeriesRow /\ InOrder'
         /\ \A s \in Run : s # r => status'[s] = status[s] /\ at'[s] = at[s]
         /\ \A s \in Run, q \in Provider : s # r => ckpt'[s][q] = ckpt[s][q]
         /\ \A q \in Provider : Open(r, q)' => Open(r, q)
         /\ \A x, y \in Run : x # r /\ y # r /\ Before(x, y)' => Before(x, y)
         /\ \/ /\ status'[r] = "queued"
               /\ \A y \in Run : y # r /\ at[y] <= 0 => ~Before(r, y)'
            \/ /\ status'[r] \in Terminal /\ ~IsOpen(r)'
               /\ at' = at /\ order' = order
         /\ UNCHANGED <<jobVars, passVars, userVars, timeVars>>
<1> DEFINE open == {p \in Provider : ckpt[r][p] \notin ClosedCkpt}
           requeued == [p \in Provider |-> IF p \in open THEN "queued" ELSE ckpt[r][p]]
           expired == [p \in Provider |-> IF p \in open THEN "failed" ELSE ckpt[r][p]]
<1>1. /\ status[r] \in {"running", "waiting_runner"} /\ Quiet(r)
      /\ \/ /\ open = {}
            /\ status' = [status EXCEPT ![r] = RunVerdict(ckpt[r])]
            /\ at' = at /\ order' = order /\ ckpt' = ckpt
         \/ /\ open # {}
            /\ ckpt' = [ckpt EXCEPT ![r] = requeued]
            /\ status' = [status EXCEPT ![r] = "queued"]
            /\ Reschedule(r, 0)
         \/ /\ open # {}
            /\ ckpt' = [ckpt EXCEPT ![r] = expired]
            /\ status' = [status EXCEPT ![r] = RunVerdict(expired)]
            /\ at' = at /\ order' = order
      /\ series' = SeriesOf(status', ckpt')
      /\ UNCHANGED <<jobVars, passVars, userVars, timeVars>>
  BY DEF Reconcile
<1>2. /\ ckpt \in [Run -> [Provider -> CkptStatus]] /\ status \in [Run -> RunStatus]
      /\ at \in [Run -> Int] /\ Listed(order) /\ InTime(order, at)
  BY DEF Typed, RowsTyped, InOrder
<1>3. series' \in SeriesRow
  BY <1>1, SeriesOfType
<1>4. /\ requeued \in [Provider -> CkptStatus] /\ expired \in [Provider -> CkptStatus]
      /\ \A q \in Provider : requeued[q] \notin ClosedCkpt => ckpt[r][q] \notin ClosedCkpt
      /\ \A q \in Provider : expired[q] \in ClosedCkpt
  BY <1>2 DEF CkptStatus, ClosedCkpt
<1>5. /\ open = {} => \A q \in Provider : ckpt[r][q] \in ClosedCkpt
  OBVIOUS
<1> HIDE DEF open, requeued, expired
<1>6. CASE /\ open = {}
           /\ status' = [status EXCEPT ![r] = RunVerdict(ckpt[r])]
           /\ at' = at /\ order' = order /\ ckpt' = ckpt
  <2>1. RunVerdict(ckpt[r]) \in Terminal
    BY <1>5, <1>6, VerdictFacts
  <2>2. /\ status' \in [Run -> RunStatus] /\ status'[r] \in Terminal
        /\ \A s \in Run : s # r => status'[s] = status[s]
    BY <1>2, <1>6, <2>1 DEF RunStatus
  <2>3. ~IsOpen(r)' /\ \A q \in Provider : Open(r, q)' => Open(r, q)
    BY <1>5, <1>6 DEF IsOpen, Open
  <2> QED
    BY <1>1, <1>2, <1>3, <1>6, <2>2, <2>3 DEF InOrder, Before
<1>7. CASE /\ open # {}
           /\ ckpt' = [ckpt EXCEPT ![r] = requeued]
           /\ status' = [status EXCEPT ![r] = "queued"]
           /\ Reschedule(r, 0)
  <2>1. /\ status' \in [Run -> RunStatus] /\ status'[r] = "queued"
        /\ \A s \in Run : s # r => status'[s] = status[s]
    BY <1>2, <1>7 DEF RunStatus
  <2>2. /\ ckpt' \in [Run -> [Provider -> CkptStatus]] /\ ckpt'[r] = requeued
        /\ \A s \in Run : s # r => ckpt'[s] = ckpt[s]
    BY <1>2, <1>4, <1>7
  <2>3. \A q \in Provider : Open(r, q)' => Open(r, q)
    BY <1>4, <2>2 DEF Open
  <2>4. /\ at' \in [Run -> Int] /\ at'[r] = 0
        /\ \A x \in Run : x # r => at'[x] = at[x]
        /\ Listed(order') /\ InTime(order', at')
        /\ \A x, y \in Run : x # r /\ y # r /\ Precedes(order', x, y) => Before(x, y)
        /\ \A y \in Run : y # r /\ at[y] <= 0 => ~Precedes(order', r, y)
    BY <1>2, <1>7, RescheduleEffect
  <2> QED
    BY <1>1, <1>3, <2>1, <2>2, <2>3, <2>4 DEF InOrder, Before
<1>8. CASE /\ open # {}
           /\ ckpt' = [ckpt EXCEPT ![r] = expired]
           /\ status' = [status EXCEPT ![r] = RunVerdict(expired)]
           /\ at' = at /\ order' = order
  <2>1. RunVerdict(expired) \in Terminal
    BY <1>4, VerdictFacts
  <2>2. /\ status' \in [Run -> RunStatus] /\ status'[r] \in Terminal
        /\ \A s \in Run : s # r => status'[s] = status[s]
    BY <1>2, <1>8, <2>1 DEF RunStatus
  <2>3. /\ ckpt' \in [Run -> [Provider -> CkptStatus]] /\ ckpt'[r] = expired
        /\ \A s \in Run : s # r => ckpt'[s] = ckpt[s]
    BY <1>2, <1>4, <1>8
  <2>4. ~IsOpen(r)' /\ \A q \in Provider : Open(r, q)' => Open(r, q)
    BY <1>4, <2>3 DEF IsOpen, Open
  <2> QED
    BY <1>1, <1>2, <1>3, <1>8, <2>2, <2>3, <2>4 DEF InOrder, Before
<1> QED
  BY <1>1, <1>6, <1>7, <1>8

\* Recovery seals a run, or queues it again at the end of what is due.
LEMMA ReconcileKeeps ==
  ASSUME SeriesAssumption, SeriesInv, NEW r \in Run, Reconcile(r)
  PROVE  SeriesInv'
<1>1. /\ Typed /\ InOrder /\ OneActive /\ JobsKnown /\ RefusedKnown /\ EndedClosed
      /\ PassKnown /\ BeginsFirst /\ JobsCleared /\ ClearedInOrder /\ WithinPlan
  BY DEF SeriesInv
<1>2. /\ status[r] \in {"running", "waiting_runner"} /\ Quiet(r)
      /\ status' \in [Run -> RunStatus] /\ ckpt' \in [Run -> [Provider -> CkptStatus]]
      /\ at' \in [Run -> Int] /\ series' \in SeriesRow /\ InOrder'
      /\ \A s \in Run : s # r => status'[s] = status[s] /\ at'[s] = at[s]
      /\ \A s \in Run, q \in Provider : s # r => ckpt'[s][q] = ckpt[s][q]
      /\ \A q \in Provider : Open(r, q)' => Open(r, q)
      /\ \A x, y \in Run : x # r /\ y # r /\ Before(x, y)' => Before(x, y)
      /\ \/ /\ status'[r] = "queued"
            /\ \A y \in Run : y # r /\ at[y] <= 0 => ~Before(r, y)'
         \/ /\ status'[r] \in Terminal /\ ~IsOpen(r)'
            /\ at' = at /\ order' = order
      /\ UNCHANGED <<jobVars, passVars, userVars, timeVars>>
  BY <1>1, ReconcileEffect
<1>3. /\ job' = job /\ verdict' = verdict /\ starter' = starter /\ pass' = pass
      /\ seen' = seen /\ lost' = lost /\ refused' = refused
      /\ retries' = retries /\ retry' = retry /\ retried' = retried
      /\ today' = today /\ quarter' = quarter
  BY <1>2 DEF jobVars, passVars, userVars, timeVars
<1>4. /\ \A q \in Provider : job[r][q] = "none"
      /\ ~InPass(r) /\ (r = 1 => starter = "over")
  BY <1>2 DEF Quiet, Fresh, InPass
<1>5. 1 \in Run
  BY RunsFinite
<1>6. ~FirstPass
  BY <1>1, <1>2, <1>4 DEF FirstPass, BeginsFirst
<1>7. ~(pass.plan = "claim" /\ pass.due # <<>> /\ Head(pass.due) = r)
  <2>1. pass.due # <<>> => 1 \in DOMAIN pass.due /\ Head(pass.due) = pass.due[1]
    BY <1>1, PassFacts DEF Typed, PassTyped
  <2> QED
    BY <1>4, <2>1 DEF InPass
<1>8. Typed'
  BY <1>1, <1>2, <1>3 DEF Typed, RowsTyped, JobsTyped, PassTyped, RestTyped
<1>9. /\ Trouble' = Trouble
      /\ \A s \in Run : (IsOpen(s)' => IsOpen(s))
      /\ \A s \in Run, q \in Provider : Open(s, q)' => Open(s, q)
      /\ \A s \in Run : Cleared(s)' => Cleared(s)
      /\ status'[r] = "queued" => ~Cleared(r)'
      /\ ~FirstPass'
  <2>1. Trouble' = Trouble
    BY <1>3 DEF Trouble
  <2>2. \A s \in Run, q \in Provider : Open(s, q)' => Open(s, q)
    BY <1>2 DEF Open
  <2>3. \A s \in Run : Cleared(s)' => Cleared(s)
    BY <1>2, <1>3 DEF Cleared
  <2>4. status'[r] = "queued" => ~Cleared(r)'
    BY <1>3, <1>4, <1>7 DEF Cleared
  <2>5. ~FirstPass'
    <3>1. InPass(1)' <=> InPass(1)
      BY <1>3 DEF InPass
    <3>2. InPass(1) => status'[1] = status[1]
      BY <1>2, <1>4, <1>5
    <3> QED
      BY <1>3, <1>6, <2>1, <3>1, <3>2 DEF FirstPass
  <2> QED
    BY <2>1, <2>2, <2>3, <2>4, <2>5 DEF IsOpen
<1>10. OneActive' /\ RefusedKnown'
  BY <1>1, <1>3 DEF OneActive, RefusedKnown
<1>11. JobsKnown'
  <2> SUFFICES ASSUME NEW s \in Run, NEW q \in Provider
               PROVE  /\ job[s][q] = "active" => Open(s, q)'
                      /\ job[s][q] = "tallied" =>
                           /\ verdict[q] # "none"
                           /\ verdict[q] # "running" /\ s \notin retried => ~IsOpen(s)'
                      /\ job[s][q] = "settled" => seen[q] \in SeriesRow
    BY <1>3 DEF JobsKnown
  <2>1. CASE s = r
    BY <1>4, <2>1
  <2>2. CASE s # r
    <3>1. Open(s, q)' <=> Open(s, q)
      BY <1>2, <2>2 DEF Open
    <3> QED
      BY <1>1, <1>9, <3>1 DEF JobsKnown
  <2> QED
    BY <2>1, <2>2
<1>12. EndedClosed'
  <2> SUFFICES ASSUME NEW s \in Run \ Trouble, status'[s] \in Terminal PROVE ~IsOpen(s)'
    BY <1>9 DEF EndedClosed
  <2>1. CASE s = r
    BY <1>2, <2>1 DEF Terminal
  <2>2. CASE s # r
    BY <1>1, <1>2, <1>9, <2>2 DEF EndedClosed
  <2> QED
    BY <2>1, <2>2
<1>13. PassKnown'
  <2>1. \A i \in DOMAIN pass.due : pass.due[i] \in Run /\ pass.due[i] # r
    BY <1>1, <1>4 DEF Typed, PassTyped, PassType, InPass
  <2>2. pass.step \in {"enqueue", "mark", "failed"} => Head(pass.due) \in Run /\ Head(pass.due) # r
    BY <1>1, <2>1, PassFacts DEF Typed
  <2>3. \A i \in DOMAIN pass.due :
          at'[pass.due[i]] = at[pass.due[i]] /\ status'[pass.due[i]] = status[pass.due[i]]
    BY <1>2, <2>1
  <2>4. pass.step \in {"enqueue", "mark", "failed"} =>
          status'[Head(pass.due)] = status[Head(pass.due)]
    BY <1>2, <2>2
  <2> QED
    BY <1>1, <1>3, <1>9, <2>3, <2>4 DEF PassKnown
<1>14. BeginsFirst'
  BY <1>9 DEF BeginsFirst
<1>15. JobsCleared'
  <2> SUFFICES ASSUME NEW s \in Run \ Trouble, NEW q \in Provider, job[s][q] # "none"
               PROVE  status'[s] # "queued" \/ (s = 1 /\ starter # "over")
    BY <1>3, <1>9 DEF JobsCleared
  <2>1. s # r
    BY <1>4
  <2> QED
    BY <1>1, <1>2, <2>1 DEF JobsCleared
<1>16. ClearedInOrder'
  <2> SUFFICES ASSUME NEW s \in Run \ Trouble, Cleared(s)'
               PROVE  at'[s] <= 0 /\ \A x \in Run \ Trouble : Before(x, s)' => ~IsOpen(x)'
    BY <1>9 DEF ClearedInOrder
  <2>1. at[s] <= 0 /\ \A x \in Run \ Trouble : Before(x, s) => ~IsOpen(x)
    BY <1>1, <1>9 DEF ClearedInOrder
  <2>2. CASE at' = at /\ order' = order
    BY <1>9, <2>1, <2>2 DEF Before
  <2>3. CASE /\ status'[r] = "queued"
             /\ \A y \in Run : y # r /\ at[y] <= 0 => ~Before(r, y)'
    <3>1. s # r
      BY <1>9, <2>3
    <3>2. at'[s] <= 0
      BY <1>2, <2>1, <3>1
    <3>3. ASSUME NEW x \in Run \ Trouble, Before(x, s)' PROVE ~IsOpen(x)'
      <4>1. x # r
        BY <2>1, <2>3, <3>1, <3>3
      <4> QED
        BY <1>2, <1>9, <2>1, <3>1, <3>3, <4>1
    <3> QED
      BY <3>2, <3>3
  <2> QED
    BY <1>2, <2>2, <2>3
<1>17. WithinPlan'
  <2>1. \A q \in Provider : Owing(q)' \subseteq Owing(q)
    BY <1>9 DEF Owing
  <2> QED
    BY <1>1, <1>3, <1>8, <2>1, LimitKept DEF Typed
<1> QED
  BY <1>2, <1>8, <1>10, <1>11, <1>12, <1>13, <1>14, <1>15, <1>16, <1>17 DEF SeriesInv

\* The user has the failed samples of a run asked again: one more is owed.
LEMMA RetryReopenKeeps ==
  ASSUME SeriesAssumption, SeriesInv, RetryReopen
  PROVE  SeriesInv'
<1>1. PICK r \in Run :
        /\ FailedOf(r) # {} /\ ~Fresh(r) /\ \A p \in Provider : job[r][p] = "none"
        /\ retry' = [step |-> "reopened", run |-> r]
        /\ retried' = retried \cup {r}
        /\ ckpt' = [ckpt EXCEPT ![r] = [p \in Provider |->
                       IF p \in FailedOf(r) THEN "queued" ELSE ckpt[r][p]]]
  BY DEF RetryReopen
<1>2. /\ lost + retries < MaxTrouble /\ retries' = retries + 1
      /\ UNCHANGED <<status, at, order, series, jobVars, passVars, timeVars>>
  BY DEF RetryReopen
<1>3. /\ Typed /\ InOrder /\ OneActive /\ JobsKnown /\ RefusedKnown /\ EndedClosed
      /\ PassKnown /\ BeginsFirst /\ JobsCleared /\ ClearedInOrder /\ WithinPlan
  BY DEF SeriesInv
<1>4. /\ status' = status /\ at' = at /\ order' = order /\ series' = series
      /\ job' = job /\ verdict' = verdict /\ starter' = starter /\ pass' = pass
      /\ seen' = seen /\ lost' = lost /\ refused' = refused
      /\ today' = today /\ quarter' = quarter
  BY <1>2 DEF jobVars, passVars, timeVars
<1> DEFINE row == [p \in Provider |-> IF p \in FailedOf(r) THEN "queued" ELSE ckpt[r][p]]
<1>5. /\ ckpt' \in [Run -> [Provider -> CkptStatus]]
      /\ \A s \in Run : s # r => ckpt'[s] = ckpt[s]
  <2>1. ckpt \in [Run -> [Provider -> CkptStatus]]
    BY <1>3 DEF Typed, RowsTyped
  <2>2. row \in [Provider -> CkptStatus]
    BY <2>1 DEF CkptStatus
  <2>3. ckpt' = [ckpt EXCEPT ![r] = row]
    BY <1>1
  <2> HIDE DEF row
  <2> QED
    BY ONLY <2>1, <2>2, <2>3
<1>6. retry'.step = "reopened" /\ retry'.run = r /\ retried' = retried \cup {r}
  BY <1>1
<1>7. ~FirstPass
  <2> SUFFICES ASSUME FirstPass PROVE FALSE
    OBVIOUS
  <2>1. r # 1
    BY <1>1 DEF FirstPass, Fresh, InPass
  <2>2. \A q \in Provider : ckpt[r][q] = "queued"
    BY <1>3, <2>1 DEF BeginsFirst
  <2> QED
    BY <1>1, <2>2 DEF FailedOf
<1>8. Cardinality(retried') <= retries'
  <2>1. retried \subseteq Run /\ Cardinality(retried) <= retries /\ retries \in Nat
    BY <1>3 DEF Typed, RestTyped
  <2>2. IsFiniteSet(retried) /\ Cardinality(retried) \in Nat
    BY <2>1, RunsFinite
  <2>3. Cardinality(retried \cup {r}) =
          IF r \in retried THEN Cardinality(retried) ELSE Cardinality(retried) + 1
    BY <2>2, FS_AddElement
  <2> QED
    BY <1>2, <1>6, <2>1, <2>2, <2>3
<1>9. Typed'
  <2>1. /\ lost \in Nat /\ retries \in Nat /\ MaxTrouble \in Nat /\ retried \subseteq Run
    BY <1>3 DEF Typed, RestTyped, SeriesAssumption
  <2>2. retries' \in Nat /\ lost' + retries' <= MaxTrouble
    BY <1>2, <1>4, <2>1
  <2>3. RestTyped'
    BY <1>3, <1>4, <1>6, <1>8, <2>1, <2>2 DEF Typed, RestTyped
  <2> QED
    BY <1>3, <1>4, <1>5, <2>3 DEF Typed, RowsTyped, JobsTyped, PassTyped
<1>10. /\ Trouble' = Trouble \cup {r}
       /\ \A s \in Run : s # r => (IsOpen(s)' <=> IsOpen(s))
       /\ \A s \in Run, q \in Provider : s # r => (Open(s, q)' <=> Open(s, q))
       /\ \A s \in Run : Cleared(s)' <=> Cleared(s)
       /\ \A s, u \in Run : Before(s, u)' <=> Before(s, u)
  BY <1>4, <1>5, <1>6 DEF Trouble, IsOpen, Open, Cleared, Before, Precedes
<1>11. ~FirstPass'
  BY <1>4, <1>7, <1>10 DEF FirstPass, InPass
<1>12. InOrder' /\ OneActive' /\ RefusedKnown'
  BY <1>3, <1>4 DEF InOrder, Listed, InTime, OneActive, RefusedKnown
<1>13. JobsKnown'
  BY <1>1, <1>3, <1>4, <1>6, <1>10 DEF JobsKnown
<1>14. EndedClosed'
  BY <1>3, <1>4, <1>10 DEF EndedClosed
<1>15. PassKnown'
  BY <1>3, <1>4, <1>10 DEF PassKnown
<1>16. BeginsFirst'
  BY <1>11 DEF BeginsFirst
<1>17. JobsCleared'
  BY <1>3, <1>4, <1>10 DEF JobsCleared
<1>18. ClearedInOrder'
  BY <1>3, <1>4, <1>10 DEF ClearedInOrder
<1>19. WithinPlan'
  <2>1. \A q \in Provider : Owing(q)' \subseteq Owing(q) \cup {r}
    BY <1>10 DEF Owing
  <2> QED
    BY <1>2, <1>3, <1>4, <1>9, <2>1, LimitRaised DEF Typed
<1> QED
  BY <1>9, <1>12, <1>13, <1>14, <1>15, <1>16, <1>17, <1>18, <1>19 DEF SeriesInv

\* The jobs of a retry are inserted.
LEMMA RetryEnqueueKeeps ==
  ASSUME SeriesAssumption, SeriesInv, RetryEnqueue
  PROVE  SeriesInv'
<1> DEFINE r == retry.run
           row == [p \in Provider |-> IF ckpt[r][p] = "queued" THEN Waiting(r)[p] ELSE job[r][p]]
<1>1. /\ retry.step = "reopened"
      /\ job' = [job EXCEPT ![r] = row]
      /\ status' = [status EXCEPT ![r] = "running"]
      /\ series' = SeriesOf(status', ckpt)
      /\ retry' = [step |-> "none", run |-> 0]
      /\ UNCHANGED <<at, order, ckpt, verdict, seen, lost, passVars, retries, retried, timeVars>>
  BY DEF RetryEnqueue
<1>2. /\ Typed /\ InOrder /\ OneActive /\ JobsKnown /\ RefusedKnown /\ EndedClosed
      /\ PassKnown /\ BeginsFirst /\ JobsCleared /\ ClearedInOrder /\ WithinPlan
  BY DEF SeriesInv
<1>3. /\ at' = at /\ order' = order /\ ckpt' = ckpt
      /\ verdict' = verdict /\ starter' = starter /\ pass' = pass
      /\ seen' = seen /\ lost' = lost /\ refused' = refused
      /\ retries' = retries /\ retried' = retried
      /\ today' = today /\ quarter' = quarter
  BY <1>1 DEF passVars, timeVars
<1>4. r \in retried /\ r \in Run /\ r \in Trouble
  BY <1>1, <1>2 DEF Typed, RestTyped, Trouble
<1>5. /\ job \in [Run -> [Provider -> JobStatus]] /\ row \in [Provider -> JobStatus]
      /\ \A q \in Provider : row[q] = job[r][q] \/ row[q] = "waiting"
  BY <1>2, <1>4 DEF Typed, JobsTyped, JobStatus, Waiting
<1> HIDE DEF r, row
<1>6. /\ job' \in [Run -> [Provider -> JobStatus]]
      /\ \A s \in Run, q \in Provider :
           job'[s][q] = job[s][q] \/ (s = r /\ job'[s][q] = "waiting")
  BY ONLY <1>1, <1>4, <1>5
<1>7. /\ status' \in [Run -> RunStatus] /\ status'[r] = "running"
      /\ \A s \in Run : s # r => status'[s] = status[s]
  BY <1>1, <1>2, <1>4 DEF Typed, RowsTyped, RunStatus
<1>8. series' \in SeriesRow
  BY <1>1, SeriesOfType
<1>9. ~FirstPass
  BY <1>1, <1>2 DEF BeginsFirst
<1>10. retry'.step = "none"
  BY <1>1
<1>11. Typed'
  BY <1>2, <1>3, <1>6, <1>7, <1>8, <1>10 DEF Typed, RowsTyped, JobsTyped, PassTyped, RestTyped
<1>12. /\ Trouble' = Trouble
       /\ \A s \in Run : IsOpen(s)' <=> IsOpen(s)
       /\ \A s \in Run : s # r => (Cleared(s)' <=> Cleared(s))
       /\ \A s, u \in Run : Before(s, u)' <=> Before(s, u)
  BY <1>3, <1>7 DEF Trouble, IsOpen, Open, Cleared, Before, Precedes
<1>13. ~FirstPass'
  <2>1. 1 \in Run
    BY RunsFinite
  <2>2. 1 \notin Trouble => status'[1] = status[1]
    BY <1>4, <1>7, <2>1
  <2> QED
    BY <1>3, <1>9, <1>12, <2>2 DEF FirstPass, InPass
<1>14. InOrder' /\ RefusedKnown'
  BY <1>2, <1>3 DEF InOrder, Listed, InTime, RefusedKnown
<1>15. OneActive' /\ JobsKnown'
  BY <1>2, <1>3, <1>6, WaitingJobs
<1>16. EndedClosed'
  BY <1>2, <1>4, <1>7, <1>12 DEF EndedClosed
<1>17. PassKnown'
  <2>1. \A i \in DOMAIN pass.due : pass.due[i] \in Run
    BY <1>2 DEF Typed, PassTyped, PassType
  <2>2. pass.step \in {"enqueue", "mark", "failed"} => Head(pass.due) \in Run
    BY <1>2, PassFacts DEF Typed
  <2>3. \A i \in DOMAIN pass.due :
          pass.due[i] \in Trouble \/ status'[pass.due[i]] = status[pass.due[i]]
    BY <1>4, <1>7, <2>1
  <2>4. pass.step \in {"enqueue", "mark", "failed"} =>
          Head(pass.due) \in Trouble \/ status'[Head(pass.due)] = status[Head(pass.due)]
    BY <1>4, <1>7, <2>2
  <2> QED
    BY <1>2, <1>3, <1>12, <2>3, <2>4 DEF PassKnown
<1>18. BeginsFirst'
  BY <1>13 DEF BeginsFirst
<1>19. JobsCleared'
  <2> SUFFICES ASSUME NEW s \in Run \ Trouble, NEW q \in Provider, job'[s][q] # "none"
               PROVE  status'[s] # "queued" \/ (s = 1 /\ starter # "over")
    BY <1>3, <1>12 DEF JobsCleared
  <2>1. s # r
    BY <1>4
  <2>2. job[s][q] # "none" /\ status'[s] = status[s]
    BY <1>6, <1>7, <2>1
  <2> QED
    BY <1>2, <2>2 DEF JobsCleared
<1>20. ClearedInOrder'
  BY <1>2, <1>3, <1>4, <1>12 DEF ClearedInOrder
<1>21. WithinPlan'
  <2>1. \A q \in Provider : Owing(q)' \subseteq Owing(q)
    BY <1>3, <1>4, <1>12 DEF Owing, Open
  <2> QED
    BY <1>2, <1>3, <1>11, <2>1, LimitKept DEF Typed
<1> QED
  BY <1>11, <1>14, <1>15, <1>16, <1>17, <1>18, <1>19, <1>20, <1>21 DEF SeriesInv

\* Time keeps the order of times.
LEMMA LaterKeepsOrder ==
  ASSUME SeriesAssumption, NEW a \in Int, NEW b \in Int
  PROVE  /\ Later(a) \in Int /\ Later(a) <= a
         /\ a <= b => Later(a) <= Later(b)
BY DEF Later, SeriesAssumption

\* Time passes, and at midnight the day's count begins again.
LEMMA TickKeeps ==
  ASSUME SeriesAssumption, SeriesInv, Tick
  PROVE  SeriesInv'
<1>1. /\ starter = "over" /\ pass.step = "idle"
      /\ at' = [r \in Run |-> Later(at[r])]
      /\ quarter' = (quarter + 1) % Day
      /\ today' = IF quarter' = 0 THEN [p \in Provider |-> 0] ELSE today
      /\ UNCHANGED <<status, order, ckpt, series, jobVars, passVars, userVars>>
  BY DEF Tick
<1>2. /\ Typed /\ InOrder /\ OneActive /\ JobsKnown /\ RefusedKnown /\ EndedClosed
      /\ PassKnown /\ BeginsFirst /\ JobsCleared /\ ClearedInOrder /\ WithinPlan
  BY DEF SeriesInv
<1>3. /\ status' = status /\ order' = order /\ ckpt' = ckpt /\ series' = series
      /\ job' = job /\ verdict' = verdict /\ starter' = starter /\ pass' = pass
      /\ seen' = seen /\ lost' = lost /\ refused' = refused
      /\ retries' = retries /\ retry' = retry /\ retried' = retried
  BY <1>1 DEF jobVars, passVars, userVars
<1>4. pass.due = <<>> /\ DOMAIN pass.due = {}
  BY <1>1, <1>2 DEF Typed, PassTyped
<1>5. at \in [Run -> Int] /\ order \in [Run -> Run]
  BY <1>2 DEF Typed, RowsTyped, InOrder, Listed
<1>6. /\ at' \in [Run -> Int] /\ \A r \in Run : at'[r] = Later(at[r]) /\ at'[r] <= at[r]
  BY <1>1, <1>5, LaterKeepsOrder
<1>7. InOrder'
  <2> SUFFICES ASSUME NEW i \in 1 .. Batches - 1 PROVE at'[order[i]] <= at'[order[i + 1]]
    BY <1>2, <1>3 DEF InOrder, Listed, InTime
  <2>1. i \in Run /\ i + 1 \in Run
    BY DEF Run, SeriesAssumption
  <2>2. at[order[i]] <= at[order[i + 1]]
    BY <1>2 DEF InOrder, InTime
  <2>3. order[i] \in Run /\ order[i + 1] \in Run
    BY <1>5, <2>1
  <2>4. at[order[i]] \in Int /\ at[order[i + 1]] \in Int
    BY <1>5, <2>3
  <2>5. Later(at[order[i]]) <= Later(at[order[i + 1]])
    BY <2>2, <2>4, LaterKeepsOrder
  <2> QED
    BY <1>6, <2>3, <2>5
<1>8. /\ quarter' \in 0 .. Day - 1 /\ today' \in [Provider -> Nat]
      /\ \A p \in Provider : today'[p] = 0 \/ today' = today
  BY <1>1, <1>2 DEF Typed, RestTyped, Day
<1>9. Typed'
  BY <1>2, <1>3, <1>6, <1>8 DEF Typed, RowsTyped, JobsTyped, PassTyped, RestTyped
<1>10. /\ Trouble' = Trouble
       /\ \A s \in Run : (IsOpen(s)' <=> IsOpen(s)) /\ (Cleared(s)' <=> Cleared(s))
       /\ \A s, u \in Run : Before(s, u)' <=> Before(s, u)
       /\ ~FirstPass'
  BY <1>1, <1>3, <1>4
     DEF Trouble, IsOpen, Open, Cleared, Before, Precedes, FirstPass, InPass
<1>11. OneActive' /\ JobsKnown' /\ RefusedKnown' /\ EndedClosed' /\ JobsCleared'
  BY <1>2, <1>3, <1>10
     DEF OneActive, JobsKnown, Open, IsOpen, RefusedKnown, EndedClosed, JobsCleared
<1>12. PassKnown'
  BY <1>1, <1>2, <1>3, <1>4 DEF PassKnown
<1>13. BeginsFirst'
  BY <1>10 DEF BeginsFirst
<1>14. ClearedInOrder'
  <2> SUFFICES ASSUME NEW s \in Run \ Trouble, Cleared(s)
               PROVE  at'[s] <= 0 /\ \A r \in Run \ Trouble : Before(r, s) => ~IsOpen(r)
    BY <1>10 DEF ClearedInOrder
  <2>1. at[s] <= 0 /\ \A r \in Run \ Trouble : Before(r, s) => ~IsOpen(r)
    BY <1>2 DEF ClearedInOrder
  <2> QED
    BY <1>5, <1>6, <2>1
<1>15. WithinPlan'
  <2> SUFFICES ASSUME NEW q \in Provider
               PROVE  today'[q] + Cardinality(Owing(q)')
                        <= DailyLimit + retries' + Cardinality(refused')
    BY DEF WithinPlan
  <2>1. CASE today' = today
    <3>1. \A p \in Provider : Owing(p)' \subseteq Owing(p)
      BY <1>3, <1>10 DEF Owing, Open
    <3>2. WithinPlan'
      BY <1>2, <1>3, <1>9, <2>1, <3>1, LimitKept DEF Typed
    <3> QED
      BY <3>2 DEF WithinPlan
  <2>2. CASE today'[q] = 0
    <3>1. /\ Cardinality(Owing(q)') \in Nat /\ Cardinality(refused') \in Nat
          /\ Cardinality(Owing(q)') <= retries' + Cardinality(refused') + 1
      BY <1>7, <1>9, <1>14, OwedBound DEF Typed
    <3>2. retries' \in Nat /\ DailyLimit \in Nat \ {0}
      BY <1>9 DEF Typed, RestTyped, SeriesAssumption
    <3> QED
      BY <2>2, <3>1, <3>2
  <2> QED
    BY <1>8, <2>1, <2>2
<1> QED
  BY <1>7, <1>9, <1>11, <1>12, <1>13, <1>14, <1>15 DEF SeriesInv

-----------------------------------------------------------------------------
(* The theorems.                                                           *)

\* Every step keeps the invariant.
LEMMA SeriesStepInv ==
  ASSUME SeriesAssumption, SeriesInv, [Next]_vars
  PROVE  SeriesInv'
<1>1. CASE UNCHANGED vars
  <2> USE <1>1 DEF vars, rowVars, jobVars, passVars, userVars, timeVars
  <2>1. Typed' /\ InOrder' /\ OneActive' /\ JobsKnown' /\ RefusedKnown'
    BY DEF SeriesInv, Typed, RowsTyped, JobsTyped, PassTyped, RestTyped, InOrder, Listed, InTime,
           OneActive, JobsKnown, Open, IsOpen, RefusedKnown
  <2>2. /\ Trouble' = Trouble
        /\ \A s \in Run : (IsOpen(s)' <=> IsOpen(s)) /\ (Cleared(s)' <=> Cleared(s))
        /\ \A s, u \in Run : Before(s, u)' <=> Before(s, u)
        /\ FirstPass' <=> FirstPass
        /\ \A q \in Provider : Owing(q)' = Owing(q)
    BY DEF Trouble, IsOpen, Open, Cleared, Before, Precedes, FirstPass, InPass, Owing
  <2>3. EndedClosed' /\ PassKnown' /\ JobsCleared'
    BY <2>2 DEF SeriesInv, EndedClosed, PassKnown, JobsCleared
  <2>4. BeginsFirst'
    BY <2>2, RunsFinite DEF SeriesInv, BeginsFirst
  <2>5. ClearedInOrder' /\ WithinPlan'
    BY <2>2 DEF SeriesInv, ClearedInOrder, WithinPlan
  <2> QED
    BY <2>1, <2>3, <2>4, <2>5 DEF SeriesInv
<1>2. CASE StartEnqueue \/ StartMark
  BY <1>2, StartEnqueueKeeps, StartMarkKeeps
<1>3. CASE Dispatch
  BY <1>3, PassReadKeeps, PassCheckKeeps, PostponeKeeps, ClaimKeeps, DispatchEnqueueKeeps,
     DispatchMarkKeeps DEF Dispatch
<1>4. ASSUME NEW r \in Run, NEW p \in Provider, JobStep(r, p) \/ Vanish(r, p)
      PROVE  SeriesInv'
  BY <1>4, PickKeeps, CloseKeeps, TallyKeeps, SettleKeeps, SeriesWriteKeeps, VanishKeeps DEF JobStep
<1>5. ASSUME NEW r \in Run, Reconcile(r) PROVE SeriesInv'
  BY <1>5, ReconcileKeeps
<1>6. CASE Retry \/ Tick
  BY <1>6, RetryReopenKeeps, RetryEnqueueKeeps, TickKeeps DEF Retry
<1> QED
  BY <1>1, <1>2, <1>3, <1>4, <1>5, <1>6 DEF Next

\* It holds in every state of a series.
LEMMA SeriesInductive == Spec => []SeriesInv
<1>1. Init => SeriesInv
  BY SeriesAssumption, SeriesInitInv
<1>2. SeriesInv /\ [Next]_vars => SeriesInv'
  BY SeriesAssumption, SeriesStepInv
<1> QED
  BY <1>1, <1>2, PTL DEF Spec

\* The rows, the jobs, the pass and the requests of a series keep their types,
\* its batches their order by time, and a provider has one job in hand
\* (runs.ts), for any number of batches and providers.
THEOREM SeriesTypeCorrect == Spec => []TypeOK
<1>1. SeriesInv => TypeOK
  <2> SUFFICES ASSUME SeriesInv PROVE TypeOK
    OBVIOUS
  <2>1. Typed /\ InOrder /\ OneActive
    BY DEF SeriesInv
  <2>2. \A i \in DOMAIN pass.due : pass.due[i] \in Run
    BY <2>1 DEF Typed, PassTyped, PassType
  <2>3. lost + retries \in 0 .. MaxTrouble
    BY <2>1, SeriesAssumption DEF Typed, RestTyped, SeriesAssumption
  <2>4. {series} \cup ({seen[p] : p \in Provider} \ {NoRow}) \subseteq SeriesRow
    BY <2>1 DEF Typed, RowsTyped, JobsTyped
  <2>5. /\ pass.step \in {"idle", "check", "act", "enqueue", "mark", "failed"}
        /\ pass.plan \in {"none", "later", "tomorrow", "claim"}
    BY <2>1 DEF Typed, PassTyped, PassType
  <2> QED
    BY <2>1, <2>2, <2>3, <2>4, <2>5
       DEF Typed, RowsTyped, JobsTyped, PassTyped, RestTyped, InOrder, Listed, InTime, OneActive,
           TypeOK, RunStatus, CkptStatus, JobStatus, SeriesRow
<1> QED
  BY <1>1, SeriesInductive, PTL

\* Two batches of a series are never collected at once, unless the user retried
\* one or it was called failed when its jobs were refused, however passes,
\* postponements, restarts, lost jobs and midnights interleave (runs.ts:1279-1331),
\* for any number of batches and providers.
THEOREM OneBatch == Spec => []OneBatchAtATime
<1>1. SeriesInv => OneBatchAtATime
  <2> SUFFICES ASSUME SeriesInv, NEW r \in Run \ Trouble, NEW s \in Run \ Trouble,
                      Collecting(r), Collecting(s), r # s
               PROVE  FALSE
    BY DEF OneBatchAtATime, Trouble
  <2>1. Cleared(r) /\ IsOpen(r) /\ Cleared(s) /\ IsOpen(s)
    BY DEF SeriesInv, JobsCleared, Collecting, Cleared, IsOpen, Open, ClosedCkpt
  <2>2. Before(r, s) \/ Before(s, r)
    BY SeriesAssumption, BeforeTotal DEF SeriesInv, InOrder
  <2> QED
    BY <2>1, <2>2 DEF SeriesInv, ClearedInOrder
<1> QED
  BY <1>1, SeriesInductive, PTL

\* No provider completes more of a series between two midnights than its daily
\* limit, beyond what the user retried and the runs called failed whose jobs
\* another request inserted (runs.ts:1298-1318), for any limit.
THEOREM DailyLimitKept == Spec => []WithinDailyLimit
<1>1. SeriesInv => WithinDailyLimit
  <2> SUFFICES ASSUME SeriesInv, NEW p \in Provider
               PROVE  today[p] <= DailyLimit + retries + Cardinality(refused)
    BY DEF WithinDailyLimit
  <2>1. Cardinality(Owing(p)) \in Nat /\ Cardinality(refused) \in Nat
    BY SeriesAssumption, OwingFinite DEF SeriesInv, Typed
  <2>2. today[p] + Cardinality(Owing(p)) <= DailyLimit + retries + Cardinality(refused)
    BY DEF SeriesInv, WithinPlan
  <2>3. today[p] \in Nat /\ retries \in Nat /\ DailyLimit \in Nat
    BY SeriesAssumption DEF SeriesInv, Typed, RestTyped, SeriesAssumption
  <2> QED
    BY <2>1, <2>2, <2>3
<1> QED
  BY <1>1, SeriesInductive, PTL
===============================================================================
