----------------------------- MODULE Agent_proofs -----------------------------
(***************************************************************************)
(* The wait for one answer, for every value of its limits: what an attempt *)
(* accepts is whole, but in one case that is named.  With the gate's and   *)
(* the runner's own invariants (ConcurrencyGate_proofs and                 *)
(* PromptRunner_proofs) the types of the three parts of a provider job     *)
(* hold together.                                                          *)
(***************************************************************************)
EXTENDS MCAgent, ConcurrencyGate_proofs, PromptRunner_proofs, TLAPS

-----------------------------------------------------------------------------
(* The wait for an answer (AnswerWait).                                    *)

\* The types of the page and of the loop.
AnswerStep == Polling \cup {"extract", "validate", "failed", "rejected", "accepted"}
Reply == {Empty, Echo} \cup (Plan .. Whole)
PageType == [text : Nothing .. Whole, quiet : 0 .. ForceFor, indicator : BOOLEAN,
             overview : BOOLEAN, wanting : SUBSET (Plan + 1 .. Whole),
             size : AnswerSize]
WaitType == [step : AnswerStep, first : BOOLEAN, seenResponse : BOOLEAN,
             lastText : Nothing .. Whole, lastIndicator : BOOLEAN,
             readText : Nothing .. Whole, readGeneration : BOOLEAN, slow : BOOLEAN,
             stableFor : 0 .. ForceFor, waited : 0 .. MaxWait, try : 1 .. Tries,
             response : Reply]

\* What a step leaves the page and the loop as.
PageBecomes(text, quiet, indicator) ==
  /\ answerPage' \in PageType
  /\ answerPage'.text = text /\ answerPage'.quiet = quiet
     /\ answerPage'.indicator = indicator
  /\ answerPage'.overview = answerPage.overview /\ answerPage'.wanting = answerPage.wanting
  /\ answerPage'.size = answerPage.size

WaitBecomes(step, first, seen, last, lastInd, read, readGen, slow, stable, response) ==
  /\ answerWait' \in WaitType
  /\ answerWait'.step = step /\ answerWait'.first = first /\ answerWait'.seenResponse = seen
  /\ answerWait'.lastText = last /\ answerWait'.lastIndicator = lastInd
  /\ answerWait'.readText = read /\ answerWait'.readGeneration = readGen
  /\ answerWait'.slow = slow /\ answerWait'.stableFor = stable
  /\ answerWait'.response = response

\* The loop goes to a step and forgets nothing.
WaitAt(step, response) ==
  WaitBecomes(step, answerWait.first, answerWait.seenResponse, answerWait.lastText,
              answerWait.lastIndicator, answerWait.readText, answerWait.readGeneration,
              answerWait.slow, answerWait.stableFor, response)

SamePage == PageBecomes(answerPage.text, answerPage.quiet, answerPage.indicator)
SameWait == WaitAt(answerWait.step, answerWait.response)

\* The text or the stop control differs from the last poll's.
Changed == answerWait.first \/ answerWait.readText # answerWait.lastText
             \/ answerWait.readGeneration # answerWait.lastIndicator

\* The longest silence of a page with more to come, at the end of a poll.
Silence == IF StableLimit > 2 THEN StableLimit - 2 ELSE 0

\* A page that shows this text will not be silent for longer than that.
Restless(text) ==
  /\ text # Nothing /\ text # Whole /\ (text = Plan => answerPage.overview)
  /\ text \notin answerPage.wanting

\* The loop sees the page in its past, in order.
Seen ==
  answerPage.size # "tiny" =>
    /\ answerWait.lastText <= answerPage.text
    /\ answerWait.step = "indicator" => /\ answerWait.lastText <= answerWait.readText
                                        /\ answerWait.readText <= answerPage.text
    /\ answerWait.seenResponse => answerWait.lastText # Nothing

\* The stop control goes once, when the answer is whole.
Indicated ==
  /\ ~answerWait.first =>
       /\ answerPage.indicator => answerWait.lastIndicator
       /\ answerPage.text # Whole => answerWait.lastIndicator = answerPage.indicator
  /\ answerWait.step \in {"response", "indicator"} =>
       /\ answerPage.indicator => answerWait.readGeneration
       /\ answerPage.text # Whole => answerWait.readGeneration = answerPage.indicator

\* A page that shows what the loop remembers has been silent as long as it thinks.
Synced ==
  ~answerWait.first /\ answerPage.size # "tiny" /\ answerWait.lastText = answerPage.text
    /\ answerWait.lastIndicator = answerPage.indicator
    => answerWait.stableFor <= answerPage.quiet

\* A page with more to come has been silent for no longer than a poll allows.
Silent == Restless(answerPage.text) => answerPage.quiet <= Silence

\* A page that has grown since it was read had not been silent long enough.
Overtaken ==
  answerWait.step = "indicator" /\ ~answerWait.first /\ answerPage.size # "tiny"
    /\ answerWait.lastText = answerWait.readText /\ answerWait.readText # answerPage.text
    /\ Restless(answerWait.readText) /\ answerPage.text # Whole
    => \/ answerWait.stableFor <= Silence
       \/ answerWait.slow /\ answerWait.stableFor < StableLimit

\* What the loop ends on is whole, or wanting, or will be rejected.
Extracted ==
  /\ answerWait.step = "validate" => answerWait.response # Empty
  /\ answerPage.size = "long" =>
       /\ answerWait.step = "extract" =>
            answerPage.text = Whole \/ answerWait.lastText \in answerPage.wanting
       /\ answerWait.step = "validate" =>
            \/ answerWait.response \in {Echo, Whole}
            \/ /\ answerWait.lastText \in answerPage.wanting
               /\ answerWait.response >= answerWait.lastText

\* Both are of these types.
AnswerTyped == answerPage \in PageType /\ answerWait \in WaitType

\* The inductive invariant of the wait.
AnswerInv ==
  /\ AnswerTyped /\ Seen /\ Indicated /\ Synced /\ Silent /\ Overtaken /\ Extracted
  /\ WholeUnlessResumed

\* The numbers the texts and the limits are.
LEMMA AnswerNumbers ==
  /\ Nothing = 0 /\ Plan = 1 /\ Whole = Parts + 2 /\ Echo = -1 /\ Empty = -2
  /\ Whole \in Nat /\ Parts \in Nat /\ MaxWait \in Nat /\ Tries \in Nat /\ ForceFor \in Nat
  /\ StableFor \in Nat /\ OverviewFor \in Nat /\ StableFor > 1 /\ OverviewFor > 1
  /\ ForceFor >= StableFor /\ Tries > 0
  BY AnswerAssumption DEF Nothing, Plan, Whole, Echo, Empty

\* The limit is positive, and the same for a page with the same stop control.
LEMMA LimitFacts ==
  ASSUME answerPage \in PageType
  PROVE  /\ StableLimit \in Nat /\ StableLimit > 1 /\ Silence \in Nat
            /\ Silence < StableLimit
         /\ StableLimit <= ForceFor
  BY AnswerNumbers DEF StableLimit, Silence, PageType

\* A loop that is done has seen the page silent for the limit at least.
LEMMA FinishedFacts ==
  ASSUME AnswerTyped, AssistantFinished
  PROVE  /\ ~Changed
         /\ answerWait.seenResponse \/ answerWait.readText # Nothing
         /\ answerWait.readText = Plan => answerPage.overview
         /\ answerWait.stableFor >= StableLimit
<1>1. /\ answerPage.indicator \in BOOLEAN /\ answerPage.overview \in BOOLEAN
      /\ answerWait.stableFor \in Nat /\ answerWait.first \in BOOLEAN
  BY AnswerNumbers DEF AnswerTyped, PageType, WaitType
<1>2. ~Changed
  BY DEF AssistantFinished, Steady, Changed
<1> QED
  BY <1>1, <1>2, AnswerNumbers DEF AssistantFinished, Steady, Provisional, StableLimit

\* The fields.
LEMMA AnswerFields ==
  ASSUME AnswerTyped
  PROVE  /\ answerPage.text \in Nothing .. Whole /\ answerPage.quiet \in 0 .. ForceFor
         /\ answerPage.indicator \in BOOLEAN /\ answerPage.overview \in BOOLEAN
         /\ answerPage.wanting \subseteq (Plan + 1 .. Whole) /\ answerPage.size \in AnswerSize
         /\ answerWait.step \in AnswerStep /\ answerWait.first \in BOOLEAN
         /\ answerWait.seenResponse \in BOOLEAN /\ answerWait.lastText \in Nothing .. Whole
         /\ answerWait.lastIndicator \in BOOLEAN /\ answerWait.readText \in Nothing .. Whole
         /\ answerWait.readGeneration \in BOOLEAN /\ answerWait.slow \in BOOLEAN
         /\ answerWait.stableFor \in 0 .. ForceFor /\ answerWait.waited \in 0 .. MaxWait
         /\ answerWait.try \in 1 .. Tries /\ answerWait.response \in Reply
  BY DEF AnswerTyped, PageType, WaitType

\* What is left alone.
LEMMA AnswerSame ==
  ASSUME AnswerTyped
  PROVE  /\ answerPage' = answerPage => SamePage
         /\ answerWait' = answerWait => SameWait
<1>1. answerPage' = answerPage => SamePage
  BY DEF AnswerTyped, SamePage, PageBecomes
<1>2. answerWait' = answerWait => SameWait
  BY DEF AnswerTyped, SameWait, WaitAt, WaitBecomes
<1> QED
  BY <1>1, <1>2

\* A capped counter stays within its bound.
LEMMA CappedIn ==
  ASSUME NEW limit \in Nat, NEW n \in 0 .. limit
  PROVE  Capped(n, limit) \in 0 .. limit
  BY DEF Capped

\* The page shows more.
LEMMA PageGrowsEffect ==
  ASSUME AnswerTyped, PageGrows
  PROVE  /\ SameWait
         /\ \E text \in answerPage.text + 1 .. Whole :
              PageBecomes(text, 0, answerPage.indicator)
<1>1. answerPage \in PageType /\ answerWait \in WaitType
  BY DEF AnswerTyped
<1>2. PICK text \in answerPage.text + 1 .. Whole :
        answerPage' = [answerPage EXCEPT !.text = text, !.quiet = 0]
  BY DEF PageGrows
<1>3. text \in Nothing .. Whole /\ 0 \in 0 .. ForceFor
  BY <1>2, AnswerFields, AnswerNumbers
<1>4. PageBecomes(text, 0, answerPage.indicator)
  BY ONLY <1>1, <1>2, <1>3 DEF PageType, PageBecomes
<1> QED
  BY <1>2, <1>4, AnswerSame DEF PageGrows

\* The stop control goes.
LEMMA PageStopsEffect ==
  ASSUME AnswerTyped, PageStops
  PROVE  /\ SameWait /\ answerPage.text = Whole /\ answerPage.indicator
         /\ PageBecomes(answerPage.text, 0, FALSE)
<1>1. answerPage \in PageType /\ answerWait \in WaitType
  BY DEF AnswerTyped
<1>2. answerPage' = [answerPage EXCEPT !.indicator = FALSE, !.quiet = 0]
  BY DEF PageStops
<1>3. 0 \in 0 .. ForceFor
  BY AnswerNumbers
<1>4. PageBecomes(answerPage.text, 0, FALSE)
  BY ONLY <1>1, <1>2, <1>3 DEF PageType, PageBecomes
<1> QED
  BY <1>4, AnswerSame DEF PageStops

\* Time passes.
LEMMA AnswerTickEffect ==
  ASSUME AnswerTyped, AnswerTick
  PROVE  /\ answerWait.step \in Polling /\ ~answerWait.slow /\ ~MustGrow
         /\ PageBecomes(answerPage.text, Capped(answerPage.quiet, ForceFor),
                        answerPage.indicator)
         /\ WaitBecomes(answerWait.step, answerWait.first, answerWait.seenResponse,
              answerWait.lastText, answerWait.lastIndicator, answerWait.readText,
              answerWait.readGeneration, answerWait.step # "generation",
              Capped(answerWait.stableFor, ForceFor), answerWait.response)
<1>1. answerPage \in PageType /\ answerWait \in WaitType
  BY DEF AnswerTyped
<1>2. /\ answerPage' = [answerPage EXCEPT !.quiet = Capped(answerPage.quiet, ForceFor)]
      /\ answerWait' = [answerWait EXCEPT
              !.slow = answerWait.step # "generation",
              !.stableFor = Capped(answerWait.stableFor, ForceFor),
              !.waited = Capped(answerWait.waited, MaxWait)]
  BY <1>1 DEF AnswerTick, PageType, WaitType
<1>3. /\ Capped(answerPage.quiet, ForceFor) \in 0 .. ForceFor
      /\ Capped(answerWait.stableFor, ForceFor) \in 0 .. ForceFor
      /\ Capped(answerWait.waited, MaxWait) \in 0 .. MaxWait
      /\ (answerWait.step # "generation") \in BOOLEAN
  BY AnswerFields, AnswerNumbers, CappedIn
<1>4. PageBecomes(answerPage.text, Capped(answerPage.quiet, ForceFor), answerPage.indicator)
  BY ONLY <1>1, <1>2, <1>3 DEF PageType, PageBecomes
<1>5. WaitBecomes(answerWait.step, answerWait.first, answerWait.seenResponse,
        answerWait.lastText, answerWait.lastIndicator, answerWait.readText,
        answerWait.readGeneration, answerWait.step # "generation",
        Capped(answerWait.stableFor, ForceFor), answerWait.response)
  BY ONLY <1>1, <1>2, <1>3 DEF WaitType, WaitBecomes
<1> QED
  BY <1>4, <1>5 DEF AnswerTick

\* The first read of a poll.
LEMMA ReadGenerationEffect ==
  ASSUME AnswerTyped, ReadGeneration
  PROVE  /\ SamePage /\ answerWait.step = "generation"
         /\ WaitBecomes("response", answerWait.first, answerWait.seenResponse,
              answerWait.lastText, answerWait.lastIndicator, answerWait.readText,
              answerPage.indicator, answerWait.slow, answerWait.stableFor,
              answerWait.response)
<1>1. answerPage \in PageType /\ answerWait \in WaitType
  BY DEF AnswerTyped
<1>2. answerWait' = [answerWait EXCEPT !.step = "response",
                                      !.readGeneration = answerPage.indicator]
  BY DEF ReadGeneration
<1>3. answerPage.indicator \in BOOLEAN
  BY AnswerFields
<1>4. WaitBecomes("response", answerWait.first, answerWait.seenResponse,
        answerWait.lastText, answerWait.lastIndicator, answerWait.readText,
        answerPage.indicator, answerWait.slow, answerWait.stableFor, answerWait.response)
  BY ONLY <1>1, <1>2, <1>3 DEF WaitType, WaitBecomes, AnswerStep, Polling
<1> QED
  BY <1>4, AnswerSame DEF ReadGeneration

\* The second read of a poll.
LEMMA ReadResponseEffect ==
  ASSUME AnswerTyped, ReadResponse
  PROVE  /\ SamePage /\ answerWait.step = "response"
         /\ \E text \in Nothing .. Whole :
              /\ answerPage.size # "tiny" => text = answerPage.text
              /\ WaitBecomes("indicator", answerWait.first, answerWait.seenResponse,
                   answerWait.lastText, answerWait.lastIndicator, text,
                   answerWait.readGeneration, answerWait.slow, answerWait.stableFor,
                   answerWait.response)
<1>1. answerPage \in PageType /\ answerWait \in WaitType
  BY DEF AnswerTyped
<1> DEFINE text == IF answerPage.size = "tiny" THEN Nothing ELSE answerPage.text
<1>2. answerWait' = [answerWait EXCEPT !.step = "indicator", !.readText = text]
  BY DEF ReadResponse
<1>3. text \in Nothing .. Whole /\ (answerPage.size # "tiny" => text = answerPage.text)
  BY AnswerFields, AnswerNumbers
<1> HIDE DEF text
<1>4. WaitBecomes("indicator", answerWait.first, answerWait.seenResponse,
        answerWait.lastText, answerWait.lastIndicator, text, answerWait.readGeneration,
        answerWait.slow, answerWait.stableFor, answerWait.response)
  BY ONLY <1>1, <1>2, <1>3 DEF WaitType, WaitBecomes, AnswerStep, Polling
<1> QED
  BY <1>3, <1>4, AnswerSame DEF ReadResponse

\* The third read of a poll, and its verdict.
LEMMA ReadIndicatorEffect ==
  ASSUME AnswerTyped, ReadIndicator
  PROVE  /\ SamePage /\ answerWait.step = "indicator"
         /\ \E step \in {"generation", "extract"}, seen \in BOOLEAN,
            stable \in 0 .. ForceFor :
              /\ step = "extract" => AssistantFinished
              /\ seen => \/ answerWait.readText # Nothing
                         \/ ~answerWait.first /\ answerWait.seenResponse
              /\ stable = IF Changed THEN 0 ELSE answerWait.stableFor
              /\ WaitBecomes(step, FALSE, seen, answerWait.readText,
                   answerWait.readGeneration, answerWait.readText,
                   answerWait.readGeneration, FALSE, stable, answerWait.response)
<1>1. answerPage \in PageType /\ answerWait \in WaitType
  BY DEF AnswerTyped
<1> DEFINE seen == IF answerWait.first THEN answerWait.readText # Nothing
                  ELSE answerWait.seenResponse \/ answerWait.readText # Nothing
           stable == IF Changed THEN 0 ELSE answerWait.stableFor
           step == IF AssistantFinished THEN "extract" ELSE "generation"
<1>2. Remembered = [answerWait EXCEPT !.first = FALSE, !.seenResponse = seen,
                      !.lastText = answerWait.readText,
                      !.lastIndicator = answerWait.readGeneration, !.stableFor = stable]
  BY <1>1 DEF Remembered, Changed, WaitType
<1>3. /\ seen \in BOOLEAN /\ stable \in 0 .. ForceFor /\ step \in {"generation", "extract"}
      /\ step = "extract" => AssistantFinished
      /\ seen => \/ answerWait.readText # Nothing
                 \/ ~answerWait.first /\ answerWait.seenResponse
      /\ answerWait.readText \in Nothing .. Whole /\ answerWait.readGeneration \in BOOLEAN
  <2>1. /\ answerWait.seenResponse \in BOOLEAN /\ answerWait.stableFor \in 0 .. ForceFor
        /\ answerWait.readText \in Nothing .. Whole /\ answerWait.readGeneration \in BOOLEAN
        /\ 0 \in 0 .. ForceFor
    BY AnswerFields, AnswerNumbers
  <2>2. seen \in BOOLEAN
    BY <2>1
  <2>3. stable \in 0 .. ForceFor
    BY <2>1
  <2>4. seen => \/ answerWait.readText # Nothing
                \/ ~answerWait.first /\ answerWait.seenResponse
    BY <2>1
  <2>5. step \in {"generation", "extract"} /\ (step = "extract" => AssistantFinished)
    OBVIOUS
  <2> QED
    BY <2>1, <2>2, <2>3, <2>4, <2>5
<1>4. answerWait' = [Remembered EXCEPT !.step = step, !.slow = FALSE]
  BY DEF ReadIndicator, Polled
<1>5. stable = IF Changed THEN 0 ELSE answerWait.stableFor
  OBVIOUS
<1> HIDE DEF seen, stable, step
<1>6. /\ Remembered \in WaitType /\ Remembered.first = FALSE
         /\ Remembered.seenResponse = seen
      /\ Remembered.lastText = answerWait.readText /\ Remembered.stableFor = stable
      /\ Remembered.lastIndicator = answerWait.readGeneration
      /\ Remembered.readText = answerWait.readText
      /\ Remembered.readGeneration = answerWait.readGeneration
      /\ Remembered.response = answerWait.response
  BY ONLY <1>1, <1>2, <1>3 DEF WaitType
<1>7. step \in AnswerStep
  BY <1>3 DEF AnswerStep, Polling
<1>8. WaitBecomes(step, FALSE, seen, answerWait.readText, answerWait.readGeneration,
        answerWait.readText, answerWait.readGeneration, FALSE, stable, answerWait.response)
  BY ONLY <1>4, <1>6, <1>7 DEF WaitType, WaitBecomes
<1>9. SamePage /\ answerWait.step = "indicator"
  BY AnswerSame DEF ReadIndicator
<1> QED
  BY <1>3, <1>5, <1>8, <1>9

\* The loop gives up.
LEMMA GivesUpEffect ==
  ASSUME AnswerTyped, WaitTimesOut \/ AnswerFails
  PROVE  SamePage /\ WaitAt("failed", answerWait.response)
<1>1. answerPage \in PageType /\ answerWait \in WaitType
  BY DEF AnswerTyped
<1>2. answerWait' = [answerWait EXCEPT !.step = "failed"] /\ answerPage' = answerPage
  BY DEF WaitTimesOut, AnswerFails
<1>3. WaitAt("failed", answerWait.response)
  BY ONLY <1>1, <1>2 DEF WaitType, WaitAt, WaitBecomes, AnswerStep
<1> QED
  BY <1>2, <1>3, AnswerSame

\* The answer is read.
LEMMA ExtractEffect ==
  ASSUME AnswerTyped, Extract
  PROVE  /\ SamePage /\ answerWait.step = "extract"
         /\ \/ WaitAt("extract", answerWait.response)
            \/ WaitAt("failed", answerWait.response)
            \/ \E response \in {answerPage.text, Echo} :
                 response # Nothing /\ WaitAt("validate", response)
<1>1. answerPage \in PageType /\ answerWait \in WaitType
  BY DEF AnswerTyped
<1>2. answerWait.step = "extract" /\ answerPage' = answerPage
  BY DEF Extract
<1>3. PICK response \in {answerPage.text, Empty, Echo} :
        IF response \in {Nothing, Empty}
        THEN answerWait' = IF answerWait.try < Tries
                           THEN [answerWait EXCEPT !.try = answerWait.try + 1]
                           ELSE [answerWait EXCEPT !.step = "failed"]
        ELSE answerWait' = [answerWait EXCEPT !.step = "validate", !.response = response]
  BY <1>1 DEF Extract, WaitType
<1>4. CASE response \notin {Nothing, Empty}
  <2>1. response \in Reply /\ response # Nothing /\ response \in {answerPage.text, Echo}
    BY <1>3, <1>4, AnswerFields, AnswerNumbers DEF Reply
  <2>2. answerWait' = [answerWait EXCEPT !.step = "validate", !.response = response]
    BY <1>3, <1>4
  <2>3. WaitAt("validate", response)
    BY ONLY <1>1, <2>1, <2>2 DEF WaitType, WaitAt, WaitBecomes, AnswerStep
  <2> QED
    BY <1>2, <2>1, <2>3, AnswerSame
<1>5. CASE response \in {Nothing, Empty} /\ answerWait.try < Tries
  <2>1. answerWait' = [answerWait EXCEPT !.try = answerWait.try + 1]
        /\ answerWait.try + 1 \in 1 .. Tries
    BY <1>3, <1>5, AnswerFields, AnswerNumbers
  <2>2. WaitAt("extract", answerWait.response)
    BY ONLY <1>1, <1>2, <2>1 DEF WaitType, WaitAt, WaitBecomes
  <2> QED
    BY <1>2, <2>2, AnswerSame
<1>6. CASE response \in {Nothing, Empty} /\ ~(answerWait.try < Tries)
  <2>1. answerWait' = [answerWait EXCEPT !.step = "failed"]
    BY <1>3, <1>6
  <2>2. WaitAt("failed", answerWait.response)
    BY ONLY <1>1, <2>1 DEF WaitType, WaitAt, WaitBecomes, AnswerStep
  <2> QED
    BY <1>2, <2>2, AnswerSame
<1> QED
  BY <1>4, <1>5, <1>6

\* The answer is judged.
LEMMA ValidateEffect ==
  ASSUME AnswerTyped, Validate
  PROVE  /\ SamePage /\ answerWait.step = "validate"
         /\ \/ WaitAt("rejected", answerWait.response)
            \/ /\ answerWait.response # Echo /\ ~Incomplete(answerWait.response)
               /\ answerPage.size = "long" /\ WaitAt("accepted", answerWait.response)
<1>1. answerPage \in PageType /\ answerWait \in WaitType
  BY DEF AnswerTyped
<1> DEFINE bad == answerWait.response = Echo \/ Incomplete(answerWait.response)
                    \/ answerPage.size # "long"
<1>2. /\ answerWait.step = "validate" /\ answerPage' = answerPage
      /\ answerWait' = [answerWait EXCEPT !.step = IF bad THEN "rejected" ELSE "accepted"]
  BY DEF Validate
<1> HIDE DEF bad
<1>3. CASE bad
  <2>1. answerWait' = [answerWait EXCEPT !.step = "rejected"]
    BY <1>2, <1>3
  <2>2. WaitAt("rejected", answerWait.response)
    BY ONLY <1>1, <2>1 DEF WaitType, WaitAt, WaitBecomes, AnswerStep
  <2> QED
    BY <1>2, <2>2, AnswerSame
<1>4. CASE ~bad
  <2>1. answerWait' = [answerWait EXCEPT !.step = "accepted"]
    BY <1>2, <1>4
  <2>2. WaitAt("accepted", answerWait.response)
    BY ONLY <1>1, <2>1 DEF WaitType, WaitAt, WaitBecomes, AnswerStep
  <2> QED
    BY <1>2, <1>4, <2>2, AnswerSame DEF bad
<1> QED
  BY <1>3, <1>4

\* It holds before the first poll.
LEMMA AnswerInitInv == AnswerInit => AnswerInv
<1> SUFFICES ASSUME AnswerInit PROVE AnswerInv
  OBVIOUS
<1>1. /\ answerPage.text = Nothing /\ answerPage.quiet = 0 /\ answerPage \in PageType
  BY AnswerNumbers DEF AnswerInit, PageType
<1>2. /\ answerWait.step = "generation" /\ answerWait.first = TRUE
      /\ answerWait.seenResponse = FALSE /\ answerWait.lastText = Nothing
  BY DEF AnswerInit
<1>3. answerWait \in WaitType
  BY AnswerNumbers DEF AnswerInit, WaitType, AnswerStep, Polling, Reply
<1> QED
  BY <1>1, <1>2, <1>3, AnswerNumbers DEF AnswerInv, AnswerTyped, Seen, Indicated, Synced,
     Silent, Restless, Overtaken, Extracted, WholeUnlessResumed

\* A page that shows more keeps it.
LEMMA PageGrowsInv ==
  ASSUME AnswerInv, PageGrows
  PROVE  AnswerInv'
<1>0. AnswerTyped
  BY DEF AnswerInv
<1> USE AnswerNumbers, AnswerFields, LimitFacts
<1>e. /\ SameWait
      /\ \E text \in answerPage.text + 1 .. Whole : PageBecomes(text, 0,
         answerPage.indicator)
  BY <1>0, PageGrowsEffect
<1>1. AnswerTyped'
  BY <1>0, <1>e DEF AnswerInv, PageBecomes, WaitBecomes, WaitAt, SamePage, SameWait,
     AnswerTyped
<1>2. Seen'
  BY <1>0, <1>e DEF AnswerInv, PageBecomes, WaitBecomes, WaitAt, SamePage, SameWait, Seen,
     AnswerTyped
<1>3. Indicated'
  BY <1>0, <1>e DEF AnswerInv, PageBecomes, WaitBecomes, WaitAt, SamePage, SameWait,
     Indicated, AnswerTyped
<1>4. Synced'
  BY <1>0, <1>e DEF AnswerInv, PageBecomes, WaitBecomes, WaitAt, SameWait, Seen, Synced
<1>5. Silent'
  BY <1>0, <1>e DEF AnswerInv, PageBecomes, WaitBecomes, WaitAt, SamePage, SameWait, Silent,
     AnswerTyped, StableLimit, Silence, Restless
<1>6. Overtaken'
  <2>1. PICK text \in answerPage.text + 1 .. Whole : PageBecomes(text, 0,
        answerPage.indicator)
    BY <1>e
  <2>2. answerPage.text # Whole /\ StableLimit' = StableLimit /\ Silence' = Silence
    BY <1>0, <2>1 DEF PageBecomes, StableLimit, Silence
  <2>3. Restless(answerWait.readText)' => Restless(answerWait.readText)
    BY <1>e, <2>1 DEF PageBecomes, SameWait, WaitAt, WaitBecomes, Restless
  <2>4. CASE answerWait.readText = answerPage.text
    <3>1. ASSUME ~answerWait.first, answerPage.size # "tiny", Restless(answerWait.readText),
                 answerWait.lastText = answerWait.readText
          PROVE  answerWait.stableFor <= Silence
      <4>1. answerWait.stableFor <= answerPage.quiet
        BY <2>2, <2>4, <3>1 DEF AnswerInv, Indicated, Synced
      <4>2. answerPage.quiet <= Silence
        BY <2>4, <3>1 DEF AnswerInv, Silent
      <4> QED
        BY <1>0, <4>1, <4>2 DEF AnswerTyped
    <3> QED
      BY <1>e, <2>1, <2>2, <2>3, <3>1 DEF SameWait, WaitAt, WaitBecomes, PageBecomes,
         Overtaken
  <2>5. CASE answerWait.readText # answerPage.text
    BY <1>0, <1>e, <2>1, <2>2, <2>3, <2>5 DEF AnswerInv, SameWait, WaitAt, WaitBecomes,
       PageBecomes,
       Overtaken
  <2> QED
    BY <2>4, <2>5
<1>7. Extracted'
  BY <1>0, <1>e DEF AnswerInv, PageBecomes, WaitBecomes, WaitAt, SamePage, SameWait,
     Extracted, AnswerTyped
<1>8. WholeUnlessResumed'
  BY <1>0, <1>e DEF AnswerInv, PageBecomes, WaitBecomes, WaitAt, SamePage, SameWait,
     WholeUnlessResumed, AnswerTyped
<1> QED
  BY <1>1, <1>2, <1>3, <1>4, <1>5, <1>6, <1>7, <1>8 DEF AnswerInv

\* The stop control going keeps it.
LEMMA PageStopsInv ==
  ASSUME AnswerInv, PageStops
  PROVE  AnswerInv'
<1>0. AnswerTyped
  BY DEF AnswerInv
<1> USE AnswerNumbers, AnswerFields, LimitFacts
<1>e. /\ SameWait /\ answerPage.text = Whole /\ answerPage.indicator
      /\ PageBecomes(answerPage.text, 0, FALSE)
  BY <1>0, PageStopsEffect
<1>1. AnswerTyped'
  BY <1>0, <1>e DEF AnswerInv, PageBecomes, WaitBecomes, WaitAt, SamePage, SameWait,
     AnswerTyped
<1>2. Seen'
  BY <1>0, <1>e DEF AnswerInv, PageBecomes, WaitBecomes, WaitAt, SamePage, SameWait, Seen,
     AnswerTyped
<1>3. Indicated'
  BY <1>0, <1>e DEF AnswerInv, PageBecomes, WaitBecomes, WaitAt, SamePage, SameWait,
     Indicated, AnswerTyped
<1>4. Synced'
  BY <1>0, <1>e DEF AnswerInv, PageBecomes, WaitBecomes, WaitAt, SameWait, Indicated, Synced
<1>5. Silent'
  BY <1>0, <1>e DEF AnswerInv, PageBecomes, WaitBecomes, WaitAt, SamePage, SameWait, Silent,
     AnswerTyped, StableLimit, Silence, Restless
<1>6. Overtaken'
  BY <1>0, <1>e DEF AnswerInv, PageBecomes, WaitBecomes, WaitAt, SamePage, SameWait,
     Overtaken, AnswerTyped, StableLimit, Silence, Restless
<1>7. Extracted'
  BY <1>0, <1>e DEF AnswerInv, PageBecomes, WaitBecomes, WaitAt, SamePage, SameWait,
     Extracted, AnswerTyped
<1>8. WholeUnlessResumed'
  BY <1>0, <1>e DEF AnswerInv, PageBecomes, WaitBecomes, WaitAt, SamePage, SameWait,
     WholeUnlessResumed, AnswerTyped
<1> QED
  BY <1>1, <1>2, <1>3, <1>4, <1>5, <1>6, <1>7, <1>8 DEF AnswerInv

\* The passage of time keeps it.
LEMMA AnswerTickInv ==
  ASSUME AnswerInv, AnswerTick
  PROVE  AnswerInv'
<1>0. AnswerTyped
  BY DEF AnswerInv
<1> USE AnswerNumbers, AnswerFields, LimitFacts
<1>e. /\ answerWait.step \in Polling /\ ~answerWait.slow /\ ~MustGrow
      /\ PageBecomes(answerPage.text, Capped(answerPage.quiet, ForceFor),
         answerPage.indicator)
      /\ WaitBecomes(answerWait.step, answerWait.first, answerWait.seenResponse,
           answerWait.lastText, answerWait.lastIndicator, answerWait.readText,
           answerWait.readGeneration, answerWait.step # "generation",
           Capped(answerWait.stableFor, ForceFor), answerWait.response)
  BY <1>0, AnswerTickEffect
<1>1. AnswerTyped'
  BY <1>0, <1>e DEF AnswerInv, PageBecomes, WaitBecomes, WaitAt, SamePage, SameWait,
     AnswerTyped, MustGrow, Capped, Polling
<1>2. Seen'
  BY <1>0, <1>e DEF AnswerInv, PageBecomes, WaitBecomes, WaitAt, SamePage, SameWait, Seen,
     AnswerTyped, MustGrow, Capped, Polling
<1>3. Indicated'
  BY <1>0, <1>e DEF AnswerInv, PageBecomes, WaitBecomes, WaitAt, SamePage, SameWait,
     Indicated, AnswerTyped, MustGrow, Capped, Polling
<1>4. Synced'
  BY <1>0, <1>e DEF AnswerInv, PageBecomes, WaitBecomes, WaitAt, SamePage, SameWait, Synced,
     AnswerTyped, MustGrow, Capped, Polling
<1>5. Silent'
  BY <1>0, <1>e DEF AnswerInv, PageBecomes, WaitBecomes, WaitAt, SamePage, SameWait, Silent,
     AnswerTyped, StableLimit, Silence, Restless, MustGrow, Capped, Polling
<1>6. Overtaken'
  <2>1. StableLimit' = StableLimit /\ Silence' = Silence
    BY <1>0, <1>e DEF PageBecomes, StableLimit, Silence
  <2>2. Restless(answerWait.readText)' => Restless(answerWait.readText)
    BY <1>e DEF PageBecomes, WaitBecomes, Restless
  <2>3. answerWait.stableFor <= Silence
          => Capped(answerWait.stableFor, ForceFor) < StableLimit
    BY <1>0 DEF Capped, Silence, AnswerTyped
  <2> QED
    BY <1>0, <1>e, <2>1, <2>2, <2>3 DEF AnswerInv, WaitBecomes, PageBecomes, Overtaken
<1>7. Extracted'
  BY <1>0, <1>e DEF AnswerInv, PageBecomes, WaitBecomes, WaitAt, SamePage, SameWait,
     Extracted, AnswerTyped, MustGrow, Capped, Polling
<1>8. WholeUnlessResumed'
  BY <1>0, <1>e DEF AnswerInv, PageBecomes, WaitBecomes, WaitAt, SamePage, SameWait,
     WholeUnlessResumed, AnswerTyped, MustGrow, Capped, Polling
<1> QED
  BY <1>1, <1>2, <1>3, <1>4, <1>5, <1>6, <1>7, <1>8 DEF AnswerInv

\* The first read keeps it.
LEMMA ReadGenerationInv ==
  ASSUME AnswerInv, ReadGeneration
  PROVE  AnswerInv'
<1>0. AnswerTyped
  BY DEF AnswerInv
<1> USE AnswerNumbers, AnswerFields, LimitFacts
<1>e. /\ SamePage /\ answerWait.step = "generation"
      /\ WaitBecomes("response", answerWait.first, answerWait.seenResponse,
           answerWait.lastText, answerWait.lastIndicator, answerWait.readText,
           answerPage.indicator, answerWait.slow, answerWait.stableFor, answerWait.response)
  BY <1>0, ReadGenerationEffect
<1>1. AnswerTyped'
  BY <1>0, <1>e DEF AnswerInv, PageBecomes, WaitBecomes, WaitAt, SamePage, SameWait,
     AnswerTyped
<1>2. Seen'
  BY <1>0, <1>e DEF AnswerInv, PageBecomes, WaitBecomes, WaitAt, SamePage, SameWait, Seen,
     AnswerTyped
<1>3. Indicated'
  BY <1>0, <1>e DEF AnswerInv, PageBecomes, WaitBecomes, WaitAt, SamePage, SameWait,
     Indicated, AnswerTyped
<1>4. Synced'
  BY <1>0, <1>e DEF AnswerInv, PageBecomes, WaitBecomes, WaitAt, SamePage, SameWait, Synced,
     AnswerTyped
<1>5. Silent'
  BY <1>0, <1>e DEF AnswerInv, PageBecomes, WaitBecomes, WaitAt, SamePage, SameWait, Silent,
     AnswerTyped, StableLimit, Silence, Restless
<1>6. Overtaken'
  BY <1>0, <1>e DEF AnswerInv, PageBecomes, WaitBecomes, WaitAt, SamePage, SameWait,
     Overtaken, AnswerTyped, StableLimit, Silence, Restless
<1>7. Extracted'
  BY <1>0, <1>e DEF AnswerInv, PageBecomes, WaitBecomes, WaitAt, SamePage, SameWait,
     Extracted, AnswerTyped
<1>8. WholeUnlessResumed'
  BY <1>0, <1>e DEF AnswerInv, PageBecomes, WaitBecomes, WaitAt, SamePage, SameWait,
     WholeUnlessResumed, AnswerTyped
<1> QED
  BY <1>1, <1>2, <1>3, <1>4, <1>5, <1>6, <1>7, <1>8 DEF AnswerInv

\* The second read keeps it.
LEMMA ReadResponseInv ==
  ASSUME AnswerInv, ReadResponse
  PROVE  AnswerInv'
<1>0. AnswerTyped
  BY DEF AnswerInv
<1> USE AnswerNumbers, AnswerFields, LimitFacts
<1>e. /\ SamePage /\ answerWait.step = "response"
      /\ \E text \in Nothing .. Whole :
           /\ answerPage.size # "tiny" => text = answerPage.text
           /\ WaitBecomes("indicator", answerWait.first, answerWait.seenResponse,
                answerWait.lastText, answerWait.lastIndicator, text,
                answerWait.readGeneration, answerWait.slow, answerWait.stableFor,
                answerWait.response)
  BY <1>0, ReadResponseEffect
<1>1. AnswerTyped'
  BY <1>0, <1>e DEF AnswerInv, PageBecomes, WaitBecomes, WaitAt, SamePage, SameWait,
     AnswerTyped
<1>2. Seen'
  BY <1>0, <1>e DEF AnswerInv, PageBecomes, WaitBecomes, WaitAt, SamePage, SameWait, Seen,
     AnswerTyped
<1>3. Indicated'
  BY <1>0, <1>e DEF AnswerInv, PageBecomes, WaitBecomes, WaitAt, SamePage, SameWait,
     Indicated, AnswerTyped
<1>4. Synced'
  BY <1>0, <1>e DEF AnswerInv, PageBecomes, WaitBecomes, WaitAt, SamePage, SameWait, Synced,
     AnswerTyped
<1>5. Silent'
  BY <1>0, <1>e DEF AnswerInv, PageBecomes, WaitBecomes, WaitAt, SamePage, SameWait, Silent,
     AnswerTyped, StableLimit, Silence, Restless
<1>6. Overtaken'
  BY <1>0, <1>e DEF AnswerInv, PageBecomes, WaitBecomes, WaitAt, SamePage, SameWait,
     Overtaken, AnswerTyped, StableLimit, Silence, Restless
<1>7. Extracted'
  BY <1>0, <1>e DEF AnswerInv, PageBecomes, WaitBecomes, WaitAt, SamePage, SameWait,
     Extracted, AnswerTyped
<1>8. WholeUnlessResumed'
  BY <1>0, <1>e DEF AnswerInv, PageBecomes, WaitBecomes, WaitAt, SamePage, SameWait,
     WholeUnlessResumed, AnswerTyped
<1> QED
  BY <1>1, <1>2, <1>3, <1>4, <1>5, <1>6, <1>7, <1>8 DEF AnswerInv

\* The verdict of a poll keeps it: a page with more to come is not left.
LEMMA ReadIndicatorInv ==
  ASSUME AnswerInv, ReadIndicator
  PROVE  AnswerInv'
<1>0. AnswerTyped
  BY DEF AnswerInv
<1> USE AnswerNumbers, AnswerFields, LimitFacts
<1>e. /\ SamePage /\ answerWait.step = "indicator"
      /\ \E step \in {"generation", "extract"}, seen \in BOOLEAN, stable \in 0 .. ForceFor :
           /\ step = "extract" => AssistantFinished
           /\ seen => \/ answerWait.readText # Nothing
                      \/ ~answerWait.first /\ answerWait.seenResponse
           /\ stable = IF Changed THEN 0 ELSE answerWait.stableFor
           /\ WaitBecomes(step, FALSE, seen, answerWait.readText,
                answerWait.readGeneration, answerWait.readText,
                answerWait.readGeneration, FALSE, stable, answerWait.response)
  BY <1>0, ReadIndicatorEffect
<1>1. AnswerTyped'
  BY <1>0, <1>e DEF AnswerInv, PageBecomes, WaitBecomes, WaitAt, SamePage, SameWait,
     AnswerTyped, Changed
<1>2. Seen'
  BY <1>0, <1>e DEF AnswerInv, PageBecomes, WaitBecomes, WaitAt, SamePage, SameWait, Seen,
     AnswerTyped, Changed
<1>3. Indicated'
  BY <1>0, <1>e DEF AnswerInv, PageBecomes, WaitBecomes, WaitAt, SamePage, SameWait,
     Indicated, AnswerTyped, Changed
<1>4. Synced'
  BY <1>0, <1>e DEF AnswerInv, PageBecomes, WaitBecomes, WaitAt, SamePage, SameWait, Synced,
     AnswerTyped, Changed
<1>5. Silent'
  BY <1>0, <1>e DEF AnswerInv, PageBecomes, WaitBecomes, WaitAt, SamePage, SameWait, Silent,
     AnswerTyped, StableLimit, Silence, Restless, Changed
<1>6. Overtaken'
  BY <1>0, <1>e DEF AnswerInv, PageBecomes, WaitBecomes, WaitAt, SamePage, SameWait,
     Overtaken, AnswerTyped, StableLimit, Silence, Restless, Changed
<1>7. Extracted'
  <2>1. ASSUME AssistantFinished, answerPage.size = "long",
               answerWait.readText \notin answerPage.wanting, answerPage.text # Whole
        PROVE  FALSE
    <3>1. /\ ~Changed
          /\ answerWait.seenResponse \/ answerWait.readText # Nothing
          /\ answerWait.readText = Plan => answerPage.overview
          /\ answerWait.stableFor >= StableLimit
      BY <1>0, <2>1, FinishedFacts
    <3>2. /\ ~answerWait.first /\ answerWait.readText = answerWait.lastText
          /\ answerWait.readGeneration = answerWait.lastIndicator
      BY <3>1 DEF Changed
    <3>3. Restless(answerWait.readText)
      BY <1>0, <1>e, <2>1, <3>1, <3>2 DEF AnswerInv, Seen, Restless
    <3>4. CASE answerWait.readText = answerPage.text
      BY <1>0, <1>e, <2>1, <3>1, <3>2, <3>3, <3>4 DEF AnswerInv, Synced, Silent, Indicated,
         AnswerTyped
    <3>5. CASE answerWait.readText # answerPage.text
      BY <1>0, <1>e, <2>1, <3>1, <3>2, <3>3, <3>5 DEF AnswerInv, Overtaken, AnswerTyped
    <3> QED
      BY <3>4, <3>5
  <2> QED
    BY <1>0, <1>e, <2>1 DEF PageBecomes, WaitBecomes, SamePage, Extracted
<1>8. WholeUnlessResumed'
  BY <1>0, <1>e DEF AnswerInv, PageBecomes, WaitBecomes, WaitAt, SamePage, SameWait,
     WholeUnlessResumed, AnswerTyped, Changed
<1> QED
  BY <1>1, <1>2, <1>3, <1>4, <1>5, <1>6, <1>7, <1>8 DEF AnswerInv

\* Giving up keeps it.
LEMMA GivesUpInv ==
  ASSUME AnswerInv, WaitTimesOut \/ AnswerFails
  PROVE  AnswerInv'
<1>0. AnswerTyped
  BY DEF AnswerInv
<1> USE AnswerNumbers, AnswerFields, LimitFacts
<1>e. SamePage /\ WaitAt("failed", answerWait.response)
  BY <1>0, GivesUpEffect
<1>1. AnswerTyped'
  BY <1>0, <1>e DEF AnswerInv, PageBecomes, WaitBecomes, WaitAt, SamePage, SameWait,
     AnswerTyped
<1>2. Seen'
  BY <1>0, <1>e DEF AnswerInv, PageBecomes, WaitBecomes, WaitAt, SamePage, SameWait, Seen,
     AnswerTyped
<1>3. Indicated'
  BY <1>0, <1>e DEF AnswerInv, PageBecomes, WaitBecomes, WaitAt, SamePage, SameWait,
     Indicated, AnswerTyped
<1>4. Synced'
  BY <1>0, <1>e DEF AnswerInv, PageBecomes, WaitBecomes, WaitAt, SamePage, SameWait, Synced,
     AnswerTyped
<1>5. Silent'
  BY <1>0, <1>e DEF AnswerInv, PageBecomes, WaitBecomes, WaitAt, SamePage, SameWait, Silent,
     AnswerTyped, StableLimit, Silence, Restless
<1>6. Overtaken'
  BY <1>0, <1>e DEF AnswerInv, PageBecomes, WaitBecomes, WaitAt, SamePage, SameWait,
     Overtaken, AnswerTyped, StableLimit, Silence, Restless
<1>7. Extracted'
  BY <1>0, <1>e DEF AnswerInv, PageBecomes, WaitBecomes, WaitAt, SamePage, SameWait,
     Extracted, AnswerTyped
<1>8. WholeUnlessResumed'
  BY <1>0, <1>e DEF AnswerInv, PageBecomes, WaitBecomes, WaitAt, SamePage, SameWait,
     WholeUnlessResumed, AnswerTyped
<1> QED
  BY <1>1, <1>2, <1>3, <1>4, <1>5, <1>6, <1>7, <1>8 DEF AnswerInv

\* Reading the answer keeps it.
LEMMA ExtractInv ==
  ASSUME AnswerInv, Extract
  PROVE  AnswerInv'
<1>0. AnswerTyped
  BY DEF AnswerInv
<1> USE AnswerNumbers, AnswerFields, LimitFacts
<1>e. /\ SamePage /\ answerWait.step = "extract"
      /\ \/ WaitAt("extract", answerWait.response)
         \/ WaitAt("failed", answerWait.response)
         \/ \E response \in {answerPage.text, Echo} :
              response # Nothing /\ WaitAt("validate", response)
  BY <1>0, ExtractEffect
<1>1. AnswerTyped'
  BY <1>0, <1>e DEF AnswerInv, PageBecomes, WaitBecomes, WaitAt, SamePage, SameWait,
     AnswerTyped
<1>2. Seen'
  BY <1>0, <1>e DEF AnswerInv, PageBecomes, WaitBecomes, WaitAt, SamePage, SameWait, Seen,
     AnswerTyped
<1>3. Indicated'
  BY <1>0, <1>e DEF AnswerInv, PageBecomes, WaitBecomes, WaitAt, SamePage, SameWait,
     Indicated, AnswerTyped
<1>4. Synced'
  BY <1>0, <1>e DEF AnswerInv, PageBecomes, WaitBecomes, WaitAt, SamePage, SameWait, Synced,
     AnswerTyped
<1>5. Silent'
  BY <1>0, <1>e DEF AnswerInv, PageBecomes, WaitBecomes, WaitAt, SamePage, SameWait, Silent,
     AnswerTyped, StableLimit, Silence, Restless
<1>6. Overtaken'
  BY <1>0, <1>e DEF AnswerInv, PageBecomes, WaitBecomes, WaitAt, SamePage, SameWait,
     Overtaken, AnswerTyped, StableLimit, Silence, Restless
<1>7. Extracted'
  <2>1. CASE WaitAt("extract", answerWait.response) \/ WaitAt("failed", answerWait.response)
    BY <1>e, <2>1 DEF AnswerInv, PageBecomes, WaitBecomes, WaitAt, SamePage, Extracted
  <2>2. ASSUME NEW response \in {answerPage.text, Echo}, response # Nothing,
               WaitAt("validate", response)
        PROVE  Extracted'
    <3>1. answerPage.size = "long" => answerWait.lastText <= answerPage.text
      BY DEF AnswerInv, Seen
    <3>2. answerPage.size = "long" =>
            answerPage.text = Whole \/ answerWait.lastText \in answerPage.wanting
      BY <1>e DEF AnswerInv, Extracted
    <3>3. response # Empty
      BY <1>0, <2>2
    <3> QED
      BY <1>0, <1>e, <2>2, <3>1, <3>2, <3>3
      DEF PageBecomes, WaitBecomes, WaitAt, SamePage, Extracted
  <2> QED
    BY <1>e, <2>1, <2>2
<1>8. WholeUnlessResumed'
  BY <1>0, <1>e DEF AnswerInv, PageBecomes, WaitBecomes, WaitAt, SamePage, SameWait,
     WholeUnlessResumed, AnswerTyped
<1> QED
  BY <1>1, <1>2, <1>3, <1>4, <1>5, <1>6, <1>7, <1>8 DEF AnswerInv

\* Judging the answer keeps it.
LEMMA ValidateInv ==
  ASSUME AnswerInv, Validate
  PROVE  AnswerInv'
<1>0. AnswerTyped
  BY DEF AnswerInv
<1> USE AnswerNumbers, AnswerFields, LimitFacts
<1>e. /\ SamePage /\ answerWait.step = "validate"
      /\ \/ WaitAt("rejected", answerWait.response)
         \/ /\ answerWait.response # Echo /\ ~Incomplete(answerWait.response)
            /\ answerPage.size = "long" /\ WaitAt("accepted", answerWait.response)
  BY <1>0, ValidateEffect
<1>1. AnswerTyped'
  BY <1>0, <1>e DEF AnswerInv, PageBecomes, WaitBecomes, WaitAt, SamePage, SameWait,
     AnswerTyped
<1>2. Seen'
  BY <1>0, <1>e DEF AnswerInv, PageBecomes, WaitBecomes, WaitAt, SamePage, SameWait, Seen,
     AnswerTyped
<1>3. Indicated'
  BY <1>0, <1>e DEF AnswerInv, PageBecomes, WaitBecomes, WaitAt, SamePage, SameWait,
     Indicated, AnswerTyped
<1>4. Synced'
  BY <1>0, <1>e DEF AnswerInv, PageBecomes, WaitBecomes, WaitAt, SamePage, SameWait, Synced,
     AnswerTyped
<1>5. Silent'
  BY <1>0, <1>e DEF AnswerInv, PageBecomes, WaitBecomes, WaitAt, SamePage, SameWait, Silent,
     AnswerTyped, StableLimit, Silence, Restless
<1>6. Overtaken'
  BY <1>0, <1>e DEF AnswerInv, PageBecomes, WaitBecomes, WaitAt, SamePage, SameWait,
     Overtaken, AnswerTyped, StableLimit, Silence, Restless
<1>7. Extracted'
  BY <1>0, <1>e DEF AnswerInv, PageBecomes, WaitBecomes, WaitAt, SamePage, SameWait,
     Extracted, AnswerTyped
<1>8. WholeUnlessResumed'
  BY <1>0, <1>e DEF AnswerInv, PageBecomes, WaitBecomes, WaitAt, SamePage, WholeUnlessResumed,
     Extracted, Incomplete, Reply
<1> QED
  BY <1>1, <1>2, <1>3, <1>4, <1>5, <1>6, <1>7, <1>8 DEF AnswerInv

\* So every step keeps it.
LEMMA AnswerStepInv ==
  ASSUME AnswerInv, [AnswerNext]_answerVars
  PROVE  AnswerInv'
<1>1. CASE UNCHANGED answerVars
  BY <1>1 DEF answerVars, AnswerInv, AnswerTyped, Seen, Indicated, Synced, Silent, Restless,
     Overtaken, Extracted, WholeUnlessResumed, StableLimit, Silence
<1> QED
  BY <1>1, PageGrowsInv, PageStopsInv, AnswerTickInv, ReadGenerationInv, ReadResponseInv,
     ReadIndicatorInv, GivesUpInv, ExtractInv, ValidateInv DEF AnswerNext

\* It holds in every state of every behaviour.
LEMMA AnswerInductive == AnswerSpec => []AnswerInv
  BY AnswerInitInv, AnswerStepInv, PTL DEF AnswerSpec

\* The types the runs check follow from it.
LEMMA AnswerInvTyped == AnswerInv => AnswerTypeOK
  BY AnswerFields DEF AnswerInv, AnswerTypeOK, Synced, AnswerStep, Reply

\* An attempt is only ever content with the page's whole answer, never with its
\* first parts, an announcement or the prompt itself, although a poll reads the
\* page in three moments and the text is read again after the loop, but for a
\* page that paused on a text the check of completeness finds wanting and went
\* on, between the loop and the extraction, to one it does not: for any length
\* of the answer, any wanting texts, limits, sizes and stop controls
\* (waitForFinish.ts:96-144, executePrompt.ts:72-111,
\* responseCompleteness.ts:52-75).
THEOREM AnswersWhole == AnswerSpec => []WholeUnlessResumed
<1>1. AnswerInv => WholeUnlessResumed
  BY DEF AnswerInv
<1> QED
  BY <1>1, AnswerInductive, PTL

-----------------------------------------------------------------------------
(* The parts together (MCAgent).                                           *)

\* A part that does not move keeps its invariant.
AgentInv == part \in AgentPart /\ GateInv /\ TypeInv /\ AnswerInv

\* The parts keep their invariants, whichever of them moves.
LEMMA AgentStepInv ==
  ASSUME AgentInv, [AgentNext]_agentVars
  PROVE  AgentInv'
<1>1. UNCHANGED gateVars => GateInv'
  BY GateNextInv DEF AgentInv
<1>2. UNCHANGED vars => TypeInv'
  BY TypeInvStep DEF AgentInv
<1>3. UNCHANGED answerVars => AnswerInv'
  BY AnswerStepInv DEF AgentInv
<1>4. CASE part = "gate" /\ GateNext /\ UNCHANGED <<part, vars, answerVars>>
  BY <1>2, <1>3, <1>4, GateNextInv DEF AgentInv
<1>5. CASE part = "runner" /\ Next /\ UNCHANGED <<part, gateVars, answerVars>>
  BY <1>1, <1>3, <1>5, TypeInvStep DEF AgentInv
<1>6. CASE part = "answer" /\ AnswerNext /\ UNCHANGED <<part, gateVars, vars>>
  BY <1>1, <1>2, <1>6, AnswerStepInv DEF AgentInv
<1>7. CASE UNCHANGED agentVars
  BY <1>1, <1>2, <1>3, <1>7 DEF AgentInv, agentVars
<1> QED
  BY <1>4, <1>5, <1>6, <1>7 DEF AgentNext

\* The types of the gate, the runner and the wait hold together, with what the
\* loop believes of the page (MCAgent).
THEOREM AgentTypeCorrect == AgentSpec => []AgentTypeOK
<1>1. AgentInit => AgentInv
  BY GateInitInv, TypeInvInit, AnswerInitInv DEF AgentInit, AgentInv
<1>2. AgentInv /\ [AgentNext]_agentVars => AgentInv'
  BY AgentStepInv
<1>3. AgentInv => AgentTypeOK
  BY AnswerInvTyped DEF AgentInv, AgentTypeOK, GateInv, TypeInv
<1> QED
  BY <1>1, <1>2, <1>3, PTL DEF AgentSpec
===============================================================================
