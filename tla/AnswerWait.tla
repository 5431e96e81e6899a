----------------------------- MODULE AnswerWait -----------------------------
(***************************************************************************)
(* Reading an answer off a provider's page: the loop that polls the page   *)
(* until the answer looks finished (waitForFinish.ts, isGenerating.ts), the *)
(* extraction (fetchPromptResponses.ts) and the checks an answer must pass *)
(* before the attempt is called a success (executePrompt.ts,               *)
(* responseCompleteness.ts, validateResponse.ts).                          *)
(*                                                                         *)
(* The page is the environment.  It grows its answer while it is polled,   *)
(* and the three reads of a poll see it at three moments.  A page that has *)
(* more to come is not silent for longer than the loop waits, but for the  *)
(* announcement of a search, which may stand alone for any time, and for   *)
(* a text that the checks would find wanting.                              *)
(***************************************************************************)
EXTENDS Integers

CONSTANTS Parts,        \* how often an answer grows before it is whole
          StableFor,    \* stableResponseMs
          OverviewFor,  \* the 2.5 s of ai-overview
          ForceFor,     \* PROVIDER_FORCE_EXIT_STABLE_MS
          MaxWait,      \* the five minutes of the loop
          Tries         \* MAX_EXTRACTION_RETRIES

ASSUME AnswerAssumption ==
  /\ Parts \in Nat /\ MaxWait \in Nat /\ Tries \in Nat \ {0}
  /\ StableFor \in Nat \ {0, 1} /\ OverviewFor \in Nat \ {0, 1}  \* longer than a poll
  /\ ForceFor \in Nat /\ ForceFor >= StableFor

VARIABLES
  answerPage,  \* what the provider shows
  answerWait   \* the loop, and what is done with the text after it

answerVars == <<answerPage, answerWait>>

Nothing == 0
Plan == 1              \* "I will search the web ..."
Whole == Parts + 2     \* from Plan to Whole: a part of the answer
Echo == -1             \* the prompt, taken for an answer
Empty == -2

\* "tiny": under the 20 characters the loop needs to see a text at all;
\* "short": under the floor of validateResponse.
AnswerSize == {"tiny", "short", "long"}

AnswerInit ==
  /\ answerPage \in
       [text : {Nothing}, quiet : {0}, indicator : BOOLEAN,
        overview : BOOLEAN,   \* ai-overview
        wanting : SUBSET (Plan + 1 .. Whole),
        \* texts that are a heading alone, or in which fewer sections have begun
        \* than the prompt asks for, but one has
        size : AnswerSize]
  /\ answerWait = [step |-> "generation", first |-> TRUE, seenResponse |-> FALSE,
                   lastText |-> Nothing, lastIndicator |-> FALSE,
                   readText |-> Nothing, readGeneration |-> FALSE, slow |-> FALSE,
                   stableFor |-> 0, waited |-> 0, try |-> 1, response |-> Empty]

-----------------------------------------------------------------------------
(* The page. *)

StableLimit ==
  LET limit == IF answerPage.indicator THEN ForceFor ELSE StableFor
  IN  IF answerPage.overview /\ OverviewFor < limit THEN OverviewFor ELSE limit

\* Silent for as long as a page with more to come may be.  (The margin is
\* the time a poll may take.)
MustGrow ==
  /\ answerPage.text # Nothing /\ answerPage.text # Whole
  /\ answerPage.text = Plan => answerPage.overview
  /\ answerPage.text \notin answerPage.wanting
  /\ answerPage.quiet >= StableLimit - 2

PageGrows ==
  /\ \E text \in answerPage.text + 1 .. Whole :
       answerPage' = [answerPage EXCEPT !.text = text, !.quiet = 0]
  /\ UNCHANGED answerWait

\* The stop control goes when the answer is whole, or stays.
PageStops ==
  /\ answerPage.text = Whole /\ answerPage.indicator
  /\ answerPage' = [answerPage EXCEPT !.indicator = FALSE, !.quiet = 0]
  /\ UNCHANGED answerWait

Capped(n, limit) == IF n < limit THEN n + 1 ELSE n

Polling == {"generation", "response", "indicator"}

\* Time.  A poll, from its first read to its verdict, is over in one unit.
AnswerTick ==
  /\ answerWait.step \in Polling /\ ~answerWait.slow /\ ~MustGrow
  /\ answerPage' = [answerPage EXCEPT !.quiet = Capped(@, ForceFor)]
  /\ answerWait' = [answerWait EXCEPT
       !.slow = answerWait.step # "generation",
       !.stableFor = Capped(@, ForceFor),
       !.waited = Capped(@, MaxWait)]

-----------------------------------------------------------------------------
(* waitForAssistantToFinish: getGenerationStateSignature,                  *)
(* getResponseStateSignature and hasVisibleGenerationIndicator, sent       *)
(* together and answered one after the other.                              *)

ReadGeneration ==
  /\ answerWait.step = "generation" /\ answerWait.waited < MaxWait
  /\ answerWait' = [answerWait EXCEPT !.step = "response",
                                      !.readGeneration = answerPage.indicator]
  /\ UNCHANGED answerPage

\* A text of less than 20 characters is no text.
ReadResponse ==
  /\ answerWait.step = "response"
  /\ answerWait' = [answerWait EXCEPT !.step = "indicator",
       !.readText = IF answerPage.size = "tiny" THEN Nothing ELSE answerPage.text]
  /\ UNCHANGED answerPage

Polled(w) == [w EXCEPT !.step = "generation", !.slow = FALSE]

\* What the loop remembers after a poll.
Remembered ==
  LET changed == answerWait.first \/ answerWait.readText # answerWait.lastText
                   \/ answerWait.readGeneration # answerWait.lastIndicator
  IN  [answerWait EXCEPT
        !.first = FALSE,
        !.seenResponse = IF answerWait.first THEN answerWait.readText # Nothing
                         ELSE @ \/ answerWait.readText # Nothing,
        !.lastText = answerWait.readText,
        !.lastIndicator = answerWait.readGeneration,
        !.stableFor = IF changed THEN 0 ELSE @]

\* Variant: the stop control alone is watched.
SteadyGeneration ==
  ~answerWait.first /\ answerWait.readGeneration = answerWait.lastIndicator

\* Neither has changed since the last poll.
Steady ==
  /\ ~answerWait.first
  /\ answerWait.readText = answerWait.lastText
  /\ answerWait.readGeneration = answerWait.lastIndicator

Provisional == answerWait.readText = Plan

AssistantFinished ==
  /\ Steady
  /\ answerWait.seenResponse \/ answerWait.readText # Nothing
  /\ \/ answerPage.overview /\ answerWait.stableFor >= OverviewFor
     \/ /\ ~Provisional /\ ~answerPage.indicator
        /\ answerWait.stableFor >= StableFor
     \/ ~Provisional /\ answerWait.stableFor >= ForceFor

\* The third read and the verdict of the poll.
ReadIndicator ==
  /\ answerWait.step = "indicator"
  /\ answerWait' = IF AssistantFinished
                   THEN [Remembered EXCEPT !.step = "extract", !.slow = FALSE]
                   ELSE Polled(Remembered)
  /\ UNCHANGED answerPage

WaitTimesOut ==
  /\ answerWait.step = "generation" /\ answerWait.waited >= MaxWait
  /\ answerWait' = [answerWait EXCEPT !.step = "failed"]
  /\ UNCHANGED answerPage

-----------------------------------------------------------------------------
(* fetchPromptResponses and extractAndValidateAnswer. *)

\* config.extractResponse reads the page as it is now, or finds nothing, or
\* takes hold of the prompt.
Extract ==
  /\ answerWait.step = "extract"
  /\ \E response \in {answerPage.text, Empty, Echo} :
       IF response \in {Nothing, Empty}
       THEN answerWait' = IF answerWait.try < Tries
                          THEN [answerWait EXCEPT !.try = @ + 1]
                          ELSE [answerWait EXCEPT !.step = "failed"]
       ELSE answerWait' = [answerWait EXCEPT !.step = "validate",
                                             !.response = response]
  /\ UNCHANGED answerPage

\* getIncompleteResponseReason.  A text in which no section has begun passes,
\* and so does one whose last section has begun and is not finished; a whole
\* answer of fewer sections than were asked for does not.
Incomplete(response) == response = Plan \/ response \in answerPage.wanting

Validate ==
  /\ answerWait.step = "validate"
  /\ answerWait' = [answerWait EXCEPT !.step =
       IF answerWait.response = Echo \/ Incomplete(answerWait.response)
            \/ answerPage.size # "long"
       THEN "rejected" ELSE "accepted"]
  /\ UNCHANGED answerPage

\* detectBotPage, before and after; the six minutes around the whole.
AnswerFails ==
  /\ answerWait.step \in Polling \cup {"extract", "validate"}
  /\ answerWait' = [answerWait EXCEPT !.step = "failed"]
  /\ UNCHANGED answerPage

AnswerNext ==
  \/ PageGrows \/ PageStops \/ AnswerTick
  \/ ReadGeneration \/ ReadResponse \/ ReadIndicator \/ WaitTimesOut
  \/ Extract \/ Validate \/ AnswerFails

AnswerSpec == AnswerInit /\ [][AnswerNext]_answerVars

-----------------------------------------------------------------------------
\* The types, and what the loop believes of the page: unless the text changed
\* under its last read, the page has been silent for as long as it thinks.
AnswerTypeOK ==
  /\ answerPage.text \in Nothing .. Whole /\ answerPage.quiet \in 0 .. ForceFor
  /\ answerWait.step \in Polling \cup {"extract", "validate", "failed", "rejected", "accepted"}
  /\ answerWait.stableFor \in 0 .. ForceFor /\ answerWait.waited \in 0 .. MaxWait
  /\ answerWait.try \in 1 .. Tries
  /\ answerWait.response \in {Empty, Echo} \cup (Plan .. Whole)
  /\ answerWait.step = "generation" /\ ~answerWait.first
       /\ answerPage.size # "tiny" /\ answerWait.lastText = answerPage.text
       /\ answerWait.lastIndicator = answerPage.indicator
       => answerWait.stableFor <= answerPage.quiet

\* What an attempt is content with is the page's whole answer: never its first
\* parts, an announcement or the prompt itself (waitForFinish.ts:96-144,
\* executePrompt.ts:72-111), although the text is read after the loop, by other
\* selectors, and the loop sees the page in three reads.  One way is left, and
\* there is no other: the loop ended on a text that the check of completeness
\* would have turned away, and before the extraction the page went on to one
\* that it lets pass (responseCompleteness.ts:72).
WholeUnlessResumed ==
  answerWait.step = "accepted" =>
    \/ answerWait.response = Whole
    \/ /\ answerWait.lastText \in answerPage.wanting
       /\ answerWait.response > answerWait.lastText
       /\ answerWait.response \notin answerPage.wanting
=============================================================================
