---------------------------- MODULE TurnSettle ----------------------------
(***************************************************************************)
(* The interactive phase (runner/testrunner.go, runInteractive): the       *)
(* runner types lines into a terminal and decides from the mock's counts,  *)
(* the hook log and the screen when each turn is over.                     *)
(*                                                                         *)
(* Time passes in polls: a wait counts the polls it has left and those     *)
(* since it last saw something change.  The agent is external.  It acts    *)
(* any number of times between polls; while it has work to do it redraws   *)
(* its screen at least once between two looks of waitScreenQuiet.          *)
(***************************************************************************)
EXTENDS Integers, Sequences

CONSTANTS
  Quiet,         (* polls without news after which a turn is taken for over   *)
  ScreenQuiet,   (* the same for the screen                                   *)
  Timeout,       (* polls a wait for a turn may last                          *)
  ScreenMax,     (* polls a wait for the screen may last                      *)
  MaxAsides      (* bound on answers to requests that belong to no turn       *)

ASSUME QuietAssumption == Quiet \in Nat \ {0} /\ ScreenQuiet \in Nat \ {0}
ASSUME TimeoutAssumption == Timeout \in Nat /\ ScreenMax \in Nat
ASSUME AsidesAssumption == MaxAsides \in Nat

(* The lines the runner types, by the order it types them in.              *)
First == 1
Second == 2
Compact == 3
Lines == {First, Second, Compact}

(* How the wait for a line ended: on the stop hook, on a quiet window, or  *)
(* at its deadline with or without an answer.                              *)
Ends == {"none", "stop", "quiet", "deadline", "unanswered"}

VARIABLES
  harness,   (* what the registry says of the agent                           *)
  (* the runner *)
  pc,
  line,      (* the line it is at                                             *)
  mark,      (* turnMark                                                      *)
  left, since,  (* of the wait under way                                      *)
  news,      (* the fingerprint changed since it was last taken               *)
  drawn,     (* the screen changed since it was last looked at                *)
  saved,     (* the answer answeringWithSummary puts back                     *)
  (* the mock and the hook log *)
  response, answers, stops,
  (* external: the agent *)
  starting,  (* it has not drawn its first screen to the end                  *)
  composer,  (* lines submitted and not taken                                 *)
  work,      (* the line it works on, 0 for none                              *)
  answer,    (* the text each line's own request was answered with            *)
  stopped,   (* the lines whose stop hook has fired                           *)
  asides,
  (* history variables, read only by properties *)
  ended,     (* how the wait for each line ended                              *)
  overrun,   (* a wait for the screen lasted until its maximum                *)
  lost,      (* lines the agent did not take up                               *)
  stragglers (* lines whose stop hook fired after the wait for them           *)

runnerVars == <<pc, line, mark, left, since, saved>>
signalVars == <<news, drawn, response, answers, stops>>
agentVars == <<starting, composer, work, answer, stopped, asides>>
historyVars == <<ended, overrun, lost, stragglers>>
vars == <<harness, runnerVars, signalVars, agentVars, historyVars>>

Init ==
  /\ harness \in [promptInArgs : BOOLEAN, stop : BOOLEAN, compact : BOOLEAN]
  /\ pc = "launch" /\ line = First
  /\ mark = [answers |-> -1, stops |-> -1]
  /\ left = 0 /\ since = 0 /\ saved = "short"
  /\ news = FALSE /\ drawn = FALSE
  /\ response = "short" /\ answers = 0 /\ stops = 0
  /\ starting = TRUE /\ composer = << >> /\ work = 0
  /\ answer = [n \in Lines |-> "none"]
  /\ stopped = {} /\ asides = 0
  /\ ended = [n \in Lines |-> "none"]
  /\ overrun = FALSE /\ lost = {} /\ stragglers = {}

---------------------------------------------------------------------------
\* (bug) every stop hook of the session counts.
MarkNoStops(expectAnswer) ==
  [answers |-> IF expectAnswer THEN answers ELSE -1,
   stops   |-> IF harness.stop THEN 0 ELSE -1]

(* markTurn: the counts a turn starts from; -1 where nothing will count.   *)
Mark(expectAnswer) ==
  [answers |-> IF expectAnswer THEN answers ELSE -1,
   stops   |-> IF harness.stop THEN stops ELSE -1]

StopSeen == mark.stops >= 0 /\ stops > mark.stops

AwaitAnswer ==
  /\ pc' = "answer" /\ left' = Timeout
  /\ UNCHANGED since

(* The wait for the screen takes its first length as it starts.            *)
AwaitScreen ==
  /\ pc' = "screen" /\ left' = ScreenMax /\ since' = 0
  /\ drawn' = FALSE

\* The mark is taken before the launch: a prompt among the arguments may be
\* answered while the runner still dismisses the first screens.
Launch ==
  /\ pc = "launch"
  /\ mark' = Mark(TRUE)
  /\ \/ /\ pc' = "onboard"
        /\ composer' = IF harness.promptInArgs THEN <<First>> ELSE << >>
     \/ /\ pc' = "done"                   \* StartPTY fails
        /\ UNCHANGED composer
  /\ UNCHANGED <<harness, line, left, since, saved, signalVars, starting, work,
                 answer, stopped, asides, historyVars>>

\* (bug) the prompt's mark is taken again after the first screens.
OnboardMarksAgain ==
  /\ pc = "onboard"
  /\ \/ harness.promptInArgs /\ AwaitAnswer /\ mark' = Mark(TRUE) /\ UNCHANGED drawn
     \/ ~harness.promptInArgs /\ AwaitScreen /\ UNCHANGED mark
  /\ UNCHANGED <<harness, line, saved, news, response, answers, stops,
                 agentVars, historyVars>>

\* (bug) the first prompt is typed without a look at the screen.
OnboardTypesAtOnce ==
  /\ pc = "onboard"
  /\ \/ harness.promptInArgs /\ AwaitAnswer
     \/ ~harness.promptInArgs /\ pc' = "mark" /\ UNCHANGED <<left, since>>
  /\ UNCHANGED <<harness, line, mark, saved, signalVars, agentVars, historyVars>>

\* The dialogs are dismissed, or none came; the screen may still be drawing.
Onboard ==
  /\ pc = "onboard"
  /\ \/ harness.promptInArgs /\ AwaitAnswer /\ UNCHANGED drawn
     \/ ~harness.promptInArgs /\ AwaitScreen
  /\ UNCHANGED <<harness, line, mark, saved, news, response, answers, stops,
                 agentVars, historyVars>>

---------------------------------------------------------------------------
(* waitScreenQuiet.                                                        *)
Working == starting \/ work # 0 \/ composer # << >>

ScreenPoll ==
  /\ pc = "screen"
  /\ left > 0 /\ since < ScreenQuiet
  /\ left' = left - 1
  /\ since' = IF drawn \/ Working THEN 0 ELSE since + 1
  /\ drawn' = FALSE
  /\ UNCHANGED <<harness, pc, line, mark, saved, news, response, answers, stops,
                 agentVars, historyVars>>

ScreenDone ==
  /\ pc = "screen"
  /\ left = 0 \/ since >= ScreenQuiet
  /\ pc' = "mark"
  /\ overrun' = (overrun \/ since < ScreenQuiet)
  /\ UNCHANGED <<harness, line, mark, left, since, saved, signalVars, agentVars,
                 ended, lost, stragglers>>

\* The mark comes first, then the line: a fast agent may be done with the
\* turn while the line is still being sent.  /compact is not answered.
TakeMark ==
  /\ pc = "mark"
  /\ mark' = Mark(line # Compact)
  /\ pc' = IF line = Compact THEN "summary" ELSE "send"
  /\ UNCHANGED <<harness, line, left, since, saved, signalVars, agentVars, historyVars>>

\* answeringWithSummary, up to its step.
AnswerWithSummary ==
  /\ pc = "summary"
  /\ saved' = response /\ response' = "summary"
  /\ pc' = "send"
  /\ UNCHANGED <<harness, line, mark, left, since, news, drawn, answers, stops,
                 agentVars, historyVars>>

\* A screen that is still starting may lose the Enter, and an agent at work
\* may refuse a compaction; otherwise the line waits for the agent.
SendLine ==
  /\ pc = "send"
  /\ \/ composer' = Append(composer, line) /\ UNCHANGED lost
     \/ /\ starting \/ (line = Compact /\ work # 0)
        /\ lost' = lost \cup {line} /\ UNCHANGED composer
  /\ IF line = Compact
     THEN pc' = "echo" /\ UNCHANGED <<left, since>>
     ELSE AwaitAnswer
  /\ UNCHANGED <<harness, line, mark, saved, signalVars, starting, work, answer,
                 stopped, asides, ended, overrun, stragglers>>

\* After /compact the runner waits for a word of its echo on the screen and
\* confirms if it is asked to.  It expects no answer.
SeeEcho ==
  /\ pc = "echo"
  /\ pc' = "quiet" /\ left' = Timeout /\ since' = 0 /\ news' = FALSE
  /\ UNCHANGED <<harness, line, mark, saved, drawn, response, answers, stops,
                 agentVars, historyVars>>

---------------------------------------------------------------------------
\* (bug) the wait for the answer has no deadline.
AnswerPollForever ==
  /\ pc = "answer"
  /\ answers <= mark.answers /\ left > 0
  /\ UNCHANGED vars

(* waitTurnSettled: first the answer, then the stop hook or a quiet window.*)
AnswerPoll ==
  /\ pc = "answer"
  /\ answers <= mark.answers /\ left > 0
  /\ left' = left - 1
  /\ UNCHANGED <<harness, pc, line, mark, since, saved, signalVars, agentVars, historyVars>>

\* (bug) stop hooks are counted from the answer on.
AnswerSeenMarksStops ==
  /\ pc = "answer"
  /\ answers > mark.answers \/ left = 0
  /\ pc' = "quiet" /\ since' = 0 /\ news' = FALSE
  /\ mark' = [mark EXCEPT !.stops = IF harness.stop THEN stops ELSE -1]
  /\ UNCHANGED <<harness, line, left, saved, drawn, response, answers, stops,
                 agentVars, historyVars>>

\* The fingerprint is taken here for the first time.
AnswerSeen ==
  /\ pc = "answer"
  /\ answers > mark.answers \/ left = 0
  /\ pc' = "quiet" /\ since' = 0 /\ news' = FALSE
  /\ UNCHANGED <<harness, line, mark, left, saved, drawn, response, answers, stops,
                 agentVars, historyVars>>

QuietPoll ==
  /\ pc = "quiet"
  /\ left > 0 /\ since < Quiet /\ ~StopSeen
  /\ pc' = "asleep" /\ left' = left - 1
  /\ UNCHANGED <<harness, line, mark, since, saved, signalVars, agentVars, historyVars>>

QuietLook ==
  /\ pc = "asleep"
  /\ pc' = "quiet"
  /\ since' = IF news THEN 0 ELSE since + 1
  /\ news' = FALSE
  /\ UNCHANGED <<harness, line, mark, left, saved, drawn, response, answers, stops,
                 agentVars, historyVars>>

\* (bug) a settled turn is enough to type /compact.
AfterTurnCompactsAtOnce ==
  CASE line = First /\ harness.compact ->
         /\ line' = Second /\ pc' = "mark"
         /\ UNCHANGED <<left, since, drawn, response>>
    [] line = Second ->
         /\ line' = Compact /\ pc' = "mark"
         /\ UNCHANGED <<left, since, drawn, response>>
    [] line = Compact ->
         /\ pc' = "exit" /\ response' = saved
         /\ UNCHANGED <<line, left, since, drawn>>
    [] OTHER ->
         /\ pc' = "exit"
         /\ UNCHANGED <<line, left, since, drawn, response>>

\* What follows a settled turn: the second prompt, the compaction, the exit.
AfterTurn ==
  CASE line = First /\ harness.compact ->
         /\ line' = Second /\ pc' = "mark"
         /\ UNCHANGED <<left, since, drawn, response>>
    [] line = Second ->
         /\ line' = Compact /\ AwaitScreen
         /\ UNCHANGED response
    [] line = Compact ->                  \* the deferred SetResponse
         /\ pc' = "exit" /\ response' = saved
         /\ UNCHANGED <<line, left, since, drawn>>
    [] OTHER ->
         /\ pc' = "exit"
         /\ UNCHANGED <<line, left, since, drawn, response>>

EndOfWait ==
  IF left = 0
  THEN IF mark.answers >= 0 /\ answers <= mark.answers THEN "unanswered" ELSE "deadline"
  ELSE IF since >= Quiet THEN "quiet" ELSE "stop"

Settled ==
  /\ pc = "quiet"
  /\ left = 0 \/ since >= Quiet \/ StopSeen
  /\ ended' = [ended EXCEPT ![line] = EndOfWait]
  /\ AfterTurn
  /\ UNCHANGED <<harness, mark, saved, news, answers, stops, agentVars,
                 overrun, lost, stragglers>>

\* The exit command, Ctrl-C and Close: the agent is gone after it.
Exit ==
  /\ pc = "exit"
  /\ pc' = "done"
  /\ UNCHANGED <<harness, line, mark, left, since, saved, signalVars, agentVars, historyVars>>

Runner ==
  \/ Launch \/ Onboard
  \/ ScreenPoll \/ ScreenDone \/ TakeMark \/ AnswerWithSummary \/ SendLine \/ SeeEcho
  \/ AnswerPoll \/ AnswerSeen \/ QuietPoll \/ QuietLook \/ Settled \/ Exit

---------------------------------------------------------------------------
(* External: the agent in the terminal, as far as the runner can tell.     *)
Running == pc \notin {"launch", "done"}

Started ==
  /\ Running /\ starting
  /\ starting' = FALSE /\ drawn' = TRUE
  /\ UNCHANGED <<harness, runnerVars, news, response, answers, stops, composer, work,
                 answer, stopped, asides, historyVars>>

Take ==
  /\ Running /\ ~starting /\ work = 0 /\ composer # << >>
  /\ work' = Head(composer) /\ composer' = Tail(composer)
  /\ drawn' = TRUE
  /\ UNCHANGED <<harness, runnerVars, news, response, answers, stops, starting,
                 answer, stopped, asides, historyVars>>

(* getResponse: the answer is counted and carries the text set at the time.*)
Answered ==
  /\ answers' = answers + 1 /\ news' = TRUE /\ drawn' = TRUE
  /\ UNCHANGED <<response, stops>>

AnswerTurn ==
  /\ Running /\ work # 0
  /\ answer[work] = "none"
  /\ answer' = [answer EXCEPT ![work] = response]
  /\ Answered
  /\ UNCHANGED <<harness, runnerVars, starting, composer, work, stopped, asides, historyVars>>

\* A title, a router or a warm-up request: answered like any other.
AnswerAside ==
  /\ Running /\ asides < MaxAsides
  /\ asides' = asides + 1
  /\ Answered
  /\ UNCHANGED <<harness, runnerVars, starting, composer, work, answer, stopped, historyVars>>

\* The stop hook of an answered turn, before the agent is done or long after.
FireStop ==
  /\ Running /\ harness.stop
  /\ \E n \in Lines \ stopped :
       /\ answer[n] # "none"
       /\ stopped' = stopped \cup {n}
       /\ stragglers' = IF ended[n] # "none" THEN stragglers \cup {n} ELSE stragglers
  /\ stops' = stops + 1 /\ news' = TRUE
  /\ UNCHANGED <<harness, runnerVars, drawn, response, answers, starting, composer, work,
                 answer, asides, ended, overrun, lost>>

\* The agent is done with the line, answered or not.
Finish ==
  /\ Running /\ work # 0
  /\ work' = 0 /\ drawn' = TRUE
  /\ UNCHANGED <<harness, runnerVars, news, response, answers, stops, starting, composer,
                 answer, stopped, asides, historyVars>>

Agent == Started \/ Take \/ AnswerTurn \/ AnswerAside \/ FireStop \/ Finish

Done == pc = "done" /\ UNCHANGED vars

Next == Runner \/ Agent \/ Done

Spec == Init /\ [][Next]_vars

\* The runner's goroutine is scheduled; the agent owes it nothing.
FairSpec == Spec /\ WF_vars(Runner)

---------------------------------------------------------------------------
(* Properties.                                                             *)

\* Every variable keeps to its domain: counts do not run ahead of what the
\* agent did, and no wait outlasts its limits.
TypeOK ==
  /\ harness \in [promptInArgs : BOOLEAN, stop : BOOLEAN, compact : BOOLEAN]
  /\ pc \in {"launch", "onboard", "screen", "mark", "summary", "send", "echo",
             "answer", "quiet", "asleep", "exit", "done"}
  /\ line \in Lines
  /\ mark \in [answers : -1 .. 3 + MaxAsides, stops : -1 .. 3]
  /\ left \in 0 .. Timeout + ScreenMax /\ since \in 0 .. Quiet + ScreenQuiet
  /\ news \in BOOLEAN /\ drawn \in BOOLEAN
  /\ response \in {"short", "summary"} /\ saved \in {"short", "summary"}
  /\ answers \in 0 .. 3 + MaxAsides /\ stops \in 0 .. 3
  /\ starting \in BOOLEAN /\ composer \in Seq(Lines) /\ work \in Lines \cup {0}
  /\ answer \in [Lines -> {"none", "short", "summary"}]
  /\ stopped \subseteq Lines /\ asides \in 0 .. MaxAsides
  /\ ended \in [Lines -> Ends] /\ overrun \in BOOLEAN
  /\ lost \subseteq Lines /\ stragglers \subseteq Lines

\* A wait gives up for want of an answer only if the turn was never answered:
\* an answer that came while the first screens were dismissed is not missed
\* (runInteractive, the comment on launchMark).
GivesUpUnanswered ==
  [][\A n \in Lines :
       (ended[n] = "none" /\ ended'[n] = "unanswered") => answer[n] = "none"]_vars

\* A turn is taken for over by a quiet window only if its stop hook had not
\* fired when the runner last looked: a stop hook since the mark ends the wait
\* at the next look (waitTurnSettled).
QuietMeansNoStop ==
  [][\A n \in Lines :
       (ended[n] = "none" /\ ended'[n] = "quiet") => n \notin stopped \/ news]_vars

\* The first prompt is not lost to a screen that is still starting, and the
\* compaction is not refused by an agent at work, unless the wait for the
\* screen ran out (waitScreenQuiet; the comment before /compact in
\* runInteractive).
LinesAreTaken == lost \cap {First, Compact} # {} => overrun

\* The text for the compaction answers no turn before it: the agent is at
\* rest when the answer is replaced (answeringWithSummary).
SummaryIsForCompaction ==
  (\E n \in {First, Second} : answer[n] = "summary") => overrun

\* A compaction answered with the short line, which agents reject as
\* degenerate, was given up on by its wait: at its deadline, after a quiet
\* window, or because a stop hook came after the wait for its own turn.
ShortSummaryIsExcused ==
  answer[Compact] = "short" =>
    \/ ended[Compact] \in {"quiet", "deadline"}
    \/ stragglers # {}

\* Whatever the agent does or does not do, the phase comes to its end.
PhaseEnds == <>(pc = "done")

===========================================================================
