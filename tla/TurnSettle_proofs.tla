------------------------- MODULE TurnSettle_proofs -------------------------
(***************************************************************************)
(* What holds of TurnSettle for every quiet window, every deadline and any *)
(* number of requests that belong to no turn.                              *)
(***************************************************************************)
EXTENDS TurnSettle, TLAPS

---------------------------------------------------------------------------
(***************************************************************************)
(* The invariants                                                          *)
(***************************************************************************)
\* The type invariant in parts: the Boolean variables, the numbers, the rest.
Flags == news \in BOOLEAN /\ drawn \in BOOLEAN /\ starting \in BOOLEAN /\ overrun \in BOOLEAN

Numbers ==
  /\ mark \in [answers : -1 .. 3 + MaxAsides, stops : -1 .. 3]
  /\ left \in 0 .. Timeout + ScreenMax /\ since \in 0 .. Quiet + ScreenQuiet
  /\ answers \in 0 .. 3 + MaxAsides /\ stops \in 0 .. 3 /\ asides \in 0 .. MaxAsides

Places ==
  /\ harness \in [promptInArgs : BOOLEAN, stop : BOOLEAN, compact : BOOLEAN]
  /\ pc \in {"launch", "onboard", "screen", "mark", "summary", "send", "echo",
             "answer", "quiet", "asleep", "exit", "done"}
  /\ line \in Lines /\ work \in Lines \cup {0} /\ composer \in Seq(Lines)
  /\ response \in {"short", "summary"} /\ saved \in {"short", "summary"}
  /\ answer \in [Lines -> {"none", "short", "summary"}]
  /\ ended \in [Lines -> Ends]
  /\ stopped \subseteq Lines /\ lost \subseteq Lines /\ stragglers \subseteq Lines

\* The counts are those of the agent's deeds, and the runner sleeps only
\* inside the quiet window.
Fired(n) == IF n \in stopped THEN 1 ELSE 0
Got(n) == IF answer[n] = "none" THEN 0 ELSE 1

Counts ==
  /\ stops = Fired(First) + Fired(Second) + Fired(Compact)
  /\ answers = asides + Got(First) + Got(Second) + Got(Compact)
  /\ pc = "asleep" => since < Quiet

Types == Flags /\ Numbers /\ Places /\ Counts

\* What is behind LinesAreTaken: from a quiet screen to the line typed into it
\* the agent is at rest.
Calm == ~starting /\ work = 0 /\ composer = << >>

ScreenIsQuiet ==
  /\ pc = "screen" /\ since > 0 => Calm
  /\ pc \in {"mark", "summary", "send"} /\ line # Second => Calm \/ overrun
  /\ LinesAreTaken

\* What is behind SummaryIsForCompaction: the answer is replaced just while
\* the compaction is under way, and the agent has no other line then.
SummaryIsHeld ==
  /\ saved = "short"
  /\ pc \in {"launch", "onboard"} => line = First
  /\ pc = "answer" => line # Compact
  /\ pc \in {"summary", "echo"} => line = Compact
  /\ response = "summary" <=> (line = Compact /\ pc \in {"send", "echo", "quiet", "asleep"})
  /\ response = "summary" /\ ~overrun =>
       /\ work \in {0, Compact}
       /\ \A i \in 1 .. Len(composer) : composer[i] = Compact
  /\ SummaryIsForCompaction

\* Lines are sent in order, and what the agent works on, has answered or
\* stopped at was sent to it.
Sent(n) ==
  \/ n < line
  \/ n = line /\ pc \in {"echo", "answer", "quiet", "asleep", "exit", "done"}
  \/ n = First /\ harness.promptInArgs /\ pc # "launch"

LinesInOrder ==
  /\ work # 0 => Sent(work)
  /\ \A i \in 1 .. Len(composer) : Sent(composer[i])
  /\ \A n \in Lines : answer[n] # "none" => Sent(n)
  /\ \A n \in stopped : answer[n] # "none" /\ harness.stop
  /\ \A n \in Lines : n < line \/ (n = line /\ pc = "exit") => ended[n] # "none"
  /\ \A n \in Lines : ended[n] # "none" => n < line \/ (n = line /\ pc \in {"exit", "done"})
  /\ pc \in {"screen", "mark", "summary", "send"} /\ line = First => ~harness.promptInArgs

\* The mark in force is the line's own, and an answer or a stop hook of the
\* line has come after it.
Marked ==
  \/ pc \in {"summary", "send", "echo", "answer", "quiet", "asleep"}
  \/ pc = "onboard" /\ harness.promptInArgs

MarkIsOwn ==
  /\ pc # "launch" => /\ mark.answers <= answers /\ mark.stops <= stops
                      /\ harness.stop => mark.stops >= 0
  /\ Marked => /\ line \in stopped => stops > mark.stops
               /\ answer[line] # "none" => answers > mark.answers
               /\ line = Compact => mark.answers = -1
  /\ pc = "asleep" /\ ~news => line \notin stopped
  /\ pc = "quiet" /\ since > 0 /\ ~news => line \notin stopped

\* What is behind ShortSummaryIsExcused: a wait for the compaction ends on its
\* own stop hook, which comes after its answer, or on a straggler.
CompactionIsAwaited ==
  /\ answer[Compact] = "short" => ended[Compact] # "none"
  /\ Marked /\ line = Compact /\ StopSeen => Compact \in stopped \/ stragglers # {}
  /\ ended[Compact] = "stop" => answer[Compact] = "summary" \/ stragglers # {}
  /\ ended[Compact] # "unanswered"

---------------------------------------------------------------------------
(***************************************************************************)
(* Type correctness                                                        *)
(***************************************************************************)
\* The parts make up the type invariant.
LEMMA Parts == Flags /\ Numbers /\ Places => TypeOK
BY Zenon DEF TypeOK, Flags, Numbers, Places

\* The step after the end changes nothing.
LEMMA StepCases == [Next]_vars => Runner \/ Agent \/ UNCHANGED vars
BY DEF Next, Done

\* A line sent comes after those that wait.
LEMMA AppendKeeps ==
  ASSUME NEW s \in Seq(Lines), NEW n \in Lines, NEW i \in 1 .. Len(s)
  PROVE  /\ s[i] \in Lines
         /\ Append(s, n)[i] = s[i]
OBVIOUS

\* The phase starts inside the domains.
LEMMA TypesInit == Init => Types
<1> SUFFICES ASSUME Init PROVE Types
  OBVIOUS
<1> USE DEF Init
<1>1. Flags
  BY Zenon DEF Flags
<1>2. Numbers
  BY QuietAssumption, TimeoutAssumption, AsidesAssumption DEF Numbers
<1>3. Places
  BY DEF Places, Ends, Lines, First, Second, Compact
<1>4. Counts
  BY DEF Counts, Fired, Got, Lines, First, Second, Compact
<1> QED BY <1>1, <1>2, <1>3, <1>4 DEF Types

\* Boolean variables stay Boolean.
LEMMA FlagsStep ==
  ASSUME Flags, [Next]_vars
  PROVE  Flags'
<1> USE DEF Flags, runnerVars, signalVars, agentVars, historyVars
<1>1. CASE ScreenDone
  BY <1>1, Zenon DEF ScreenDone
<1>2. CASE Settled
  BY <1>2, Zenon DEF Settled, AfterTurn, AwaitScreen
<1>3. CASE Launch \/ Onboard \/ ScreenPoll \/ TakeMark \/ AnswerWithSummary
          \/ SendLine \/ SeeEcho \/ AnswerPoll \/ AnswerSeen \/ QuietPoll \/ QuietLook
          \/ Exit
  BY <1>3, Zenon DEF Launch, Onboard, ScreenPoll, TakeMark, AnswerWithSummary, SendLine,
     SeeEcho, AnswerPoll, AnswerSeen, QuietPoll, QuietLook, Exit, Mark, AwaitAnswer,
     AwaitScreen
<1>4. CASE Started \/ Take \/ AnswerTurn \/ AnswerAside \/ FireStop \/ Finish
  BY <1>4, Zenon DEF Started, Take, AnswerTurn, AnswerAside, FireStop, Finish, Answered
<1>5. CASE UNCHANGED vars
  BY <1>5, Zenon DEF vars
<1> QED BY <1>1, <1>2, <1>3, <1>4, <1>5, StepCases DEF Runner, Agent

\* The counts of the agent's deeds bound what the mock and the hook log count.
LEMMA NumbersStep ==
  ASSUME Numbers, Places, Counts, [Next]_vars
  PROVE  Numbers'
<1> USE QuietAssumption, TimeoutAssumption, AsidesAssumption DEF Numbers, runnerVars,
     signalVars, agentVars, historyVars
<1>1. CASE Launch
  BY <1>1 DEF Launch, Mark
<1>2. CASE ScreenPoll
  BY <1>2 DEF ScreenPoll
<1>3. CASE TakeMark
  BY <1>3 DEF TakeMark, Mark
<1>4. CASE QuietLook
  BY <1>4 DEF QuietLook, Counts
<1>5. CASE Settled
  BY <1>5 DEF Settled, AfterTurn, AwaitScreen
<1>6. CASE AnswerTurn
  BY <1>6 DEF AnswerTurn, Answered, Counts, Got, Places, Lines, First, Second, Compact
<1>7. CASE AnswerAside
  BY <1>7 DEF AnswerAside, Answered, Counts, Got
<1>8. CASE FireStop
  BY <1>8 DEF FireStop, Counts, Fired, Places, Lines, First, Second, Compact
<1>9. CASE Onboard \/ ScreenDone \/ AnswerWithSummary \/ SendLine \/ SeeEcho
          \/ AnswerPoll \/ AnswerSeen \/ QuietPoll \/ Exit
  BY <1>9, SMTT(30) DEF Onboard, ScreenDone, AnswerWithSummary, SendLine, SeeEcho, AnswerPoll,
     AnswerSeen, QuietPoll, Exit, AwaitAnswer, AwaitScreen
<1>10. CASE Started \/ Take \/ Finish
  BY <1>10 DEF Started, Take, Finish
<1>11. CASE UNCHANGED vars
  BY <1>11 DEF vars
<1> QED BY <1>1, <1>2, <1>3, <1>4, <1>5, <1>6, <1>7, <1>8, <1>9, <1>10, <1>11,
     StepCases DEF Runner, Agent

\* Places, lines and texts stay what they are.
LEMMA PlacesStep ==
  ASSUME Places, [Next]_vars
  PROVE  Places'
<1> USE DEF Places, runnerVars, signalVars, agentVars, historyVars
<1>1. CASE Launch
  <2>1. <<First>> \in Seq(Lines) /\ << >> \in Seq(Lines)
    BY DEF Lines, First, Second, Compact
  <2>2. composer' \in Seq(Lines)
    BY <1>1, <2>1 DEF Launch
  <2> QED BY <1>1, <2>2 DEF Launch
<1>2. CASE SendLine
  <2>1. Append(composer, line) \in Seq(Lines)
    OBVIOUS
  <2>2. composer' \in Seq(Lines)
    BY <1>2, <2>1 DEF SendLine
  <2> QED BY <1>2, <2>2 DEF SendLine, AwaitAnswer
<1>3. CASE Settled
  BY <1>3 DEF Settled, AfterTurn, AwaitScreen, EndOfWait, Ends, Lines, First, Second,
     Compact
<1>4. CASE Take
  BY <1>4 DEF Take
<1>5. CASE FireStop
  BY <1>5 DEF FireStop, Lines
<1>6. CASE Onboard \/ ScreenPoll \/ ScreenDone \/ TakeMark \/ AnswerWithSummary
          \/ SeeEcho \/ AnswerPoll \/ AnswerSeen \/ QuietPoll \/ QuietLook \/ Exit
  BY <1>6 DEF Onboard, ScreenPoll, ScreenDone, TakeMark, AnswerWithSummary, SeeEcho,
     AnswerPoll, AnswerSeen, QuietPoll, QuietLook, Exit, AwaitAnswer, AwaitScreen, Mark
<1>7. CASE Started \/ AnswerTurn \/ AnswerAside \/ Finish
  BY <1>7 DEF Started, AnswerTurn, AnswerAside, Finish, Answered
<1>8. CASE UNCHANGED vars
  BY <1>8 DEF vars
<1> QED BY <1>1, <1>2, <1>3, <1>4, <1>5, <1>6, <1>7, <1>8, StepCases DEF Runner, Agent

\* Every answer and every stop hook is counted once.
LEMMA CountsStep ==
  ASSUME Numbers, Places, Counts, [Next]_vars
  PROVE  Counts'
<1> USE DEF Counts, Numbers, Places, Fired, Got, Lines, First, Second, Compact, runnerVars,
     signalVars, agentVars, historyVars
<1>1. CASE QuietPoll
  BY <1>1 DEF QuietPoll
<1>2. CASE AnswerTurn
  BY <1>2 DEF AnswerTurn, Answered
<1>3. CASE AnswerAside
  BY <1>3 DEF AnswerAside, Answered
<1>4. CASE FireStop
  BY <1>4 DEF FireStop
<1>5. CASE Launch \/ Onboard \/ ScreenPoll \/ ScreenDone \/ TakeMark
          \/ AnswerWithSummary \/ SendLine \/ SeeEcho \/ AnswerPoll \/ AnswerSeen
          \/ QuietLook \/ Settled \/ Exit
  BY <1>5 DEF Launch, Onboard, ScreenPoll, ScreenDone, TakeMark, AnswerWithSummary,
     SendLine, SeeEcho, AnswerPoll, AnswerSeen, QuietLook, Settled, Exit, Mark,
     AwaitAnswer, AwaitScreen, AfterTurn
<1>6. CASE Started \/ Take \/ Finish
  BY <1>6 DEF Started, Take, Finish
<1>7. CASE UNCHANGED vars
  BY <1>7 DEF vars
<1> QED BY <1>1, <1>2, <1>3, <1>4, <1>5, <1>6, <1>7, StepCases DEF Runner, Agent

\* The domains are kept by every step.
LEMMA TypesStep == Types /\ [Next]_vars => Types'
BY FlagsStep, NumbersStep, PlacesStep, CountsStep DEF Types

\* Every variable keeps to its domain: the mock's count and the stop hooks do
\* not run ahead of the agent, and no wait outlasts its limits.
THEOREM TypeCorrect == Spec => []TypeOK
<1>1. Spec => []Types
  BY TypesInit, TypesStep, PTL DEF Spec
<1>2. Types => TypeOK
  BY Parts DEF Types
<1> QED BY <1>1, <1>2, PTL

---------------------------------------------------------------------------
(***************************************************************************)
(* The screen                                                              *)
(***************************************************************************)
\* A poll that counts as quiet finds the agent at rest, and nothing but a line
\* sent to it ends that rest.
LEMMA ScreenStep ==
  ASSUME Numbers, Places, ScreenIsQuiet, [Next]_vars
  PROVE  ScreenIsQuiet'
<1> USE QuietAssumption, TimeoutAssumption DEF Numbers, Places, ScreenIsQuiet,
     LinesAreTaken, Calm, Working, Second, runnerVars, signalVars, agentVars, historyVars
<1>1. CASE ScreenPoll
  BY <1>1 DEF ScreenPoll
<1>2. CASE ScreenDone
  <2>1. overrun => overrun'
    BY <1>2, Zenon DEF ScreenDone
  <2>2. since < ScreenQuiet => overrun'
    BY <1>2, Zenon DEF ScreenDone
  <2>3. since >= ScreenQuiet => Calm
    BY <1>2 DEF ScreenDone
  <2>4. Calm' \/ overrun'
    BY <1>2, <2>2, <2>3 DEF ScreenDone
  <2>5. (lost \cap {First, Compact} # {} => overrun)'
    BY <1>2, <2>1 DEF ScreenDone
  <2>6. pc' = "mark"
    BY <1>2 DEF ScreenDone
  <2> QED BY <2>4, <2>5, <2>6
<1>3. CASE SendLine
  BY <1>3 DEF SendLine, AwaitAnswer, First, Compact
<1>4. CASE Settled
  BY <1>4, SMTT(20) DEF Settled, AfterTurn, AwaitScreen, First, Compact
<1>5. CASE Launch \/ Onboard \/ TakeMark \/ AnswerWithSummary \/ SeeEcho \/ AnswerPoll
          \/ AnswerSeen \/ QuietPoll \/ QuietLook \/ Exit
  BY <1>5 DEF Launch, Onboard, TakeMark, AnswerWithSummary, SeeEcho, AnswerPoll,
     AnswerSeen, QuietPoll, QuietLook, Exit, Mark, AwaitAnswer, AwaitScreen
<1>6. CASE Started \/ Take \/ AnswerTurn \/ AnswerAside \/ FireStop \/ Finish
  BY <1>6 DEF Started, Take, AnswerTurn, AnswerAside, FireStop, Finish, Answered
<1>7. CASE UNCHANGED vars
  BY <1>7 DEF vars
<1> QED BY <1>1, <1>2, <1>3, <1>4, <1>5, <1>6, <1>7, StepCases DEF Runner, Agent

---------------------------------------------------------------------------
(***************************************************************************)
(* The text for the compaction                                             *)
(***************************************************************************)
\* The answer is replaced by an agent's rest and put back when its wait is over.
LEMMA SummaryStep ==
  ASSUME Numbers, Places, ScreenIsQuiet, SummaryIsHeld, [Next]_vars
  PROVE  SummaryIsHeld'
<1> USE DEF Places, SummaryIsHeld, SummaryIsForCompaction, Lines, First, Second, Compact,
     runnerVars, signalVars, agentVars, historyVars
<1>1. CASE Launch
  BY <1>1 DEF Launch, Mark
<1>2. CASE Onboard
  BY <1>2 DEF Onboard, AwaitAnswer, AwaitScreen
<1>3. CASE TakeMark
  BY <1>3 DEF TakeMark, Mark
<1>4. CASE AnswerWithSummary
  BY <1>4 DEF AnswerWithSummary, ScreenIsQuiet, Calm
<1>5. CASE SendLine
  BY <1>5, SMTT(20) DEF SendLine, AwaitAnswer
<1>6. CASE SeeEcho
  BY <1>6 DEF SeeEcho
<1>7. CASE AnswerSeen
  BY <1>7 DEF AnswerSeen
<1>8. CASE QuietPoll
  BY <1>8 DEF QuietPoll
<1>9. CASE Settled
  BY <1>9 DEF Settled, AfterTurn, AwaitScreen
<1>10. CASE Take
  BY <1>10 DEF Take
<1>11. CASE AnswerTurn
  BY <1>11 DEF AnswerTurn, Answered
<1>12. CASE ScreenPoll \/ ScreenDone \/ AnswerPoll \/ QuietLook \/ Exit
  BY <1>12 DEF ScreenPoll, ScreenDone, AnswerPoll, QuietLook, Exit
<1>13. CASE Started \/ AnswerAside \/ FireStop \/ Finish
  BY <1>13 DEF Started, AnswerAside, FireStop, Finish, Answered
<1>14. CASE UNCHANGED vars
  BY <1>14 DEF vars
<1> QED BY <1>1, <1>2, <1>3, <1>4, <1>5, <1>6, <1>7, <1>8, <1>9, <1>10, <1>11, <1>12,
     <1>13, <1>14, StepCases DEF Runner, Agent

---------------------------------------------------------------------------
(***************************************************************************)
(* Marks                                                                   *)
(***************************************************************************)
\* The agent is ahead of the runner at no line.
LEMMA OrderStep ==
  ASSUME Numbers, Places, SummaryIsHeld, LinesInOrder, [Next]_vars
  PROVE  LinesInOrder'
<1> USE DEF Places, SummaryIsHeld, LinesInOrder, Sent, Lines, First, Second, Compact,
     runnerVars, signalVars, agentVars, historyVars
<1>1. CASE Launch
  BY <1>1 DEF Launch, Mark
<1>2. CASE Onboard
  BY <1>2 DEF Onboard, AwaitAnswer, AwaitScreen
<1>3. CASE ScreenPoll
  BY <1>3 DEF ScreenPoll
<1>4. CASE ScreenDone
  BY <1>4 DEF ScreenDone
<1>5. CASE TakeMark
  BY <1>5 DEF TakeMark, Mark
<1>6. CASE AnswerWithSummary
  BY <1>6 DEF AnswerWithSummary
<1>7. CASE SendLine
  <2>1. line \in Lines /\ composer \in Seq(Lines)
    OBVIOUS
  <2>2. \A n \in Lines : Sent(n) => Sent(n)'
    BY <1>7, <2>1 DEF SendLine, AwaitAnswer
  <2>3. Sent(line)'
    BY <1>7, <2>1 DEF SendLine, AwaitAnswer
  <2>4. ASSUME NEW i \in 1 .. Len(composer') PROVE Sent(composer[i])'
    <3>1. CASE i \in 1 .. Len(composer)
      <4>1. composer'[i] = composer[i] /\ composer[i] \in Lines
        BY <1>7, <2>1, <3>1, AppendKeeps DEF SendLine
      <4> QED BY <1>7, <2>2, <3>1, <4>1
    <3>2. CASE i \notin 1 .. Len(composer)
      <4>1. composer'[i] = line
        BY <1>7, <2>1, <3>2 DEF SendLine
      <4>2. line' = line
        BY <1>7 DEF SendLine
      <4> QED BY <2>3, <4>1, <4>2
    <3> QED BY <3>1, <3>2
  <2> QED BY <1>7, <2>2, <2>4 DEF SendLine, AwaitAnswer
<1>8. CASE SeeEcho
  BY <1>8 DEF SeeEcho
<1>9. CASE AnswerPoll
  BY <1>9 DEF AnswerPoll
<1>10. CASE AnswerSeen
  BY <1>10 DEF AnswerSeen
<1>11. CASE QuietPoll
  BY <1>11 DEF QuietPoll
<1>12. CASE QuietLook
  BY <1>12 DEF QuietLook
<1>13. CASE Settled
  BY <1>13 DEF Settled, AfterTurn, AwaitScreen, EndOfWait, Ends
<1>14. CASE Exit
  BY <1>14 DEF Exit
<1>15. CASE Started
  BY <1>15 DEF Started
<1>16. CASE Take
  BY <1>16 DEF Take
<1>17. CASE AnswerTurn
  BY <1>17 DEF AnswerTurn, Answered
<1>18. CASE AnswerAside
  BY <1>18 DEF AnswerAside, Answered
<1>19. CASE FireStop
  BY <1>19 DEF FireStop
<1>20. CASE Finish
  BY <1>20 DEF Finish
<1>21. CASE UNCHANGED vars
  BY <1>21 DEF vars
<1> QED BY <1>1, <1>2, <1>3, <1>4, <1>5, <1>6, <1>7, <1>8, <1>9, <1>10, <1>11, <1>12,
     <1>13, <1>14, <1>15, <1>16, <1>17, <1>18, <1>19, <1>20, <1>21, StepCases DEF Runner,
     Agent

\* A mark is taken before its line is sent; each answer and each stop hook after
\* it counts beyond it.
LEMMA MarkStep ==
  ASSUME Numbers, Places, SummaryIsHeld, LinesInOrder, MarkIsOwn, [Next]_vars
  PROVE  MarkIsOwn'
<1> USE DEF Numbers, Places, MarkIsOwn, Marked, LinesInOrder, Sent, Lines, First, Second,
     Compact, runnerVars, signalVars, agentVars, historyVars
<1>1. CASE Launch
  <2>1. line = First /\ answer[First] = "none" /\ First \notin stopped
    BY <1>1 DEF Launch, SummaryIsHeld
  <2>2. /\ mark'.answers = answers
        /\ mark'.stops <= stops
        /\ harness.stop => mark'.stops >= 0
    <3>1. mark' = Mark(TRUE)
      BY <1>1 DEF Launch
    <3> QED BY <3>1 DEF Mark
  <2>3. /\ pc' \in {"onboard", "done"}
        /\ UNCHANGED <<harness, line, answers, stops, answer, stopped>>
    BY <1>1 DEF Launch
  <2>4. (Marked => /\ line \in stopped => stops > mark.stops
                   /\ answer[line] # "none" => answers > mark.answers
                   /\ line = Compact => mark.answers = -1)'
    BY <2>1, <2>3
  <2> QED BY <2>2, <2>3, <2>4
<1>2. CASE Onboard
  BY <1>2 DEF Onboard, AwaitAnswer, AwaitScreen, SummaryIsHeld
<1>3. CASE ScreenDone
  BY <1>3 DEF ScreenDone
<1>4. CASE TakeMark
  BY <1>4 DEF TakeMark, Mark
<1>5. CASE AnswerWithSummary
  BY <1>5 DEF AnswerWithSummary, SummaryIsHeld
<1>6. CASE SendLine
  BY <1>6 DEF SendLine, AwaitAnswer
<1>7. CASE SeeEcho
  BY <1>7 DEF SeeEcho
<1>8. CASE AnswerSeen
  BY <1>8 DEF AnswerSeen
<1>9. CASE QuietPoll
  BY <1>9 DEF QuietPoll, StopSeen
<1>10. CASE QuietLook
  BY <1>10 DEF QuietLook
<1>11. CASE Settled
  BY <1>11 DEF Settled, AfterTurn, AwaitScreen
<1>12. CASE Exit
  BY <1>12 DEF Exit
<1>13. CASE AnswerTurn
  BY <1>13 DEF AnswerTurn, Answered
<1>14. CASE AnswerAside
  BY <1>14 DEF AnswerAside, Answered
<1>15. CASE FireStop
  BY <1>15 DEF FireStop
<1>16. CASE ScreenPoll \/ AnswerPoll
  BY <1>16 DEF ScreenPoll, AnswerPoll
<1>17. CASE Started \/ Take \/ Finish
  BY <1>17, SMTT(20) DEF Started, Take, Finish
<1>18. CASE UNCHANGED vars
  BY <1>18 DEF vars
<1> QED BY <1>1, <1>2, <1>3, <1>4, <1>5, <1>6, <1>7, <1>8, <1>9, <1>10, <1>11, <1>12,
     <1>13, <1>14, <1>15, <1>16, <1>17, <1>18, StepCases DEF Runner, Agent

\* The compaction's wait does not end on a stop hook before its answer, but for a
\* straggler.
LEMMA AwaitedStep ==
  ASSUME Numbers, Places, SummaryIsHeld, LinesInOrder, MarkIsOwn, CompactionIsAwaited, [Next]_vars
  PROVE  CompactionIsAwaited'
<1> USE DEF Numbers, Places, CompactionIsAwaited, Marked, StopSeen, Lines, First, Second,
     Compact, runnerVars, signalVars, agentVars, historyVars
<1>1. CASE TakeMark
  BY <1>1 DEF TakeMark, Mark
<1>2. CASE SendLine
  BY <1>2 DEF SendLine, AwaitAnswer
<1>3. CASE Settled
  BY <1>3 DEF Settled, AfterTurn, AwaitScreen, EndOfWait, MarkIsOwn, LinesInOrder, Ends
<1>4. CASE AnswerTurn
  BY <1>4 DEF AnswerTurn, Answered, LinesInOrder, Sent, SummaryIsHeld, Running
<1>5. CASE FireStop
  <2>1. PICK n \in Lines \ stopped :
          /\ answer[n] # "none"
          /\ stopped' = stopped \cup {n}
          /\ stragglers' = IF ended[n] # "none" THEN stragglers \cup {n} ELSE stragglers
    BY <1>5 DEF FireStop
  <2>2. line = Compact => n = Compact \/ ended[n] # "none"
    BY DEF LinesInOrder
  <2>3. line = Compact => (Compact \in stopped \/ stragglers # {})'
    BY <2>1, <2>2
  <2>4. stragglers # {} => stragglers' # {}
    BY <2>1
  <2> QED BY <1>5, <2>3, <2>4 DEF FireStop
<1>6. CASE Launch \/ Onboard \/ ScreenPoll \/ ScreenDone \/ AnswerWithSummary
          \/ SeeEcho \/ AnswerPoll \/ AnswerSeen \/ QuietPoll \/ QuietLook \/ Exit
  BY <1>6, SMTT(30) DEF Launch, Onboard, ScreenPoll, ScreenDone, AnswerWithSummary, SeeEcho,
     AnswerPoll, AnswerSeen, QuietPoll, QuietLook, Exit, Mark, AwaitAnswer, AwaitScreen
<1>7. CASE Started \/ Take \/ AnswerAside \/ Finish
  BY <1>7 DEF Started, Take, AnswerAside, Finish, Answered
<1>8. CASE UNCHANGED vars
  BY <1>8 DEF vars
<1> QED BY <1>1, <1>2, <1>3, <1>4, <1>5, <1>6, <1>7, <1>8, StepCases DEF Runner, Agent

---------------------------------------------------------------------------
(***************************************************************************)
(* Theorems                                                                *)
(***************************************************************************)
IInv ==
  /\ Types
  /\ ScreenIsQuiet /\ SummaryIsHeld
  /\ LinesInOrder /\ MarkIsOwn /\ CompactionIsAwaited

\* Only the end of a wait is recorded as one.
LEMMA EndedBySettled == [Next]_vars /\ ended' # ended => Settled
<1> SUFFICES ASSUME [Next]_vars, ended' # ended PROVE Settled
  OBVIOUS
<1> USE DEF historyVars
<1>1. Agent => ended' = ended
  BY DEF Agent, Started, Take, AnswerTurn, AnswerAside, FireStop, Finish
<1>2. Runner => Settled \/ ended' = ended
  BY DEF Runner, Launch, Onboard, ScreenPoll, ScreenDone, TakeMark, AnswerWithSummary,
     SendLine, SeeEcho, AnswerPoll, AnswerSeen, QuietPoll, QuietLook, Exit
<1> QED BY <1>1, <1>2, StepCases DEF vars

\* All of it holds before the launch.
LEMMA InvInit == Init => IInv
<1> SUFFICES ASSUME Init PROVE IInv
  OBVIOUS
<1> USE DEF Init, Lines, First, Second, Compact
<1>1. ScreenIsQuiet
  BY DEF ScreenIsQuiet, LinesAreTaken
<1>2. SummaryIsHeld
  BY DEF SummaryIsHeld, SummaryIsForCompaction
<1>3. LinesInOrder
  BY DEF LinesInOrder
<1>4. MarkIsOwn
  BY DEF MarkIsOwn, Marked
<1>5. CompactionIsAwaited
  BY DEF CompactionIsAwaited, Marked
<1> QED BY TypesInit, <1>1, <1>2, <1>3, <1>4, <1>5 DEF IInv

\* The invariant of the interactive phase is inductive.
THEOREM Invariant == Spec => []IInv
<1>1. IInv /\ [Next]_vars => IInv'
  BY TypesStep, ScreenStep, SummaryStep, OrderStep, MarkStep, AwaitedStep DEF IInv, Types
<1> QED BY InvInit, <1>1, PTL DEF Spec

\* The first prompt and the compaction are lost to no screen that had fallen
\* quiet (LinesAreTaken), whatever the windows and deadlines are.
THEOREM LinesTaken == Spec => []LinesAreTaken
<1>1. IInv => LinesAreTaken
  BY DEF IInv, ScreenIsQuiet
<1> QED BY <1>1, Invariant, PTL

\* The text for the compaction answers no prompt (SummaryIsForCompaction).
THEOREM SummaryKept == Spec => []SummaryIsForCompaction
<1>1. IInv => SummaryIsForCompaction
  BY DEF IInv, SummaryIsHeld
<1> QED BY <1>1, Invariant, PTL

\* A compaction that got the short line was given up on first
\* (ShortSummaryIsExcused).
THEOREM ShortSummaryExcused == Spec => []ShortSummaryIsExcused
<1>1. IInv => ShortSummaryIsExcused
  <2> SUFFICES ASSUME IInv, answer[Compact] = "short"
               PROVE  ended[Compact] \in {"quiet", "deadline"} \/ stragglers # {}
    BY DEF ShortSummaryIsExcused
  <2>1. ended[Compact] \in Ends \ {"none", "unanswered"}
    BY DEF IInv, Types, Places, CompactionIsAwaited, Lines
  <2>2. ended[Compact] = "stop" => stragglers # {}
    BY DEF IInv, CompactionIsAwaited
  <2> QED BY <2>1, <2>2 DEF Ends
<1> QED BY <1>1, Invariant, PTL

\* No answer is missed: a wait that gives up for want of one had none
\* (GivesUpUnanswered).
THEOREM GivesUpOnlyUnanswered == Spec => GivesUpUnanswered
<1>1. IInv /\ [Next]_vars =>
        [\A n \in Lines :
           (ended[n] = "none" /\ ended'[n] = "unanswered") => answer[n] = "none"]_vars
  <2> SUFFICES ASSUME IInv, [Next]_vars,
                      NEW n \in Lines, ended[n] = "none", ended'[n] = "unanswered"
               PROVE  answer[n] = "none"
    OBVIOUS
  <2>1. ended' # ended
    OBVIOUS
  <2>2. Settled
    BY <2>1, EndedBySettled
  <2>3. n = line /\ EndOfWait = "unanswered"
    BY <2>2 DEF Settled, IInv, Types, Places
  <2>4. ~(answers > mark.answers)
    BY <2>3 DEF EndOfWait, IInv, Types, Numbers
  <2> QED BY <2>2, <2>3, <2>4 DEF Settled, IInv, MarkIsOwn, Marked
<1> QED BY <1>1, Invariant, PTL DEF Spec, GivesUpUnanswered

\* No stop hook is missed: one that fired before the runner's last look has
\* ended the wait (QuietMeansNoStop).
THEOREM QuietOnlyWithoutStop == Spec => QuietMeansNoStop
<1>1. IInv /\ [Next]_vars =>
        [\A n \in Lines :
           (ended[n] = "none" /\ ended'[n] = "quiet") => n \notin stopped \/ news]_vars
  <2> SUFFICES ASSUME IInv, [Next]_vars,
                      NEW n \in Lines, ended[n] = "none", ended'[n] = "quiet"
               PROVE  n \notin stopped \/ news
    OBVIOUS
  <2>1. ended' # ended
    OBVIOUS
  <2>2. Settled
    BY <2>1, EndedBySettled
  <2>3. n = line /\ EndOfWait = "quiet"
    BY <2>2 DEF Settled, IInv, Types, Places
  <2>4. since > 0
    BY <2>3, QuietAssumption DEF EndOfWait, IInv, Types, Numbers
  <2> QED BY <2>2, <2>3, <2>4 DEF Settled, IInv, MarkIsOwn
<1> QED BY <1>1, Invariant, PTL DEF Spec, QuietMeansNoStop

---------------------------------------------------------------------------
(***************************************************************************)
(* The phase is bounded                                                    *)
(***************************************************************************)
\* The most steps the runner takes for one line, and for the lines to come.
Round == 2 * Timeout + ScreenMax + 8
ToCome ==
  CASE line = First   -> Round + Round + 1
    [] line = Second  -> Round + 1
    [] line = Compact -> 1

\* The most steps the runner still takes, wherever it is.  A poll of the quiet
\* window is two of them, the sleep and the look after it.
StepsLeft ==
  CASE pc = "done"    -> 0
    [] pc = "exit"    -> 1
    [] pc = "quiet"   -> ToCome + 2 * left + 1
    [] pc = "asleep"  -> ToCome + 2 * left + 2
    [] pc = "answer"  -> ToCome + 2 * left + 2
    [] pc = "echo"    -> ToCome + 2 * Timeout + 2
    [] pc = "send"    -> ToCome + 2 * Timeout + 3
    [] pc = "summary" -> ToCome + 2 * Timeout + 4
    [] pc = "mark"    -> ToCome + 2 * Timeout + 5
    [] pc = "screen"  -> ToCome + 2 * Timeout + 6 + left
    [] pc = "onboard" -> ToCome + 2 * Timeout + 7 + ScreenMax
    [] pc = "launch"  -> ToCome + Round

LEMMA StepsCounted == Types => StepsLeft \in Nat
<1> SUFFICES ASSUME Types PROVE StepsLeft \in Nat
  OBVIOUS
<1>1. left \in Nat /\ Timeout \in Nat /\ ScreenMax \in Nat
  BY TimeoutAssumption DEF Types, Numbers
<1>2. ToCome \in Nat /\ Round \in Nat
  BY <1>1 DEF Types, Places, ToCome, Round, Lines, First, Second, Compact
<1>3. pc \in {"launch", "onboard", "screen", "mark", "summary", "send", "echo",
             "answer", "quiet", "asleep", "exit", "done"}
  BY DEF Types, Places
<1> QED BY <1>1, <1>2, <1>3 DEF StepsLeft

\* Every step of the runner uses up one of those it has left.
LEMMA RunnerStep ==
  ASSUME Types, Runner
  PROVE  StepsLeft' < StepsLeft
<1>1. left \in Nat /\ Timeout \in Nat /\ ScreenMax \in Nat /\ line \in Lines
  BY TimeoutAssumption DEF Types, Numbers, Places
<1>2. ToCome \in Nat /\ Round \in Nat
  BY <1>1 DEF ToCome, Round, Lines, First, Second, Compact
<1>3. line' = line => ToCome' = ToCome
  BY DEF ToCome, Round
<1>4. CASE Launch
  BY <1>1, <1>2, <1>3, <1>4 DEF Launch, StepsLeft, Round
<1>5. CASE Onboard
  BY <1>1, <1>2, <1>3, <1>5 DEF Onboard, AwaitAnswer, AwaitScreen, StepsLeft
<1>6. CASE ScreenPoll \/ ScreenDone
  BY <1>1, <1>2, <1>3, <1>6 DEF ScreenPoll, ScreenDone, StepsLeft
<1>7. CASE TakeMark \/ AnswerWithSummary
  BY <1>1, <1>2, <1>3, <1>7 DEF TakeMark, AnswerWithSummary, StepsLeft
<1>8. CASE SendLine \/ SeeEcho
  BY <1>1, <1>2, <1>3, <1>8 DEF SendLine, SeeEcho, AwaitAnswer, StepsLeft
<1>9. CASE AnswerPoll \/ AnswerSeen
  BY <1>1, <1>2, <1>3, <1>9 DEF AnswerPoll, AnswerSeen, StepsLeft
<1>10. CASE QuietPoll \/ QuietLook
  BY <1>1, <1>2, <1>3, <1>10 DEF QuietPoll, QuietLook, StepsLeft
<1>11. CASE Settled
  <2>1. pc = "quiet" /\ StepsLeft = ToCome + 2 * left + 1
    BY <1>11 DEF Settled, StepsLeft
  <2>2. \/ line = First /\ line' = Second /\ pc' = "mark"
        \/ line = Second /\ line' = Compact /\ pc' = "screen" /\ left' = ScreenMax
        \/ pc' = "exit"
    BY <1>1, <1>11 DEF Settled, AfterTurn, AwaitScreen, Lines, First, Second, Compact
  <2>3. CASE line = First /\ line' = Second /\ pc' = "mark"
    <3>1. ToCome = Round + Round + 1 /\ ToCome' = Round + 1
      BY <2>3 DEF ToCome, Round, First, Second, Compact
    <3>2. StepsLeft' = Round + 1 + 2 * Timeout + 5
      BY <2>3, <3>1 DEF StepsLeft
    <3> QED BY <1>1, <2>1, <3>1, <3>2 DEF Round
  <2>4. CASE line = Second /\ line' = Compact /\ pc' = "screen" /\ left' = ScreenMax
    <3>1. ToCome = Round + 1 /\ ToCome' = 1
      BY <2>4 DEF ToCome, Round, First, Second, Compact
    <3>2. StepsLeft' = 1 + 2 * Timeout + 6 + ScreenMax
      BY <2>4, <3>1 DEF StepsLeft
    <3> QED BY <1>1, <2>1, <3>1, <3>2 DEF Round
  <2>5. CASE pc' = "exit"
    <3>1. StepsLeft' = 1
      BY <2>5 DEF StepsLeft
    <3>2. ToCome >= 1
      BY <1>1 DEF ToCome, Round, Lines, First, Second, Compact
    <3> QED BY <1>1, <1>2, <2>1, <3>1, <3>2
  <2> QED BY <2>2, <2>3, <2>4, <2>5
<1>12. CASE Exit
  BY <1>12 DEF Exit, StepsLeft
<1> QED BY <1>4, <1>5, <1>6, <1>7, <1>8, <1>9, <1>10, <1>11, <1>12 DEF Runner

\* The safety half of PhaseEnds: whatever the agent does, a step of the runner
\* leaves it fewer steps than it had and no step of the agent gives it more,
\* so that it takes no more than the three rounds it starts with
\* (runInteractive: no wait of it is renewed by what the agent shows).
THEOREM PhaseIsBounded ==
  Spec => /\ StepsLeft = 3 * Round + 1
          /\ [](StepsLeft \in Nat)
          /\ [][IF Runner THEN StepsLeft' < StepsLeft ELSE StepsLeft' = StepsLeft]_vars
<1>1. Init => StepsLeft = 3 * Round + 1
  BY TimeoutAssumption DEF Init, StepsLeft, ToCome, Round, First, Second, Compact
<1>2. Types => StepsLeft \in Nat
  BY StepsCounted
<1>3. Types /\ [Next]_vars
      => [IF Runner THEN StepsLeft' < StepsLeft ELSE StepsLeft' = StepsLeft]_vars
  <2> SUFFICES ASSUME Types, [Next]_vars
               PROVE  [IF Runner THEN StepsLeft' < StepsLeft ELSE StepsLeft' = StepsLeft]_vars
    OBVIOUS
  <2>1. CASE Runner
    BY <2>1, RunnerStep
  <2>2. CASE Agent
    <3>1. UNCHANGED runnerVars
      BY <2>2 DEF Agent, Started, Take, AnswerTurn, AnswerAside, FireStop, Finish
    <3>2. StepsLeft' = StepsLeft
      BY <3>1 DEF StepsLeft, ToCome, Round, runnerVars
    <3> QED BY <3>2, RunnerStep
  <2> QED BY <2>1, <2>2, StepCases
<1>4. Types /\ [Next]_vars => Types'
  BY TypesStep
<1> QED BY <1>1, <1>2, <1>3, <1>4, TypesInit, PTL DEF Spec
===========================================================================
