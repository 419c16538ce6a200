-------------------------- MODULE ResumeProbe_proofs --------------------------
(***************************************************************************)
(* Theorems about ResumeProbe: for every list of delays, any ResumeAfter,  *)
(* any time an agent takes to write its session and whatever it does       *)
(* between two steps of the probe.                                         *)
(***************************************************************************)
EXTENDS ResumeProbe, FiniteSetTheorems, TLAPS

(* Where a load has been accepted or given up: no load comes after these,  *)
(* but the second of an in-flight probe.                                   *)
Loaded == {"ask", "poll", "settle", "observe", "again", "done"}

Times == /\ plan \in Plans
         /\ now \in Nat /\ endedAt \in Nat /\ tries \in 0 .. Len(Delays) /\ proc \in Nat

(* A driver is open only where its process is the last one started, and    *)
(* none is where a session is about to be started.                         *)
OneDriver ==
  /\ open = {} \/ open = {proc}
  /\ at \in {"start", "load", "again", "done"} => open = {}
  /\ answer = IF at = "compacting" THEN "summary" ELSE "line"

(* A refusal is one the agent's lag explains, and every delay that was     *)
(* tried has one.                                                          *)
RefusalLedger ==
  /\ refusals \subseteq Nat /\ \A t \in refusals : agent.lag > t
  /\ at \notin Loaded =>
       \A i \in 1 .. tries : \E t \in refusals : t >= Delays[i] + probe.after
  /\ "resume.load:not-resumed" \in checks => at \in Loaded
  /\ "resume.retried" \in checks => at \in Loaded

IInv == Times /\ OneDriver /\ RefusalLedger /\ NotResumedIsTrue

---------------------------------------------------------------------------
(* What the plans and the delays are.                                      *)
LEMMA PlanTypes ==
  ASSUME plan \in Plans
  PROVE  probe.after \in Nat /\ agent.lag \in Nat
  BY PlansAssumption, DelaysAssumption DEF Probe, Agent, probe, agent

LEMMA DelayTypes ==
  /\ Len(Delays) \in Nat \ {0} /\ DOMAIN Delays = 1 .. Len(Delays)
  /\ \A i \in 1 .. Len(Delays) : Delays[i] \in Nat
  BY DelaysAssumption

(* holdBack: never before the time asked for, and never back in time.      *)
LEMMA LaterIsLater ==
  ASSUME now \in Nat, NEW t \in Nat
  PROVE  Later(t) \in Nat /\ Later(t) >= t /\ Later(t) >= now
  BY DEF Later

(* A load that is refused came before the session was on disk.             *)
LEMMA RefusedEarly ==
  ASSUME Times, NEW t \in Nat, t >= endedAt, ~Accepts(t)
  PROVE  t - endedAt \in Nat /\ agent.lag > t - endedAt
  BY PlanTypes DEF Times, Accepts, OnDisk

(* What an agent does changes nothing these invariants speak of.           *)
LEMMA AgentChanges ==
  ASSUME AgentStep
  PROVE  UNCHANGED <<plan, at, now, endedAt, tries, proc, open, answer, checks, refusals>>
  BY DEF AgentStep, SideRequest, SendTurn, TakeCommand, Tell, EndTurn, AskApproval, RunTool, Exit,
     clock, driver, session

LEMMA Unchanged ==
  ASSUME IInv,
         UNCHANGED <<plan, at, now, endedAt, tries, proc, open, answer, checks, refusals>>
  PROVE  IInv'
  BY DEF IInv, Times, OneDriver, RefusalLedger, NotResumedIsTrue, probe, agent

LEMMA InitInv == ResumeInit => IInv
  BY DelayTypes DEF ResumeInit, IInv, Times, OneDriver, RefusalLedger, NotResumedIsTrue, Loaded

---------------------------------------------------------------------------
(* The clock and the processes.                                            *)
LEMMA TimesStep == Times /\ RunnerStep => Times'
<1> SUFFICES ASSUME Times, RunnerStep PROVE Times'
  OBVIOUS
<1>0. probe.after \in Nat /\ \A i \in 1 .. Len(Delays) : Delays[i] \in Nat
  BY PlanTypes, DelayTypes DEF Times
<1>1. CASE Attempt
  <2>1. tries + 1 \in 1 .. Len(Delays)
    BY <1>1, DelayTypes DEF Attempt, Times
  <2>5. endedAt + Delays[tries + 1] + probe.after \in Nat
    BY <2>1, <1>0 DEF Times
  <2>2. AttemptAt(tries + 1) \in Nat
    BY <2>5, LaterIsLater DEF AttemptAt, Times
  <2>3. now' \in Nat
    BY <1>1, <2>2 DEF Attempt
  <2>4. proc' \in Nat
    BY <1>1 DEF Attempt, Resumed, Opened, Times, driver
  <2> QED BY <1>1, <2>1, <2>3, <2>4 DEF Attempt, Times
<1>2. CASE LoadOnce
  <2>2. endedAt + probe.after \in Nat
    BY <1>0 DEF Times
  <2>1. now' \in Nat
    BY <1>2, <2>2, LaterIsLater DEF LoadOnce, Times
  <2> QED BY <1>2, <2>1 DEF LoadOnce, Resumed, Opened, Times, driver
<1>3. CASE LoadAgain
  BY <1>3, <1>0 DEF LoadAgain, Times
<1>4. CASE WaitFirst
  BY <1>4 DEF WaitFirst, Times, driver
<1>5. CASE StartFirst \/ StartUnkillable \/ PromptFirst \/ Fill \/ SendCommand \/ CommandWaited
  BY <1>5 DEF StartFirst, StartUnkillable, PromptFirst, Fill, SendCommand, CommandWaited, Opened,
     Ended, Times, clock, driver
<1>6. CASE JudgeCompaction \/ EndFirst \/ GiveUp \/ Parked
  BY <1>6 DEF JudgeCompaction, EndFirst, GiveUp, Parked, Ended, Times, clock, driver
<1>7. CASE AskResumed \/ PollEnds \/ ReportContext \/ ReportInFlight \/ Observe
  BY <1>7 DEF AskResumed, PollEnds, ReportContext, ReportInFlight, Observe, Ended, Times, clock,
     driver
<1> QED BY <1>1, <1>2, <1>3, <1>4, <1>5, <1>6, <1>7 DEF RunnerStep

(* The driver and the canned answer.                                       *)
LEMMA OneDriverStep == Times /\ OneDriver /\ RunnerStep => OneDriver'
<1> SUFFICES ASSUME Times, OneDriver, RunnerStep PROVE OneDriver'
  OBVIOUS
<1>1. CASE StartFirst \/ StartUnkillable
  BY <1>1 DEF StartFirst, StartUnkillable, Opened, Stop, OneDriver, driver
<1>2. CASE PromptFirst \/ WaitFirst \/ Fill
  BY <1>2 DEF PromptFirst, WaitFirst, Fill, Ended, Stop, OneDriver, driver
<1>3. CASE SendCommand \/ CommandWaited
  BY <1>3 DEF SendCommand, CommandWaited, OneDriver, driver
<1>4. CASE JudgeCompaction \/ EndFirst \/ Parked
  BY <1>4 DEF JudgeCompaction, EndFirst, Parked, Ended, Stop, OneDriver
<1>5. CASE Attempt
  BY <1>5 DEF Attempt, Resumed, Opened, OneDriver, driver
<1>6. CASE LoadOnce
  BY <1>6 DEF LoadOnce, Resumed, Opened, Stop, OneDriver, driver
<1>7. CASE GiveUp \/ LoadAgain
  BY <1>7 DEF GiveUp, LoadAgain, Stop, OneDriver, driver
<1>8. CASE AskResumed \/ PollEnds \/ ReportContext
  BY <1>8 DEF AskResumed, PollEnds, ReportContext, Ended, Stop, OneDriver, driver
<1>9. CASE ReportInFlight \/ Observe
  BY <1>9 DEF ReportInFlight, Observe, Ended, OneDriver, driver
<1> QED BY <1>1, <1>2, <1>3, <1>4, <1>5, <1>6, <1>7, <1>8, <1>9 DEF RunnerStep

---------------------------------------------------------------------------
(* The refusals and what is said of them.                                  *)

(* No verdict but those of the loads is about a refusal.                   *)
Silent(ids) == ids \cap {"resume.load:not-resumed", "resume.retried"} = {}

LEMMA VerdictsAreSilent ==
  ASSUME NEW sent
  PROVE  Silent({Context(sent)}) /\ Silent({Judged(sent)}) /\ Silent({Judged(sent), "session-id"})
  BY DEF Silent, Context, Judged

(* A step that leaves the refusals alone, says nothing of them and does    *)
(* not come back from where a load was accepted.                           *)
Elsewhere ==
  /\ UNCHANGED <<plan, tries, refusals>>
  /\ \E ids : Silent(ids) /\ checks' = checks \cup ids
  /\ at \in Loaded => at' \in Loaded

LEMMA ElsewhereStep ==
  ASSUME RefusalLedger, NotResumedIsTrue, Elsewhere
  PROVE  RefusalLedger' /\ NotResumedIsTrue'
<1>1. /\ UNCHANGED <<plan, tries, refusals, probe, agent>>
      /\ at \in Loaded => at' \in Loaded
      /\ "resume.load:not-resumed" \in checks' => "resume.load:not-resumed" \in checks
      /\ "resume.retried" \in checks' => "resume.retried" \in checks
  BY DEF Elsewhere, Silent, probe, agent
<1>2. RefusalLedger'
  BY <1>1 DEF RefusalLedger
<1>3. NotResumedIsTrue'
  BY <1>1 DEF NotResumedIsTrue
<1> QED BY <1>2, <1>3

(* Every step of the runner but a load and the giving up.                  *)
LEMMA OthersAreElsewhere ==
  ASSUME RunnerStep, ~Attempt, ~GiveUp, ~LoadOnce
  PROVE  Elsewhere
<1>0. checks' = checks => \E ids : Silent(ids) /\ checks' = checks \cup ids
  <2>1. Silent({}) /\ checks = checks \cup {}
    BY DEF Silent
  <2> QED BY <2>1
<1>1. CASE StartFirst \/ StartUnkillable
  <2>1. Silent({"start"}) /\ Silent({"inflight.kill:unkillable"})
    BY DEF Silent
  <2> QED BY <1>0, <1>1, <2>1 DEF StartFirst, StartUnkillable, Stop, Say, Elsewhere, Loaded, clock,
        session
<1>2. CASE PromptFirst \/ WaitFirst \/ Fill
  <2>1. Silent({"prompt"})
    BY DEF Silent
  <2> QED BY <1>0, <1>2, <2>1 DEF PromptFirst, WaitFirst, Fill, Stop, Say, Elsewhere, Loaded, clock,
        session
<1>3. CASE SendCommand \/ CommandWaited
  BY <1>0, <1>3 DEF SendCommand, CommandWaited, Elsewhere, Loaded, clock, session
<1>4. CASE JudgeCompaction
  BY <1>0, <1>4, VerdictsAreSilent DEF JudgeCompaction, Stop, Say, Elsewhere, Loaded, session
<1>5. CASE EndFirst
  <2>1. Silent({"resume.kill:unkillable"}) /\ Silent({"session-id"})
    BY DEF Silent
  <2> QED BY <1>0, <1>5, <2>1 DEF EndFirst, Stop, Say, Elsewhere, Loaded, session
<1>6. CASE AskResumed \/ PollEnds
  <2>1. Silent({"followup"})
    BY DEF Silent
  <2> QED BY <1>0, <1>6, <2>1 DEF AskResumed, PollEnds, Stop, Say, Elsewhere, Loaded, clock, session
<1>7. CASE ReportContext
  BY <1>7, VerdictsAreSilent DEF ReportContext, Stop, Say, Elsewhere, Loaded, clock, session
<1>8. CASE Parked
  <2>1. /\ Silent({"inflight.park"}) /\ Silent({"inflight.park", "session-id"})
        /\ Silent({IF served THEN "inflight.park:not-gated" ELSE "inflight.park:tool-not-served"})
    BY DEF Silent
  <2> QED BY <1>8, <2>1 DEF Parked, Stop, Say, Elsewhere, Loaded, session
<1>9. CASE ReportInFlight
  <2> DEFINE ids == {"inflight.resume"} \cup
         (IF perms = << >> THEN {"inflight.reraise:none"}
          ELSE {IF perms[1] = "load" THEN "inflight.reraise:load" ELSE "inflight.reraise:after",
                IF Requests > 0 THEN "inflight.answer:ran-tool" ELSE "inflight.answer:nothing-sent"})
  <2>1. Silent(ids)
    BY DEF Silent
  <2>2. checks' = checks \cup ids
    BY <1>9 DEF ReportInFlight, Say
  <2>3. at \in Loaded => at' \in Loaded
    BY <1>9 DEF ReportInFlight, Loaded
  <2>4. UNCHANGED <<plan, tries, refusals>>
    BY <1>9 DEF ReportInFlight, clock, session
  <2> HIDE DEF ids
  <2> QED BY <2>1, <2>2, <2>3, <2>4 DEF Elsewhere
<1>10. CASE Observe
  <2>1. /\ Silent({"inflight.unanswered:exited"}) /\ Silent({"inflight.unanswered:moved-on"})
        /\ Silent({"inflight.unanswered:waited"})
    BY DEF Silent
  <2> QED BY <1>10, <2>1 DEF Observe, Say, Elsewhere, Loaded, clock, session
<1>11. CASE LoadAgain
  <2>1. Silent({"inflight.resume-twice"}) /\ Silent({"inflight.resume-twice:refused"})
    BY DEF Silent
  <2> QED BY <1>11, <2>1 DEF LoadAgain, Stop, Say, Elsewhere, Loaded, session
<1> QED BY <1>1, <1>2, <1>3, <1>4, <1>5, <1>6, <1>7, <1>8, <1>9, <1>10, <1>11 DEF RunnerStep

LEMMA RefusalStep ==
  ASSUME Times, RefusalLedger, NotResumedIsTrue, RunnerStep
  PROVE  RefusalLedger' /\ NotResumedIsTrue'
<1>0. probe.after \in Nat /\ agent.lag \in Nat /\ \A i \in 1 .. Len(Delays) : Delays[i] \in Nat
  BY PlanTypes, DelayTypes DEF Times
<1>1. CASE Attempt
  <2> DEFINE t == AttemptAt(tries + 1)
  <2>1. /\ tries + 1 \in 1 .. Len(Delays) /\ tries' = tries + 1
        /\ UNCHANGED <<plan, probe, agent, endedAt>> /\ at \notin Loaded
    BY <1>1, DelayTypes DEF Attempt, Times, probe, agent, Loaded
  <2>2. endedAt + Delays[tries + 1] + probe.after \in Nat
    BY <2>1, <1>0 DEF Times
  <2>3. t \in Nat /\ t >= endedAt + Delays[tries + 1] + probe.after
    BY <2>2, LaterIsLater DEF AttemptAt, Times
  <2>4. t >= endedAt /\ t - endedAt >= Delays[tries + 1] + probe.after
    BY <2>1, <2>3, <1>0 DEF Times
  <2>5. CASE Accepts(t)
    <3>1. /\ at' = "ask" /\ refusals' = refusals
          /\ checks' = checks \cup ({"resume.load"} \cup
                          (IF refusals # {} THEN {"resume.retried"} ELSE {}))
      BY <1>1, <2>5 DEF Attempt, Say
    <3>2. "resume.load:not-resumed" \notin checks' /\ "resume.retried" \notin checks
      BY <2>1, <3>1 DEF RefusalLedger
    <3>3. RefusalLedger'
      BY <2>1, <3>1, <3>2 DEF RefusalLedger, Loaded
    <3>4. NotResumedIsTrue'
      BY <2>1, <3>1, <3>2 DEF NotResumedIsTrue, RefusalLedger
    <3> QED BY <3>3, <3>4
  <2>6. CASE ~Accepts(t)
    <3>1. refusals' = refusals \cup {t - endedAt} /\ at' = at /\ checks' = checks
      BY <1>1, <2>6 DEF Attempt
    <3>2. t - endedAt \in Nat /\ agent.lag > t - endedAt
      BY <2>3, <2>4, <2>6, RefusedEarly
    <3>3. refusals' \subseteq Nat /\ \A u \in refusals' : agent'.lag > u
      BY <2>1, <3>1, <3>2 DEF RefusalLedger
    <3>4. \A i \in 1 .. tries + 1 : \E u \in refusals' : u >= Delays[i] + probe'.after
      <4> SUFFICES ASSUME NEW i \in 1 .. tries + 1
                   PROVE  \E u \in refusals' : u >= Delays[i] + probe'.after
        OBVIOUS
      <4>1. CASE i \in 1 .. tries
        BY <2>1, <3>1, <4>1 DEF RefusalLedger
      <4>2. CASE i = tries + 1
        BY <2>1, <2>4, <3>1, <4>2
      <4> QED BY <4>1, <4>2 DEF Times
    <3>5. RefusalLedger'
      BY <2>1, <3>1, <3>3, <3>4 DEF RefusalLedger
    <3>6. NotResumedIsTrue'
      BY <2>1, <3>1 DEF NotResumedIsTrue, RefusalLedger
    <3> QED BY <3>5, <3>6
  <2> QED BY <2>5, <2>6
<1>2. CASE GiveUp
  <2>1. /\ tries = Len(Delays) /\ at \notin Loaded /\ at' \in Loaded
        /\ UNCHANGED <<plan, probe, agent, refusals, tries>>
        /\ checks' = checks \cup {"resume.load:not-resumed"}
    BY <1>2 DEF GiveUp, Loaded, Stop, Say, clock, session, probe, agent
  <2>2. \A i \in 1 .. Len(Delays) : \E u \in refusals : u >= Delays[i] + probe.after
    BY <2>1 DEF RefusalLedger
  <2>3. Len(Delays) \in 1 .. Len(Delays)
    BY DelayTypes
  <2>4. PICK u \in refusals : u >= Delays[Len(Delays)] + probe.after
    BY <2>2, <2>3
  <2>5. u \in Nat /\ agent.lag > u /\ Delays[Len(Delays)] \in Nat
    BY <2>3, <1>0 DEF RefusalLedger
  <2>6. agent.lag > Delays[Len(Delays)] + probe.after
    BY <2>4, <2>5, <1>0
  <2>7. "resume.retried" \notin checks'
    BY <2>1 DEF RefusalLedger
  <2>8. RefusalLedger'
    BY <2>1 DEF RefusalLedger
  <2>9. NotResumedIsTrue'
    BY <2>1, <2>2, <2>6, <2>7, DelayTypes DEF NotResumedIsTrue
  <2> QED BY <2>8, <2>9
<1>3. CASE LoadOnce
  <2>1. endedAt + probe.after \in Nat
    BY <1>0 DEF Times
  <2>2. now' \in Nat /\ now' >= endedAt + probe.after
    BY <1>3, <2>1, LaterIsLater DEF LoadOnce, Times
  <2>3. now' >= endedAt
    BY <1>0, <2>2 DEF Times
  <2>4. /\ at \notin Loaded /\ at' \in Loaded /\ UNCHANGED <<plan, probe, agent, tries>>
        /\ checks' = checks \/ checks' = checks \cup {"resume:refused"}
    BY <1>3 DEF LoadOnce, Loaded, Stop, Say, probe, agent
  <2>5. "resume.load:not-resumed" \notin checks' /\ "resume.retried" \notin checks'
    BY <2>4 DEF RefusalLedger
  <2>6. refusals' \subseteq Nat /\ \A t \in refusals' : agent.lag > t
    <3>1. CASE Accepts(now')
      BY <1>3, <3>1 DEF LoadOnce, RefusalLedger
    <3>2. CASE ~Accepts(now')
      <4>1. refusals' = {now' - endedAt}
        BY <1>3, <3>2 DEF LoadOnce
      <4>2. now' - endedAt \in Nat /\ agent.lag > now' - endedAt
        BY <2>2, <2>3, <3>2, RefusedEarly
      <4> QED BY <4>1, <4>2
    <3> QED BY <3>1, <3>2
  <2>7. RefusalLedger'
    BY <2>4, <2>5, <2>6 DEF RefusalLedger
  <2>8. NotResumedIsTrue'
    BY <2>5 DEF NotResumedIsTrue
  <2> QED BY <2>7, <2>8
<1> QED BY <1>1, <1>2, <1>3, OthersAreElsewhere, ElsewhereStep

---------------------------------------------------------------------------
LEMMA StepInv == IInv /\ [ResumeNext]_resumeVars => IInv'
<1> SUFFICES ASSUME IInv, [ResumeNext]_resumeVars PROVE IInv'
  OBVIOUS
<1>1. CASE RunnerStep
  BY <1>1, TimesStep, OneDriverStep, RefusalStep DEF IInv
<1>2. CASE AgentStep
  BY <1>2, AgentChanges, Unchanged
<1>3. CASE UNCHANGED resumeVars
  BY <1>3, Unchanged DEF resumeVars
<1> QED BY <1>1, <1>2, <1>3 DEF ResumeNext

(* The invariant holds in every state the probe reaches.                   *)
THEOREM Invariance == ResumeSpec => []IInv
<1> QED BY InitInv, StepInv, PTL DEF ResumeSpec

(* No probe opens a session while another process of its own is attached   *)
(* to it, none leaves one behind, and the mock answers as before.          *)
THEOREM OneProcessAtATime == ResumeSpec => []OneProcess
<1>1. ASSUME IInv PROVE OneProcess
  <2>1. open = {} \/ open = {proc}
    BY <1>1 DEF IInv, OneDriver
  <2>2. Cardinality(open) <= 1
    BY <2>1, FS_EmptySet, FS_Singleton
  <2>3. at = "done" => open = {} /\ answer = "line"
    BY <1>1 DEF IInv, OneDriver
  <2> QED BY <2>2, <2>3 DEF OneProcess
<1> QED BY <1>1, Invariance, PTL

(* An agent is said not to resume only if it refused a load at every delay *)
(* and its session was not on disk at the last, whatever it did meanwhile  *)
(* and however long the loads took.                                        *)
THEOREM NotResumedTrue == ResumeSpec => []NotResumedIsTrue
<1>1. IInv => NotResumedIsTrue
  BY DEF IInv
<1> QED BY <1>1, Invariance, PTL

---------------------------------------------------------------------------
(***************************************************************************)
(* What the session probes say of an agent: that the verdicts are true for *)
(* every list of delays, any number of fillers and side requests, and      *)
(* every kind of agent.                                                    *)
(***************************************************************************)

Turn == {"over", "first", "filler", "command", "followup", "asking", "held", "telling", "ending"}
Held == {"none", "earlier", "compacted", "both"}

(* The domains.                                                            *)
SessionTypes ==
  /\ up \in BOOLEAN /\ served \in BOOLEAN /\ told \in BOOLEAN /\ late \in BOOLEAN
  /\ turn \in Turn /\ left \in 0 .. Fillers
  /\ perms \in {<< >>, <<"load">>, <<"after">>}
  /\ holds \in Held /\ width \in Nat

LogTypes == entries \in Seq(Entry) /\ before \in Nat /\ before <= Len(entries)

FirstPart == {"prompt", "wait", "park", "fill", "filling", "command", "compacting", "judge", "end"}
SecondPart == {"ask", "poll", "settle", "observe"}

(* Which process there is in which part of the probe, and that an agent    *)
(* that is gone is known to have exited.                                   *)
Processes ==
  /\ at \in {"start", "load", "again", "done"} \cup FirstPart \cup SecondPart
  /\ at = "start" => proc = 0
  /\ at \in FirstPart => proc = 1 /\ open = {1}
  /\ at = "load" => proc = 1
  /\ at \in SecondPart => proc = 2 /\ open = {2}
  /\ at = "again" => proc = 2
  /\ proc \in 0 .. 3
  /\ at \in {"start", "load", "again", "done"} => ~up
  /\ at \in FirstPart \cup SecondPart => (up <=> proc \notin exited)
  /\ exited \subseteq 1 .. 3
  /\ at \in FirstPart => 2 \notin exited
  /\ at = "start" => exited = {}
  /\ at = "load" => 2 \notin exited

---------------------------------------------------------------------------
LEMMA Appended ==
  ASSUME NEW S, NEW s \in Seq(S), NEW e \in S
  PROVE  /\ Append(s, e) \in Seq(S) /\ Len(Append(s, e)) = Len(s) + 1
         /\ \A i \in 1 .. Len(s) : Append(s, e)[i] = s[i]
         /\ Append(s, e)[Len(s) + 1] = e
  OBVIOUS

(* A request is one more entry, and leaves those before it as they are.    *)
LEMMA LoggedTypes ==
  ASSUME LogTypes, Processes,
         NEW says \in {"prompt", "side", "command", "compaction", "tool"},
         NEW earlier \in BOOLEAN, NEW w \in Nat, Logged(says, earlier, w)
  PROVE  /\ entries' \in Seq(Entry) /\ Len(entries') = Len(entries) + 1 /\ Len(entries) \in Nat
         /\ \A i \in 1 .. Len(entries) : entries'[i] = entries[i]
         /\ entries'[Len(entries) + 1]
              = [proc |-> proc, says |-> says, earlier |-> earlier, width |-> w]
<1> DEFINE e == [proc |-> proc, says |-> says, earlier |-> earlier, width |-> w]
<1>1. e \in Entry
  BY DEF Entry, Processes
<1>2. entries' = Append(entries, e) /\ entries \in Seq(Entry)
  BY DEF Logged, LogTypes
<1> HIDE DEF e
<1>3. Len(entries) \in Nat
  BY <1>2
<1> QED BY <1>1, <1>2, <1>3, Appended DEF e

(* What each step of the agent logs.                                       *)
LEMMA AgentLogs ==
  ASSUME SessionTypes, LogTypes, Processes, AgentStep
  PROVE  \/ UNCHANGED entries
         \/ \E says \in {"prompt", "side", "command", "compaction", "tool"}, earlier \in BOOLEAN,
               w \in Nat : Logged(says, earlier, w)
<1>0. 1 \in Nat /\ width + 1 \in Nat /\ FALSE \in BOOLEAN
      /\ (turn = "first" \/ holds \in {"earlier", "both"}) \in BOOLEAN
  BY DEF SessionTypes
<1>1. CASE SideRequest
  BY <1>0, <1>1 DEF SideRequest
<1>2. CASE SendTurn
  BY <1>0, <1>2 DEF SendTurn
<1>3. CASE TakeCommand
  BY <1>0, <1>3 DEF TakeCommand
<1>4. CASE RunTool
  BY <1>0, <1>4 DEF RunTool
<1>5. CASE Tell \/ EndTurn \/ AskApproval \/ Exit
  BY <1>5 DEF Tell, EndTurn, AskApproval, Exit
<1> QED BY <1>1, <1>2, <1>3, <1>4, <1>5 DEF AgentStep

LEMMA LogStep ==
  ASSUME SessionTypes, LogTypes, Processes, ResumeNext
  PROVE  LogTypes'
<1>0. Len(entries) \in Nat
  BY DEF LogTypes
<1>1. CASE AgentStep
  <2>1. UNCHANGED before
    BY <1>1 DEF AgentStep, SideRequest, SendTurn, TakeCommand, Tell, EndTurn, AskApproval, RunTool,
       Exit
  <2>2. CASE UNCHANGED entries
    BY <2>1, <2>2 DEF LogTypes
  <2>3. CASE \E says \in {"prompt", "side", "command", "compaction", "tool"}, earlier \in BOOLEAN,
                w \in Nat : Logged(says, earlier, w)
    <3>1. entries' \in Seq(Entry) /\ Len(entries') = Len(entries) + 1
      BY <2>3, LoggedTypes
    <3> QED BY <2>1, <3>1, <1>0 DEF LogTypes
  <2> QED BY <1>1, <2>2, <2>3, AgentLogs
<1>2. CASE RunnerStep
  <2>1. UNCHANGED entries
    BY <1>2 DEF RunnerStep, StartFirst, StartUnkillable, PromptFirst, WaitFirst, Fill, SendCommand,
       CommandWaited, JudgeCompaction, EndFirst, Attempt, GiveUp, LoadOnce, AskResumed, PollEnds,
       ReportContext, Parked, ReportInFlight, Observe, LoadAgain
  <2>2. before' = before \/ before' = Len(entries)
    BY <1>2 DEF RunnerStep, StartFirst, StartUnkillable, PromptFirst, WaitFirst, Fill, SendCommand,
       CommandWaited, JudgeCompaction, EndFirst, Attempt, GiveUp, LoadOnce, AskResumed, PollEnds,
       ReportContext, Parked, ReportInFlight, Observe, LoadAgain, Mark
  <2> QED BY <2>1, <2>2, <1>0 DEF LogTypes
<1> QED BY <1>1, <1>2 DEF ResumeNext

---------------------------------------------------------------------------
LEMMA PlanKinds ==
  ASSUME plan \in Plans
  PROVE  probe.kind \in {"resume", "compact", "inflight"}
  BY PlansAssumption DEF probe, Probe

LEMMA TypesInit == ResumeInit => SessionTypes /\ LogTypes /\ Processes
<1> SUFFICES ASSUME ResumeInit PROVE SessionTypes /\ LogTypes /\ Processes
  OBVIOUS
<1>1. SessionTypes
  <2>1. left \in 0 .. Fillers
    BY DelaysAssumption DEF ResumeInit
  <2>2. perms = << >> /\ up = FALSE /\ served = FALSE /\ told = FALSE /\ late = FALSE
        /\ turn \in Turn /\ holds \in Held /\ width \in Nat
    BY DEF ResumeInit, Turn, Held
  <2> QED BY <2>1, <2>2 DEF SessionTypes
<1>2. LogTypes
  <2>1. entries = << >> /\ before = 0
    BY DEF ResumeInit
  <2> QED BY <2>1 DEF LogTypes
<1>3. Processes
  BY DEF ResumeInit, Processes, FirstPart, SecondPart
<1> QED BY <1>1, <1>2, <1>3

LEMMA AgentTypes ==
  ASSUME plan \in Plans, SessionTypes, AgentStep
  PROVE  SessionTypes'
<1> USE DEF Turn, Held, SessionTypes
<1>0. agent.reraises \in {"none", "load", "after"}
  BY PlansAssumption DEF agent, Agent
<1>1. CASE SideRequest
  BY <1>1 DEF SideRequest, driver, session
<1>2. CASE SendTurn
  <2>1. served' \in BOOLEAN
    BY <1>2 DEF SendTurn
  <2>2. width' \in Nat /\ holds' \in Held /\ turn' \in Turn
    BY <1>2 DEF SendTurn
  <2>3. UNCHANGED <<up, told, late, left, perms>>
    BY <1>2 DEF SendTurn, driver
  <2> QED BY <2>1, <2>2, <2>3
<1>3. CASE TakeCommand
  <2>3. Condense => holds' \in Held /\ width' \in Nat
    <3>1. Compacted.holds \in Held /\ Compacted.width = 1
      BY DEF Compacted
    <3> QED BY <3>1 DEF Condense
  <2>4. \/ holds' = holds /\ (width' = width \/ width' = width + 1)
        \/ Condense
    BY <1>3 DEF TakeCommand
  <2>1. holds' \in Held /\ width' \in Nat
    BY <2>3, <2>4
  <2>2. turn' \in Turn /\ UNCHANGED <<up, served, told, late, left, perms>>
    BY <1>3 DEF TakeCommand, driver
  <2> QED BY <2>1, <2>2
<1>4. CASE Tell
  <2>1. told' \in BOOLEAN
    BY <1>4 DEF Tell
  <2>2. turn' \in Turn /\ UNCHANGED <<up, served, late, left, perms, holds, width>>
    BY <1>4 DEF Tell, driver, session
  <2> QED BY <2>1, <2>2
<1>5. CASE EndTurn
  BY <1>5 DEF EndTurn, driver, session
<1>6. CASE AskApproval
  <2>1. perms' \in {<< >>, <<"load">>, <<"after">>}
    BY <1>0, <1>6 DEF AskApproval
  <2>2. turn' \in Turn /\ UNCHANGED <<up, served, told, late, left, holds, width>>
    BY <1>6 DEF AskApproval, session
  <2> QED BY <2>1, <2>2
<1>7. CASE RunTool
  BY <1>7 DEF RunTool, driver, session
<1>8. CASE Exit
  BY <1>8 DEF Exit
<1> QED BY <1>1, <1>2, <1>3, <1>4, <1>5, <1>6, <1>7, <1>8 DEF AgentStep

LEMMA AgentProcesses ==
  ASSUME Processes, AgentStep
  PROVE  Processes'
<1>0. up /\ UNCHANGED <<at, proc, open>>
  BY DEF AgentStep, SideRequest, SendTurn, TakeCommand, Tell, EndTurn, AskApproval, RunTool, Exit,
     driver
<1>1. CASE Exit
  BY <1>0, <1>1 DEF Exit, Processes, FirstPart, SecondPart
<1>2. CASE ~Exit
  <2>1. UNCHANGED <<up, exited>>
    BY <1>2 DEF AgentStep, SideRequest, SendTurn, TakeCommand, Tell, EndTurn, AskApproval, RunTool,
       driver, session
  <2> QED BY <1>0, <2>1 DEF Processes
<1> QED BY <1>1, <1>2

LEMMA RunnerTypes ==
  ASSUME SessionTypes, RunnerStep
  PROVE  SessionTypes'
<1> USE DEF SessionTypes, driver, session
<1>1. CASE StartFirst
  BY <1>1 DEF StartFirst, Opened
<1>2. CASE StartUnkillable
  BY <1>2 DEF StartUnkillable
<1>3. CASE PromptFirst
  BY <1>3 DEF PromptFirst, Ended, Turn
<1>4. CASE WaitFirst
  BY <1>4 DEF WaitFirst, TurnWaited
<1>5. CASE Fill
  <2>1. left > 0 => left - 1 \in 0 .. Fillers
    BY DelaysAssumption
  <2> QED BY <1>5, <2>1 DEF Fill, Turn
<1>6. CASE SendCommand
  BY <1>6 DEF SendCommand, Turn
<1>7. CASE CommandWaited
  BY <1>7 DEF CommandWaited, TurnWaited
<1>8. CASE JudgeCompaction \/ EndFirst
  BY <1>8 DEF JudgeCompaction, EndFirst, Ended
<1>9. CASE Attempt
  <2>1. Resumed(AttemptAt(tries + 1)) => /\ up' = TRUE /\ perms' = << >> /\ holds' \in Held /\ width' \in Nat
    BY DEF Resumed, Opened, Held
  <2>2. turn' \in Turn /\ UNCHANGED <<served, told, late, left>>
    BY <1>9 DEF Attempt, Turn
  <2> QED BY <1>9, <2>1, <2>2 DEF Attempt
<1>10. CASE GiveUp
  BY <1>10 DEF GiveUp
<1>11. CASE LoadOnce
  <2>1. Resumed(now') => /\ up' = TRUE /\ perms' = << >> /\ holds' \in Held /\ width' \in Nat
    BY DEF Resumed, Opened, Held
  <2>2. turn' \in Turn /\ UNCHANGED <<served, told, late, left>>
    BY <1>11 DEF LoadOnce, Turn
  <2> QED BY <1>11, <2>1, <2>2 DEF LoadOnce
<1>12. CASE AskResumed
  BY <1>12 DEF AskResumed, Ended, Turn
<1>13. CASE PollEnds
  BY <1>13 DEF PollEnds, TurnWaited
<1>14. CASE ReportContext
  BY <1>14 DEF ReportContext, Ended
<1>15. CASE Parked
  <2>1. late' \in BOOLEAN
    BY <1>15 DEF Parked
  <2> QED BY <1>15, <2>1 DEF Parked, Ended
<1>16. CASE ReportInFlight
  BY <1>16 DEF ReportInFlight, Ended
<1>17. CASE Observe
  BY <1>17 DEF Observe, Ended
<1>18. CASE LoadAgain
  BY <1>18 DEF LoadAgain
<1> QED BY <1>1, <1>2, <1>3, <1>4, <1>5, <1>6, <1>7, <1>8, <1>9, <1>10, <1>11, <1>12, <1>13, <1>14,
          <1>15, <1>16, <1>17, <1>18 DEF RunnerStep

LEMMA RunnerProcesses ==
  ASSUME OneDriver, Processes, RunnerStep
  PROVE  Processes'
<1> USE DEF FirstPart, SecondPart, Processes, driver, session, Stop
<1>1. CASE StartFirst
  BY <1>1 DEF StartFirst, Opened, OneDriver
<1>2. CASE StartUnkillable
  BY <1>2 DEF StartUnkillable
<1>3. CASE PromptFirst
  BY <1>3 DEF PromptFirst, Ended
<1>4. CASE WaitFirst
  BY <1>4 DEF WaitFirst
<1>5. CASE Fill
  BY <1>5 DEF Fill
<1>6. CASE SendCommand
  BY <1>6 DEF SendCommand
<1>7. CASE CommandWaited
  BY <1>7 DEF CommandWaited
<1>8. CASE JudgeCompaction
  BY <1>8 DEF JudgeCompaction, Ended
<1>9. CASE EndFirst
  BY <1>9 DEF EndFirst, Ended
<1>10. CASE Attempt
  BY <1>10 DEF Attempt, Resumed, Opened, OneDriver
<1>11. CASE GiveUp
  BY <1>11 DEF GiveUp
<1>12. CASE LoadOnce
  BY <1>12 DEF LoadOnce, Resumed, Opened, OneDriver
<1>13. CASE AskResumed
  BY <1>13 DEF AskResumed, Ended
<1>14. CASE PollEnds
  BY <1>14 DEF PollEnds
<1>15. CASE ReportContext
  BY <1>15 DEF ReportContext, Ended
<1>16. CASE Parked
  BY <1>16 DEF Parked, Ended
<1>17. CASE ReportInFlight
  BY <1>17 DEF ReportInFlight, Ended
<1>18. CASE Observe
  BY <1>18 DEF Observe, Ended
<1>19. CASE LoadAgain
  BY <1>19 DEF LoadAgain
<1> QED BY <1>1, <1>2, <1>3, <1>4, <1>5, <1>6, <1>7, <1>8, <1>9, <1>10, <1>11, <1>12, <1>13, <1>14,
          <1>15, <1>16, <1>17, <1>18, <1>19 DEF RunnerStep

(* Where the log ends and how far the probe's clock is.                    *)
Typed == SessionTypes /\ LogTypes /\ Processes /\ endedAt <= now /\ plan \in Plans

LEMMA TypedInit == ResumeInit => Typed
  BY TypesInit DEF Typed, ResumeInit

LEMMA ClockStep ==
  ASSUME Times, endedAt <= now, ResumeNext
  PROVE  endedAt' <= now'
<1>0. probe.after \in Nat /\ \A i \in 1 .. Len(Delays) : Delays[i] \in Nat
  BY PlanTypes, DelayTypes DEF Times
<1>1. CASE Attempt
  <2>1. tries + 1 \in 1 .. Len(Delays)
    BY <1>1, DelayTypes DEF Attempt, Times
  <2>2. endedAt + Delays[tries + 1] + probe.after \in Nat
    BY <2>1, <1>0 DEF Times
  <2>3. AttemptAt(tries + 1) \in Nat /\ AttemptAt(tries + 1) >= now
    BY <2>2, LaterIsLater DEF AttemptAt, Times
  <2>4. endedAt' = endedAt
        /\ (now' = AttemptAt(tries + 1) \/ now' \in AttemptAt(tries + 1) .. AttemptAt(tries + 1) + 1)
    BY <1>1 DEF Attempt
  <2> QED BY <2>3, <2>4 DEF Times
<1>2. CASE LoadOnce
  <2>1. endedAt + probe.after \in Nat
    BY <1>0 DEF Times
  <2>2. now' \in Nat /\ now' >= now /\ endedAt' = endedAt
    BY <1>2, <2>1, LaterIsLater DEF LoadOnce, Times
  <2> QED BY <2>2 DEF Times
<1>3. CASE LoadAgain
  BY <1>0, <1>3 DEF LoadAgain, Times
<1>4. CASE WaitFirst
  BY <1>4 DEF WaitFirst, Times
<1>5. CASE JudgeCompaction \/ EndFirst \/ Parked
  BY <1>5 DEF JudgeCompaction, EndFirst, Parked, Times
<1>6. CASE AgentStep
  BY <1>6, AgentChanges
<1>7. CASE StartFirst \/ StartUnkillable \/ PromptFirst \/ Fill \/ SendCommand \/ CommandWaited
           \/ GiveUp \/ AskResumed \/ PollEnds \/ ReportContext \/ ReportInFlight \/ Observe
  BY <1>7 DEF StartFirst, StartUnkillable, PromptFirst, Fill, SendCommand, CommandWaited,
     GiveUp, AskResumed, PollEnds, ReportContext, ReportInFlight, Observe, clock
<1> QED BY <1>1, <1>2, <1>3, <1>4, <1>5, <1>6, <1>7 DEF ResumeNext, RunnerStep

LEMMA TypedStep ==
  ASSUME IInv, Typed, [ResumeNext]_resumeVars
  PROVE  Typed'
<1>0. Times /\ OneDriver /\ plan \in Plans
  BY DEF IInv, Times
<1>1. CASE ResumeNext
  <2>1. endedAt' <= now'
    BY <1>0, <1>1, ClockStep DEF Typed
  <2>2. LogTypes'
    BY <1>1, LogStep DEF Typed
  <2>3. SessionTypes' /\ Processes'
    BY <1>0, <1>1, AgentTypes, AgentProcesses, RunnerTypes, RunnerProcesses DEF Typed, ResumeNext
  <2>4. plan' \in Plans
    BY <1>1, StepInv DEF IInv, Times
  <2> QED BY <2>1, <2>2, <2>3, <2>4 DEF Typed
<1>2. CASE UNCHANGED resumeVars
  BY <1>2 DEF resumeVars, Typed, SessionTypes, LogTypes, Processes
<1> QED BY <1>1, <1>2

(* The domains and the processes, with the invariant they are kept with.   *)
THEOREM TypesInvariance == ResumeSpec => [](IInv /\ Typed)
<1> QED BY InitInv, StepInv, TypedInit, TypedStep, PTL DEF ResumeSpec

(* The type invariant of the session probes.                               *)
THEOREM ResumeTypeCorrect == ResumeSpec => []ResumeTypeOK
<1>1. ASSUME IInv, Typed PROVE ResumeTypeOK
  <2>1. /\ plan \in Plans /\ now \in Nat /\ endedAt \in 0 .. now /\ tries \in 0 .. Len(Delays)
        /\ refusals \subseteq Nat
    BY <1>1 DEF IInv, Times, Typed, RefusalLedger
  <2>2. answer \in {"line", "summary"}
    BY <1>1 DEF IInv, OneDriver
  <2>3. proc \in 0 .. 3 /\ exited \subseteq 1 .. 3
    BY <1>1 DEF Typed, Processes
  <2>4. open \subseteq 1 .. 3
    BY <1>1 DEF IInv, OneDriver, Typed, Processes, FirstPart, SecondPart
  <2>5. entries \in Seq(Entry) /\ before \in 0 .. Len(entries)
    BY <1>1 DEF Typed, LogTypes
  <2> QED BY <1>1, <2>1, <2>2, <2>3, <2>4, <2>5 DEF Typed, SessionTypes, Turn, Held, ResumeTypeOK
<1> QED BY <1>1, TypesInvariance, PTL

---------------------------------------------------------------------------
(* What the agent's steps leave as it was, and who sent what is new.       *)
LEMMA AgentEntries ==
  ASSUME Typed, AgentStep
  PROVE  /\ up /\ UNCHANGED <<plan, at, proc, open, before, checks, late, answer, left>>
         /\ Len(entries) \in Nat /\ Len(entries') \in Nat /\ Len(entries') >= Len(entries)
         /\ \A i \in 1 .. Len(entries) : entries'[i] = entries[i]
         /\ \A i \in Len(entries) + 1 .. Len(entries') : i = Len(entries) + 1 /\ entries'[i].proc = proc
         /\ exited \subseteq exited'
<1>1. up /\ UNCHANGED <<plan, at, proc, open, before, checks, late, answer, left>>
  BY DEF AgentStep, SideRequest, SendTurn, TakeCommand, Tell, EndTurn, AskApproval, RunTool, Exit,
     driver
<1>2. exited \subseteq exited'
  BY DEF AgentStep, SideRequest, SendTurn, TakeCommand, Tell, EndTurn, AskApproval, RunTool, Exit,
     session
<1>3. Len(entries) \in Nat
  BY DEF Typed, LogTypes
<1>4. CASE UNCHANGED entries
  BY <1>1, <1>2, <1>3, <1>4
<1>5. CASE \E says \in {"prompt", "side", "command", "compaction", "tool"}, earlier \in BOOLEAN,
              w \in Nat : Logged(says, earlier, w)
  <2>1. PICK says \in {"prompt", "side", "command", "compaction", "tool"}, earlier \in BOOLEAN,
              w \in Nat : Logged(says, earlier, w)
    BY <1>5
  <2>2. /\ Len(entries') = Len(entries) + 1
        /\ \A i \in 1 .. Len(entries) : entries'[i] = entries[i]
        /\ entries'[Len(entries) + 1]
             = [proc |-> proc, says |-> says, earlier |-> earlier, width |-> w]
    BY <2>1, LoggedTypes DEF Typed
  <2> QED BY <1>1, <1>2, <1>3, <2>2
<1> QED BY <1>4, <1>5, AgentLogs DEF Typed

(* The second process of an in-flight probe: no turn is put to it, an      *)
(* approval it raises is raised again, and what is logged is its own.      *)
RaisedAgain ==
  /\ at \in {"ask", "poll"} => probe.kind # "inflight"
  /\ at \in {"observe", "again"} => probe.kind = "inflight"
  /\ probe.kind = "inflight" /\ at \in {"settle", "observe"} =>
       /\ turn = "over"
       /\ perms # << >> => perms = <<agent.reraises>>
       /\ \A i \in before + 1 .. Len(entries) : entries[i].proc = 2

ApprovalVerdicts ==
  /\ ApprovalIsTrue
  /\ "inflight.unanswered:waited" \in checks => at \in {"again", "done"}

ApprovalInv == RaisedAgain /\ ApprovalVerdicts

LEMMA ApprovalAgent ==
  ASSUME Typed, ApprovalInv, AgentStep
  PROVE  ApprovalInv'
<1>1. /\ up /\ UNCHANGED <<plan, at, proc, open, before, checks, late, probe, agent>>
      /\ Len(entries) \in Nat /\ Len(entries') \in Nat /\ Len(entries') >= Len(entries)
      /\ \A i \in 1 .. Len(entries) : entries'[i] = entries[i]
      /\ \A i \in Len(entries) + 1 .. Len(entries') : entries'[i].proc = proc
      /\ exited \subseteq exited'
  BY AgentEntries DEF probe, agent
<1>2. at \notin {"again", "done"} /\ (at \in SecondPart => proc = 2) /\ before \in Nat
  BY <1>1 DEF Typed, Processes, LogTypes
<1>3. probe.kind = "inflight" /\ at \in {"settle", "observe"} => UNCHANGED turn
  BY DEF ApprovalInv, RaisedAgain, AgentStep, SideRequest, SendTurn, TakeCommand, Tell, EndTurn,
     AskApproval, RunTool, Exit
<1>4. probe.kind = "inflight" /\ at \in {"settle", "observe"} =>
        UNCHANGED perms \/ perms' = <<agent.reraises>>
  BY DEF ApprovalInv, RaisedAgain, AgentStep, SideRequest, SendTurn, TakeCommand, Tell, EndTurn,
     AskApproval, RunTool, Exit, driver
<1>5. RaisedAgain'
  <2>1. probe.kind = "inflight" /\ at \in {"settle", "observe"} =>
          \A i \in before + 1 .. Len(entries') : entries'[i].proc = 2
    BY <1>1, <1>2 DEF ApprovalInv, RaisedAgain, SecondPart
  <2> QED BY <1>1, <1>3, <1>4, <2>1 DEF ApprovalInv, RaisedAgain
<1>6. ApprovalVerdicts'
  <2>1. DOMAIN entries = 1 .. Len(entries) /\ DOMAIN entries' = 1 .. Len(entries')
    <3>1. LogTypes'
      BY LogStep DEF Typed, ResumeNext
    <3> QED BY <3>1 DEF LogTypes, Typed
  <2>2. (\E i \in DOMAIN entries : entries[i].proc = 2)
          => \E i \in DOMAIN entries' : entries'[i].proc = 2
    BY <1>1, <2>1
  <2>3. "inflight.unanswered:waited" \notin checks
    BY <1>2 DEF ApprovalInv, ApprovalVerdicts
  <2> QED BY <1>1, <2>2, <2>3 DEF ApprovalInv, ApprovalVerdicts, ApprovalIsTrue
<1> QED BY <1>5, <1>6 DEF ApprovalInv

LEMMA RaisedAgainStep ==
  ASSUME Typed, RaisedAgain, RunnerStep
  PROVE  RaisedAgain'
<1> USE DEF RaisedAgain, probe, agent, Stop
<1>0. Len(entries) \in Nat
  BY DEF Typed, LogTypes
<1>1. CASE StartFirst \/ StartUnkillable \/ PromptFirst \/ WaitFirst \/ Fill
  BY <1>1 DEF StartFirst, StartUnkillable, PromptFirst, WaitFirst, Fill
<1>2. CASE SendCommand \/ CommandWaited \/ JudgeCompaction \/ EndFirst \/ Parked
  BY <1>2 DEF SendCommand, CommandWaited, JudgeCompaction, EndFirst, Parked
<1>3. CASE Attempt \/ GiveUp
  BY <1>3 DEF Attempt, GiveUp
<1>4. CASE LoadOnce
  <2>1. \A i \in before' + 1 .. Len(entries') : entries'[i].proc = 2
    BY <1>0, <1>4 DEF LoadOnce
  <2>2. turn' = "over" /\ UNCHANGED plan
        /\ (at' = "done" \/ (perms' = << >> /\ at' = IF probe.kind = "compact" THEN "ask" ELSE "settle"))
    BY <1>4 DEF LoadOnce, Resumed, Opened
  <2> QED BY <2>1, <2>2
<1>5. CASE AskResumed \/ PollEnds \/ ReportContext
  BY <1>5 DEF AskResumed, PollEnds, ReportContext
<1>6. CASE ReportInFlight
  BY <1>6 DEF ReportInFlight, Ended, driver
<1>7. CASE Observe \/ LoadAgain
  BY <1>7 DEF Observe, LoadAgain
<1> QED BY <1>1, <1>2, <1>3, <1>4, <1>5, <1>6, <1>7 DEF RunnerStep

(* The results ApprovalIsTrue speaks of, and the steps that report none.   *)
ApprovalIds == {"inflight.reraise:load", "inflight.reraise:after", "inflight.answer:ran-tool",
                "inflight.park:not-gated", "inflight.unanswered:waited",
                "inflight.unanswered:exited"}

NoApproval ==
  /\ UNCHANGED <<plan, entries, exited>>
  /\ late => late'
  /\ \E ids : ids \cap ApprovalIds = {} /\ checks' = checks \cup ids
  /\ "inflight.unanswered:waited" \in checks => UNCHANGED told /\ at' \in {"again", "done"}

LEMMA NoApprovalStep ==
  ASSUME ApprovalVerdicts, NoApproval
  PROVE  ApprovalVerdicts'
<1>1. \A id \in ApprovalIds : id \in checks' => id \in checks
  BY DEF NoApproval
<1>2. UNCHANGED <<probe, agent, entries, exited>> /\ (late => late')
  BY DEF NoApproval, probe, agent
<1> QED BY <1>1, <1>2 DEF ApprovalVerdicts, ApprovalIsTrue, ApprovalIds, NoApproval

(* What the steps report that judge neither an approval nor a conversation.*)
PlainIds == {"start", "inflight.kill:unkillable", "prompt", "resume.kill:unkillable", "session-id",
             "resume.load", "resume.retried", "resume.load:not-resumed", "resume:refused",
             "followup", "inflight.resume-twice", "inflight.resume-twice:refused"}

LEMMA PlainReports ==
  ASSUME RunnerStep, ~JudgeCompaction, ~ReportContext, ~Parked, ~ReportInFlight, ~Observe
  PROVE  \E ids \in SUBSET PlainIds : checks' = checks \cup ids
<1> USE DEF Stop, Say, PlainIds
<1>0. checks' = checks => \E ids \in SUBSET PlainIds : checks' = checks \cup ids
  <2>1. {} \in SUBSET PlainIds /\ checks = checks \cup {}
    OBVIOUS
  <2> QED BY <2>1
<1>1. CASE StartFirst
  <2>1. checks' = checks \/ checks' = checks \cup {"start"}
    BY <1>1 DEF StartFirst
  <2> QED BY <1>0, <2>1
<1>2. CASE StartUnkillable
  BY <1>2 DEF StartUnkillable
<1>3. CASE PromptFirst
  <2>1. checks' = checks \/ checks' = checks \cup {"prompt"}
    BY <1>3 DEF PromptFirst
  <2> QED BY <1>0, <2>1
<1>4. CASE WaitFirst \/ Fill \/ SendCommand \/ CommandWaited \/ PollEnds
  BY <1>0, <1>4 DEF WaitFirst, Fill, SendCommand, CommandWaited, PollEnds
<1>5. CASE EndFirst
  <2>1. \/ checks' = checks \/ checks' = checks \cup {"resume.kill:unkillable"}
        \/ checks' = checks \cup {"session-id"}
    BY <1>5 DEF EndFirst
  <2> QED BY <1>0, <2>1
<1>6. CASE Attempt
  <2>1. \/ checks' = checks \/ checks' = checks \cup ({"resume.load"} \cup {})
        \/ checks' = checks \cup ({"resume.load"} \cup {"resume.retried"})
    BY <1>6 DEF Attempt
  <2> QED BY <1>0, <2>1
<1>7. CASE GiveUp
  BY <1>7 DEF GiveUp
<1>8. CASE LoadOnce
  <2>1. checks' = checks \/ checks' = checks \cup {"resume:refused"}
    BY <1>8 DEF LoadOnce
  <2> QED BY <1>0, <2>1
<1>9. CASE AskResumed
  <2>1. checks' = checks \/ checks' = checks \cup {"followup"}
    BY <1>9 DEF AskResumed
  <2> QED BY <1>0, <2>1
<1>10. CASE LoadAgain
  <2>1. \/ checks' = checks \cup {"inflight.resume-twice"}
        \/ checks' = checks \cup {"inflight.resume-twice:refused"}
    BY <1>10 DEF LoadAgain
  <2> QED BY <2>1
<1> QED BY <1>1, <1>2, <1>3, <1>4, <1>5, <1>6, <1>7, <1>8, <1>9, <1>10 DEF RunnerStep

LEMMA RunnerKeeps ==
  ASSUME RunnerStep
  PROVE  UNCHANGED <<plan, probe, agent, entries, exited>>
  BY DEF RunnerStep, StartFirst, StartUnkillable, PromptFirst, WaitFirst, Fill, SendCommand,
     CommandWaited, JudgeCompaction, EndFirst, Attempt, GiveUp, LoadOnce, AskResumed, PollEnds,
     ReportContext, Parked, ReportInFlight, Observe, LoadAgain, probe, agent, session

(* A time limit that ran out is not forgotten.                             *)
LEMMA LateStays ==
  ASSUME ResumeNext, late
  PROVE  late'
<1>1. CASE AgentStep
  BY <1>1 DEF AgentStep, SideRequest, SendTurn, TakeCommand, Tell, EndTurn, AskApproval, RunTool, Exit
<1>2. CASE RunnerStep /\ ~Parked
  BY <1>2 DEF RunnerStep, StartFirst, StartUnkillable, PromptFirst, WaitFirst, Fill, SendCommand,
     CommandWaited, JudgeCompaction, EndFirst, Attempt, GiveUp, LoadOnce, AskResumed, PollEnds,
     ReportContext, ReportInFlight, Observe, LoadAgain, TurnWaited
<1>3. CASE Parked
  BY <1>3 DEF Parked
<1> QED BY <1>1, <1>2, <1>3 DEF ResumeNext

LEMMA OthersNoApproval ==
  ASSUME Typed, ApprovalVerdicts, RunnerStep, ~Parked, ~ReportInFlight, ~Observe
  PROVE  NoApproval
<1>1. \E ids : ids \cap ApprovalIds = {} /\ checks' = checks \cup ids
  <2>1. CASE JudgeCompaction
    <3>1. /\ {Judged(Since(before))} \cap ApprovalIds = {}
          /\ {Judged(Since(before)), "session-id"} \cap ApprovalIds = {}
      BY DEF Judged, ApprovalIds
    <3> QED BY <2>1, <3>1 DEF JudgeCompaction, Stop, Say
  <2>2. CASE ReportContext
    <3>1. {Context(Since(before))} \cap ApprovalIds = {}
      BY DEF Context, ApprovalIds
    <3> QED BY <2>2, <3>1 DEF ReportContext, Stop, Say
  <2>3. CASE ~JudgeCompaction /\ ~ReportContext
    <3>1. PlainIds \cap ApprovalIds = {}
      BY DEF PlainIds, ApprovalIds
    <3> QED BY <2>3, <3>1, PlainReports
  <2> QED BY <2>1, <2>2, <2>3
<1>2. "inflight.unanswered:waited" \in checks => UNCHANGED told /\ at' \in {"again", "done"}
  <2>1. SUFFICES ASSUME "inflight.unanswered:waited" \in checks
                 PROVE  UNCHANGED told /\ at' \in {"again", "done"}
    OBVIOUS
  <2>2. at \in {"again", "done"}
    BY <2>1 DEF ApprovalVerdicts
  <2>3. LoadAgain
    BY <2>2 DEF RunnerStep, StartFirst, StartUnkillable, PromptFirst, WaitFirst, Fill, SendCommand,
       CommandWaited, JudgeCompaction, EndFirst, Attempt, GiveUp, LoadOnce, AskResumed, PollEnds,
       ReportContext
  <2> QED BY <2>3 DEF LoadAgain, Stop
<1> QED BY <1>1, <1>2, RunnerKeeps, LateStays DEF NoApproval, ResumeNext

LEMMA ApprovalVerdictsStep ==
  ASSUME Typed, ApprovalInv, RunnerStep
  PROVE  ApprovalVerdicts'
<1> USE DEF Say, Stop
<1>0. ApprovalVerdicts /\ RaisedAgain
  BY DEF ApprovalInv
<1>1. CASE Parked
  <2>1. at = "park" /\ UNCHANGED <<probe, agent, entries, told, exited>>
    BY <1>1 DEF Parked, probe, agent, session
  <2>6. late => late'
    BY <1>1 DEF Parked
  <2>2. \A id \in ApprovalIds \ {"inflight.park:not-gated"} : id \in checks' => id \in checks
    BY <1>1 DEF Parked, ApprovalIds
  <2>3. "inflight.park:not-gated" \in checks' =>
          "inflight.park:not-gated" \in checks \/ late' = (late \/ Alive)
    BY <1>1 DEF Parked
  <2>4. ~Alive => 1 \in exited
    BY <2>1 DEF Typed, Processes, FirstPart, Alive
  <2>5. late \in BOOLEAN
    BY DEF Typed, SessionTypes
  <2> QED BY <1>0, <2>1, <2>2, <2>3, <2>4, <2>5, <2>6
        DEF ApprovalVerdicts, ApprovalIsTrue, ApprovalIds
<1>2. CASE ReportInFlight
  <2>1. /\ at = "settle" /\ probe.kind = "inflight"
        /\ UNCHANGED <<probe, agent, entries, exited, late>>
    BY <1>2 DEF ReportInFlight, probe, agent, session
  <2>2. /\ \A id \in ApprovalIds \ {"inflight.reraise:load", "inflight.reraise:after",
                                 "inflight.answer:ran-tool"} : id \in checks' => id \in checks
        /\ "inflight.reraise:load" \in checks' =>
             "inflight.reraise:load" \in checks \/ (perms # << >> /\ perms[1] = "load")
        /\ "inflight.reraise:after" \in checks' =>
             "inflight.reraise:after" \in checks \/ (perms # << >> /\ perms[1] # "load")
        /\ "inflight.answer:ran-tool" \in checks' =>
             "inflight.answer:ran-tool" \in checks \/ Requests > 0
    BY <1>2 DEF ReportInFlight, ApprovalIds
  <2>3. perms # << >> => perms[1] = agent.reraises /\ perms[1] \in {"load", "after"}
    BY <1>0, <2>1 DEF RaisedAgain, Typed, SessionTypes
  <2>4. Requests > 0 => \E i \in DOMAIN entries : entries[i].proc = 2
    <3>1. ASSUME Requests > 0 PROVE Len(entries) \in DOMAIN entries /\ entries[Len(entries)].proc = 2
      <4>1. Len(entries) \in before + 1 .. Len(entries) /\ Len(entries) \in 1 .. Len(entries)
        BY <3>1 DEF Requests, Typed, LogTypes
      <4> QED BY <1>0, <2>1, <4>1 DEF RaisedAgain, Typed, LogTypes
    <3> QED BY <3>1
  <2>5. "inflight.unanswered:waited" \notin checks'
    BY <1>0, <2>1, <2>2 DEF ApprovalVerdicts, ApprovalIds
  <2> QED BY <1>0, <2>1, <2>2, <2>3, <2>4, <2>5 DEF ApprovalVerdicts, ApprovalIsTrue, ApprovalIds
<1>3. CASE Observe
  <2>1. /\ at = "observe" /\ at' = "again"
        /\ UNCHANGED <<probe, agent, entries, exited, late, told>>
    BY <1>3 DEF Observe, probe, agent, session
  <2>2. /\ \A id \in ApprovalIds \ {"inflight.unanswered:waited", "inflight.unanswered:exited"} :
              id \in checks' => id \in checks
        /\ "inflight.unanswered:waited" \in checks' =>
             "inflight.unanswered:waited" \in checks \/ (Alive /\ ~told)
        /\ "inflight.unanswered:exited" \in checks' =>
             "inflight.unanswered:exited" \in checks \/ ~Alive
    BY <1>3 DEF Observe, ApprovalIds
  <2>3. open = {2} /\ (up <=> 2 \notin exited)
    BY <2>1 DEF Typed, Processes, SecondPart
  <2>4. "inflight.unanswered:waited" \notin checks
    BY <1>0, <2>1 DEF ApprovalVerdicts
  <2> QED BY <1>0, <2>1, <2>2, <2>3, <2>4 DEF ApprovalVerdicts, ApprovalIsTrue, ApprovalIds, Alive
<1> QED BY <1>0, <1>1, <1>2, <1>3, OthersNoApproval, NoApprovalStep

LEMMA ApprovalInit == ResumeInit => ApprovalInv
  BY DEF ResumeInit, ApprovalInv, RaisedAgain, ApprovalVerdicts, ApprovalIsTrue

LEMMA ApprovalStep ==
  ASSUME Typed, ApprovalInv, [ResumeNext]_resumeVars
  PROVE  ApprovalInv'
<1>1. CASE RunnerStep
  BY <1>1, RaisedAgainStep, ApprovalVerdictsStep DEF ApprovalInv
<1>2. CASE AgentStep
  BY <1>2, ApprovalAgent
<1>3. CASE UNCHANGED resumeVars
  BY <1>3 DEF resumeVars, ApprovalInv, RaisedAgain, ApprovalVerdicts, ApprovalIsTrue, probe, agent
<1> QED BY <1>1, <1>2, <1>3 DEF ResumeNext

(* What is said of an approval a killed process left: whether it was       *)
(* raised again, whether its answer ran anything, what an unanswered one   *)
(* led to.                                                                 *)
THEOREM ApprovalTrue == ResumeSpec => []ApprovalIsTrue
<1>1. ResumeSpec => [](IInv /\ Typed)
  BY TypesInvariance
<1>2. ResumeSpec => []ApprovalInv
  BY <1>1, ApprovalInit, ApprovalStep, PTL DEF ResumeSpec
<1>3. ApprovalInv => ApprovalIsTrue
  BY DEF ApprovalInv, ApprovalVerdicts
<1> QED BY <1>2, <1>3, PTL

---------------------------------------------------------------------------
(* What the entries of the log are.                                        *)
EntryKinds ==
  \A i \in 1 .. Len(entries) :
    /\ entries[i].says \in {"side", "tool"} => entries[i].width = 1
    /\ entries[i].says = "command" => agent.compacts = "prompt"
    /\ entries[i].earlier => entries[i].says = "prompt"

(* A session that holds something holds a turn; only the compaction of a   *)
(* session condenses it.                                                   *)
HoldsWidth ==
  /\ holds # "none" => width >= 1
  /\ holds \in {"compacted", "both"} =>
       probe.kind = "compact" /\ agent.compacts \in {"reports", "wide"}

Condensed == {"compacted", "both"}
Compaction == {"compacting", "judge"}

(* Which probe is where, and what the first process has not come to yet.   *)
Kinds ==
  /\ at \in {"fill", "filling", "command"} \cup Compaction => probe.kind = "compact"
  /\ turn \in {"command", "telling"} =>
       probe.kind = "compact" /\ at \in Compaction \cup {"load", "done"}
  /\ at \in {"end", "park"} => probe.kind # "compact"
  /\ at \in {"start"} \cup (FirstPart \ Compaction) => holds \notin {"compacted", "both"}
  /\ at \in FirstPart \cup {"start", "load"} => \A i \in 1 .. Len(entries) : entries[i].proc # 2

Wide(n) == \E i \in 1 .. n : entries[i].width >= 2

(* The turns before the compaction: where none was cut off, the session of *)
(* an agent that is still there holds two of them, and the log shows it.   *)
Filled ==
  probe.kind = "compact" /\ ~late =>
    /\ at \in {"start", "prompt", "wait"} => left = Fillers
    /\ at = "wait" => turn \in {"first", "ending", "over"} /\ (turn # "first" => width >= 1)
    /\ at = "fill" /\ up => turn = "over" /\ width >= 1 /\ (left < Fillers => Wide(Len(entries)))
    /\ at = "filling" => /\ turn \in {"filler", "ending", "over"} /\ width >= 1 /\ left < Fillers
                         /\ turn # "filler" => Wide(Len(entries))
    /\ at = "command" /\ up => turn = "over" /\ Wide(Len(entries))
    /\ at \in Compaction /\ (up \/ Len(entries) > before) => Wide(before)

(* No request before the compaction is wider than the session by more than *)
(* the turn to come.                                                       *)
Bounded ==
  at \in {"start"} \cup FirstPart /\ (at \in Compaction => turn = "command") =>
    \A i \in 1 .. (IF at \in Compaction THEN before ELSE Len(entries)) : entries[i].width <= width + 1

(* From the command on: what was sent for it, what became of the session   *)
(* and what the agent said belong together.                                *)
Compacting ==
  at \in Compaction =>
    /\ up => turn \in {"command", "ending", "telling", "over"}
    /\ at = "judge" /\ ~late => turn = "over" \/ ~up
    /\ agent.compacts \notin {"reports", "wide"} =>
         \A i \in before + 1 .. Len(entries) : entries[i].says = "command" \/ entries[i].width = 1
    /\ agent.compacts = "reports" => \A i \in before + 1 .. Len(entries) : entries[i].width = 1
    /\ agent.compacts = "wide" /\ ~late /\ holds \notin Condensed =>
         \A i \in before + 1 .. Len(entries) : entries[i].width = 1
    /\ agent.compacts = "wide" /\ holds \in Condensed =>
         \E j \in before + 1 .. Len(entries) : \A i \in 1 .. before : entries[i].width <= entries[j].width
    /\ agent.compacts = "reports" /\ holds \in Condensed => told \/ turn = "telling"
    /\ told => holds \in Condensed

(* The conversation of the second process: the one prompt is the follow-up.*)
Resuming ==
  probe.kind # "inflight" /\ at \in {"ask", "poll", "settle"} =>
    /\ turn \in {"over", "followup", "ending"} /\ (at = "ask" => turn = "over")
    /\ probe.kind = "compact" /\ ~late =>
         holds \in Condensed \/ (holds = "none" /\ (at = "ask" \/ turn = "followup" => width = 0))
    /\ \A i \in 1 .. Len(entries) : entries[i].proc = 2 =>
         /\ at # "ask" /\ entries[i].says # "side" => i > before
         /\ entries[i].says \in {"side", "prompt"}
         /\ entries[i].says = "prompt" =>
              /\ at # "ask" /\ turn # "followup"
              /\ entries[i].earlier <=> holds \in {"earlier", "both"}
              /\ holds # "none" => entries[i].width >= 2
              /\ probe.kind = "compact" /\ ~late /\ holds = "none" => entries[i].width = 1
    /\ at # "ask" => \A i \in before + 1 .. Len(entries) : entries[i].proc = 2

(* A session that goes on to a load as a compacted one was compacted.      *)
CompactedLoads ==
  at = "load" /\ probe.kind = "compact" /\ ~late => holds \in Condensed

ContextIds == {"resume.context", "compact.context:original", "compact.context:summary",
               "resume.context:lost", "compact.context:lost"}

(* A verdict on a conversation ends the probe; the compaction's may not.   *)
Verdicts ==
  /\ ContextIsTrue /\ (checks \cap ContextIds # {} => at = "done")
  /\ CompactionIsTrue
  /\ checks \cap Went # {} => late \/ agent.compacts \in {"reports", "wide"}
  /\ "compact.run:as-prompt" \in checks => agent.compacts = "prompt"
  /\ "compact.run:not-compacted" \in checks => at = "done"

---------------------------------------------------------------------------
(* The request each step of the agent makes.                               *)
LEMMA LoggedEntry ==
  ASSUME Typed, NEW says \in {"prompt", "side", "command", "compaction", "tool"},
         NEW earlier \in BOOLEAN, NEW w \in Nat, Logged(says, earlier, w)
  PROVE  \A i \in Len(entries) + 1 .. Len(entries') :
           /\ entries'[i].proc = proc /\ entries'[i].says = says
           /\ entries'[i].earlier = earlier /\ entries'[i].width = w
<1>1. /\ Len(entries') = Len(entries) + 1 /\ Len(entries) \in Nat
      /\ entries'[Len(entries) + 1]
           = [proc |-> proc, says |-> says, earlier |-> earlier, width |-> w]
  BY LoggedTypes DEF Typed
<1>2. \A i \in Len(entries) + 1 .. Len(entries') : i = Len(entries) + 1
  BY <1>1
<1> QED BY <1>1, <1>2

LEMMA SideEntry ==
  ASSUME Typed, SideRequest \/ RunTool
  PROVE  \A i \in Len(entries) + 1 .. Len(entries') :
           /\ entries'[i].says = IF SideRequest THEN "side" ELSE "tool"
           /\ entries'[i].earlier = FALSE /\ entries'[i].width = 1
<1>1. CASE SideRequest
  <2>1. Logged("side", FALSE, 1)
    BY <1>1 DEF SideRequest
  <2>2. \A i \in Len(entries) + 1 .. Len(entries') :
          entries'[i].says = "side" /\ entries'[i].earlier = FALSE /\ entries'[i].width = 1
    <3>1. Logged("side", FALSE, 1) =>
            \A i \in Len(entries) + 1 .. Len(entries') :
              /\ entries'[i].proc = proc /\ entries'[i].says = "side"
              /\ entries'[i].earlier = FALSE /\ entries'[i].width = 1
      BY LoggedEntry
    <3> QED BY <2>1, <3>1
  <2> QED BY <1>1, <2>2
<1>2. CASE RunTool /\ ~SideRequest
  <2>1. Logged("tool", FALSE, 1)
    BY <1>2 DEF RunTool
  <2>2. \A i \in Len(entries) + 1 .. Len(entries') :
          entries'[i].says = "tool" /\ entries'[i].earlier = FALSE /\ entries'[i].width = 1
    <3>1. Logged("tool", FALSE, 1) =>
            \A i \in Len(entries) + 1 .. Len(entries') :
              /\ entries'[i].proc = proc /\ entries'[i].says = "tool"
              /\ entries'[i].earlier = FALSE /\ entries'[i].width = 1
      BY LoggedEntry
    <3> QED BY <2>1, <3>1
  <2> QED BY <1>2, <2>2
<1> QED BY <1>1, <1>2

LEMMA TurnEntry ==
  ASSUME Typed, SendTurn
  PROVE  /\ Len(entries') = Len(entries) + 1
         /\ \A i \in Len(entries) + 1 .. Len(entries') :
              /\ entries'[i].says = "prompt" /\ entries'[i].width = width + 1
              /\ entries'[i].earlier = (turn = "first" \/ holds \in {"earlier", "both"})
<1>1. Logged("prompt", turn = "first" \/ holds \in {"earlier", "both"}, width + 1)
  BY DEF SendTurn
<1>2. width + 1 \in Nat /\ (turn = "first" \/ holds \in {"earlier", "both"}) \in BOOLEAN
  BY DEF Typed, SessionTypes
<1>3. Len(entries') = Len(entries) + 1
  BY <1>1, <1>2, LoggedTypes DEF Typed
<1> DEFINE e == turn = "first" \/ holds \in {"earlier", "both"}
<1>4. Logged("prompt", e, width + 1) =>
        \A i \in Len(entries) + 1 .. Len(entries') :
          /\ entries'[i].proc = proc /\ entries'[i].says = "prompt"
          /\ entries'[i].earlier = e /\ entries'[i].width = width + 1
  <2> e \in BOOLEAN
    BY <1>2
  <2> HIDE DEF e
  <2> QED BY <1>2, LoggedEntry
<1> QED BY <1>1, <1>3, <1>4

(* The four ways to take the command; the fifth sends nothing.             *)
LEMMA CommandEntry ==
  ASSUME Typed, TakeCommand
  PROVE  \/ agent.compacts = "silent" /\ UNCHANGED entries
         \/ /\ Len(entries') = Len(entries) + 1
            /\ \A i \in Len(entries) + 1 .. Len(entries') :
                 /\ entries'[i].earlier = FALSE
                 /\ \/ agent.compacts = "prompt" /\ entries'[i].says = "command"
                       /\ entries'[i].width = width + 1
                    \/ agent.compacts = "noop" /\ entries'[i].says = "side" /\ entries'[i].width = 1
                    \/ agent.compacts = "reports" /\ entries'[i].says = "compaction"
                       /\ entries'[i].width = 1
                    \/ agent.compacts = "wide" /\ entries'[i].says = "compaction"
                       /\ entries'[i].width = width + 1
<1>0. width + 1 \in Nat
  BY DEF Typed, SessionTypes
<1>1. CASE agent.compacts = "silent" /\ UNCHANGED entries
  BY <1>1
<1>2. CASE agent.compacts = "prompt" /\ Logged("command", FALSE, width + 1)
  <2>1. Len(entries') = Len(entries) + 1
    BY <1>0, <1>2, LoggedTypes DEF Typed
  <2>2. \A i \in Len(entries) + 1 .. Len(entries') :
          entries'[i].earlier = FALSE /\ entries'[i].says = "command" /\ entries'[i].width = width + 1
    <3>1. Logged("command", FALSE, width + 1) =>
            \A i \in Len(entries) + 1 .. Len(entries') :
              /\ entries'[i].proc = proc /\ entries'[i].says = "command"
              /\ entries'[i].earlier = FALSE /\ entries'[i].width = width + 1
      BY LoggedEntry, <1>0
    <3> QED BY <1>2, <3>1
  <2> QED BY <1>2, <2>1, <2>2
<1>3. CASE agent.compacts = "noop" /\ Logged("side", FALSE, 1)
  <2>1. Len(entries') = Len(entries) + 1
    BY <1>3, LoggedTypes DEF Typed
  <2>2. \A i \in Len(entries) + 1 .. Len(entries') :
          entries'[i].earlier = FALSE /\ entries'[i].says = "side" /\ entries'[i].width = 1
    <3>1. Logged("side", FALSE, 1) =>
            \A i \in Len(entries) + 1 .. Len(entries') :
              /\ entries'[i].proc = proc /\ entries'[i].says = "side"
              /\ entries'[i].earlier = FALSE /\ entries'[i].width = 1
      BY LoggedEntry
    <3> QED BY <1>3, <3>1
  <2> QED BY <1>3, <2>1, <2>2
<1>4. CASE agent.compacts = "reports" /\ Logged("compaction", FALSE, 1)
  <2>1. Len(entries') = Len(entries) + 1
    BY <1>4, LoggedTypes DEF Typed
  <2>2. \A i \in Len(entries) + 1 .. Len(entries') :
          entries'[i].earlier = FALSE /\ entries'[i].says = "compaction" /\ entries'[i].width = 1
    <3>1. Logged("compaction", FALSE, 1) =>
            \A i \in Len(entries) + 1 .. Len(entries') :
              /\ entries'[i].proc = proc /\ entries'[i].says = "compaction"
              /\ entries'[i].earlier = FALSE /\ entries'[i].width = 1
      BY LoggedEntry
    <3> QED BY <1>4, <3>1
  <2> QED BY <1>4, <2>1, <2>2
<1>5. CASE agent.compacts = "wide" /\ Logged("compaction", FALSE, width + 1)
  <2>1. Len(entries') = Len(entries) + 1
    BY <1>0, <1>5, LoggedTypes DEF Typed
  <2>2. \A i \in Len(entries) + 1 .. Len(entries') :
          entries'[i].earlier = FALSE /\ entries'[i].says = "compaction" /\ entries'[i].width = width + 1
    <3>1. Logged("compaction", FALSE, width + 1) =>
            \A i \in Len(entries) + 1 .. Len(entries') :
              /\ entries'[i].proc = proc /\ entries'[i].says = "compaction"
              /\ entries'[i].earlier = FALSE /\ entries'[i].width = width + 1
      BY LoggedEntry, <1>0
    <3> QED BY <1>5, <3>1
  <2> QED BY <1>5, <2>1, <2>2
<1> QED BY <1>1, <1>2, <1>3, <1>4, <1>5 DEF TakeCommand

LEMMA OthersLogNothing ==
  ASSUME Tell \/ EndTurn \/ AskApproval \/ Exit
  PROVE  UNCHANGED <<entries, holds, width>>
  BY DEF Tell, EndTurn, AskApproval, Exit, session

---------------------------------------------------------------------------
LEMMA EntryKindsStep ==
  ASSUME Typed, EntryKinds, ResumeNext
  PROVE  EntryKinds'
<1>1. CASE RunnerStep
  BY <1>1, RunnerKeeps DEF EntryKinds
<1>2. CASE AgentStep
  <2>1. /\ UNCHANGED agent /\ Len(entries) \in Nat /\ Len(entries') \in Nat
        /\ \A i \in 1 .. Len(entries) : entries'[i] = entries[i]
    BY <1>2, AgentEntries DEF agent
  <2>2. \A i \in Len(entries) + 1 .. Len(entries') :
          /\ entries'[i].says \in {"side", "tool"} => entries'[i].width = 1
          /\ entries'[i].says = "command" => agent.compacts = "prompt"
          /\ entries'[i].earlier => entries'[i].says = "prompt"
    <3>1. CASE SideRequest \/ RunTool
      BY <3>1, SideEntry
    <3>2. CASE SendTurn
      BY <3>2, TurnEntry
    <3>3. CASE TakeCommand
      <4>1. CASE UNCHANGED entries
        BY <2>1, <4>1
      <4>2. CASE ~UNCHANGED entries
        BY <3>3, <4>2, CommandEntry
      <4> QED BY <4>1, <4>2
    <3>4. CASE Tell \/ EndTurn \/ AskApproval \/ Exit
      BY <2>1, <3>4, OthersLogNothing
    <3> QED BY <1>2, <3>1, <3>2, <3>3, <3>4 DEF AgentStep
  <2>3. SUFFICES ASSUME NEW i \in 1 .. Len(entries')
                 PROVE  /\ entries'[i].says \in {"side", "tool"} => entries'[i].width = 1
                        /\ entries'[i].says = "command" => agent.compacts = "prompt"
                        /\ entries'[i].earlier => entries'[i].says = "prompt"
    BY <2>1 DEF EntryKinds
  <2>4. CASE i \in 1 .. Len(entries)
    BY <2>1, <2>4 DEF EntryKinds
  <2>5. CASE i \in Len(entries) + 1 .. Len(entries')
    BY <2>2, <2>5
  <2> QED BY <2>1, <2>4, <2>5
<1> QED BY <1>1, <1>2 DEF ResumeNext

(* A load leaves a session with what it held, or with nothing.             *)
LEMMA RunnerHolds ==
  ASSUME RunnerStep
  PROVE  \/ UNCHANGED <<holds, width>>
         \/ (Attempt \/ LoadOnce) /\ holds' = "none" /\ width' = 0
<1>1. CASE Attempt
  BY <1>1 DEF Attempt, Resumed
<1>2. CASE LoadOnce
  BY <1>2 DEF LoadOnce, Resumed
<1> QED BY <1>1, <1>2 DEF RunnerStep, StartFirst, StartUnkillable, PromptFirst, WaitFirst, Fill,
        SendCommand, CommandWaited, JudgeCompaction, EndFirst, GiveUp, AskResumed, PollEnds,
        ReportContext, Parked, ReportInFlight, Observe, LoadAgain, session

LEMMA HoldsWidthStep ==
  ASSUME Typed, HoldsWidth, Kinds, ResumeNext
  PROVE  HoldsWidth'
<1>0. width \in Nat
  BY DEF Typed, SessionTypes
<1>1. CASE RunnerStep
  BY <1>0, <1>1, RunnerHolds, RunnerKeeps DEF HoldsWidth
<1>2. CASE SendTurn
  BY <1>0, <1>2 DEF SendTurn, HoldsWidth, probe, agent
<1>3. CASE TakeCommand
  <2>1. UNCHANGED <<probe, agent>> /\ probe.kind = "compact"
    BY <1>3 DEF TakeCommand, Kinds, probe, agent
  <2>2. \/ holds' = holds /\ (width' = width \/ width' = width + 1)
        \/ agent.compacts \in {"reports", "wide"} /\ Condense
    BY <1>3 DEF TakeCommand
  <2>3. CASE holds' = holds /\ (width' = width \/ width' = width + 1)
    BY <1>0, <2>1, <2>3 DEF HoldsWidth
  <2>4. CASE agent.compacts \in {"reports", "wide"} /\ Condense
    <3>1. Compacted.width = 1
      BY DEF Compacted
    <3>2. width' = 1 \/ UNCHANGED <<holds, width>>
      BY <2>4, <3>1 DEF Condense
    <3> QED BY <2>1, <2>4, <3>2 DEF HoldsWidth
  <2> QED BY <2>2, <2>3, <2>4
<1>4. CASE SideRequest \/ RunTool \/ Tell \/ EndTurn \/ AskApproval \/ Exit
  <2>1. UNCHANGED <<probe, agent, holds, width>>
    BY <1>4 DEF SideRequest, RunTool, Tell, EndTurn, AskApproval, Exit, session, probe, agent
  <2> QED BY <2>1 DEF HoldsWidth
<1> QED BY <1>1, <1>2, <1>3, <1>4 DEF ResumeNext, AgentStep

---------------------------------------------------------------------------
(* The kinds.                                                              *)
LEMMA KindsAgent ==
  ASSUME Typed, Kinds, AgentStep
  PROVE  Kinds'
<1>1. /\ up /\ UNCHANGED <<at, probe, proc>> /\ Len(entries) \in Nat /\ Len(entries') \in Nat
      /\ \A i \in 1 .. Len(entries) : entries'[i] = entries[i]
      /\ \A i \in Len(entries) + 1 .. Len(entries') : entries'[i].proc = proc
  BY AgentEntries DEF probe
<1>2. at \in FirstPart => proc = 1
  BY DEF Typed, Processes
<1>3. at \notin {"start", "load", "again", "done"}
  BY <1>1 DEF Typed, Processes
<1>4. at \in FirstPart => \A i \in 1 .. Len(entries') : entries'[i].proc # 2
  BY <1>1, <1>2 DEF Kinds
<1>5. turn' \in {"command", "telling"} => turn \in {"command", "telling"}
  BY DEF AgentStep, SideRequest, SendTurn, TakeCommand, Tell, EndTurn, AskApproval, RunTool, Exit
<1>6. at \in FirstPart \ Compaction => holds' \notin {"compacted", "both"}
  <2>1. at \in FirstPart \ Compaction => ~TakeCommand
    BY DEF Kinds, TakeCommand, FirstPart
  <2> QED BY <2>1 DEF Kinds, AgentStep, SideRequest, SendTurn, Tell, EndTurn, AskApproval, RunTool,
             Exit, session
<1> QED BY <1>1, <1>3, <1>4, <1>5, <1>6 DEF Kinds

LEMMA KindsRunner ==
  ASSUME Typed, Kinds, RunnerStep
  PROVE  Kinds'
<1>0. UNCHANGED <<probe, entries>>
  BY RunnerKeeps
<1>1. at' \in {"start"} \cup (FirstPart \ Compaction) =>
        holds' \notin {"compacted", "both"}
  BY RunnerHolds, ZenonT(60) DEF Kinds, FirstPart, Compaction, RunnerStep, StartFirst, StartUnkillable,
     PromptFirst, WaitFirst, Fill, SendCommand, CommandWaited, JudgeCompaction, EndFirst, Attempt,
     GiveUp, LoadOnce, AskResumed, PollEnds, ReportContext, Parked, ReportInFlight, Observe,
     LoadAgain, Stop
<1>2. at' \in FirstPart \cup {"start", "load"} => \A i \in 1 .. Len(entries') : entries'[i].proc # 2
  <2>1. at' \in FirstPart \cup {"start", "load"} => at \in FirstPart \cup {"start", "load"}
    BY DEF FirstPart, RunnerStep, StartFirst, StartUnkillable,
       PromptFirst, WaitFirst, Fill, SendCommand, CommandWaited, JudgeCompaction, EndFirst, Attempt,
       GiveUp, LoadOnce, AskResumed, PollEnds, ReportContext, Parked, ReportInFlight, Observe,
       LoadAgain, Stop
  <2> QED BY <1>0, <2>1 DEF Kinds
<1>3. /\ at' \in {"fill", "filling", "command"} \cup Compaction => probe.kind = "compact"
      /\ at' \in {"end", "park"} => probe.kind # "compact"
  BY DEF Kinds, Compaction, RunnerStep, StartFirst, StartUnkillable,
     PromptFirst, WaitFirst, Fill, SendCommand, CommandWaited, JudgeCompaction, EndFirst, Attempt,
     GiveUp, LoadOnce, AskResumed, PollEnds, ReportContext, Parked, ReportInFlight, Observe,
     LoadAgain, Stop
<1>4. turn' \in {"command", "telling"} =>
        probe.kind = "compact" /\ at' \in Compaction \cup {"load", "done"}
  BY DEF Kinds, Compaction, RunnerStep, StartFirst, StartUnkillable,
     PromptFirst, WaitFirst, Fill, SendCommand, CommandWaited, JudgeCompaction, EndFirst, Attempt,
     GiveUp, LoadOnce, AskResumed, PollEnds, ReportContext, Parked, ReportInFlight, Observe,
     LoadAgain, Stop
<1> QED BY <1>0, <1>1, <1>2, <1>3, <1>4 DEF Kinds

---------------------------------------------------------------------------
(* The turns before the compaction.                                        *)
LEMMA WidthTypes ==
  ASSUME Typed
  PROVE  \A i \in 1 .. Len(entries) : entries[i].width \in Nat
<1>1. \A i \in 1 .. Len(entries) : entries[i] \in Entry
  BY DEF Typed, LogTypes
<1> QED BY <1>1 DEF Entry

LEMMA WideGrows ==
  ASSUME Typed, AgentStep
  PROVE  /\ Wide(Len(entries)) => Wide(Len(entries))'
         /\ Wide(before) => Wide(before)'
<1>1. /\ before' = before /\ before \in 0 .. Len(entries)
      /\ Len(entries) \in Nat /\ Len(entries') \in Nat /\ Len(entries') >= Len(entries)
      /\ \A i \in 1 .. Len(entries) : entries'[i] = entries[i]
  BY AgentEntries DEF Typed, LogTypes
<1>2. Wide(Len(entries)) => Wide(Len(entries))'
  BY <1>1 DEF Wide
<1>3. Wide(before) => Wide(before)'
  BY <1>1 DEF Wide
<1> QED BY <1>2, <1>3

LEMMA FilledAgent ==
  ASSUME Typed, Kinds, Filled, AgentStep
  PROVE  Filled'
<1>0. /\ up /\ UNCHANGED <<at, probe, late, left, before>> /\ width \in Nat
      /\ Len(entries) \in Nat /\ before \in Nat /\ before <= Len(entries)
  BY AgentEntries DEF probe, Typed, SessionTypes, LogTypes
<1> SUFFICES ASSUME probe.kind = "compact", ~late PROVE Filled'
  BY <1>0 DEF Filled
<1>1. at \in Compaction => Wide(before)'
  BY <1>0, WideGrows DEF Filled
<1>2. CASE SendTurn
  <2>1. turn' = "ending" /\ width' = width + 1 /\ turn \in {"first", "filler", "followup"}
    BY <1>2 DEF SendTurn
  <2>2. Wide(Len(entries))' \/ width < 1
    <3>1. /\ Len(entries') = Len(entries) + 1
          /\ \A i \in Len(entries) + 1 .. Len(entries') : entries'[i].width = width + 1
      BY <1>2, TurnEntry
    <3> QED BY <1>0, <3>1 DEF Wide
  <2> QED BY <1>0, <1>1, <2>1, <2>2 DEF Filled
<1>3. CASE TakeCommand \/ Tell
  <2>1. at \notin {"wait", "fill", "filling", "command"}
    BY <1>3 DEF TakeCommand, Tell, Kinds, Compaction
  <2> QED BY <1>0, <1>1, <2>1 DEF Filled
<1>4. CASE SideRequest \/ EndTurn \/ AskApproval \/ RunTool \/ Exit
  <2>1. /\ UNCHANGED width
        /\ \/ UNCHANGED turn
           \/ turn = "ending" /\ turn' = "over"
           \/ turn = "asking"
    BY <1>4 DEF SideRequest, EndTurn, AskApproval, RunTool, Exit, session
  <2> QED BY <1>0, <1>1, <2>1, WideGrows DEF Filled
<1> QED BY <1>2, <1>3, <1>4 DEF AgentStep

LEMMA FilledRunner ==
  ASSUME Typed, OneDriver, Kinds, Filled, RunnerStep
  PROVE  Filled'
<1>0. UNCHANGED <<probe, entries>> /\ (late => late') /\ Len(entries) \in Nat /\ width \in Nat
  BY RunnerKeeps, LateStays DEF ResumeNext, Typed, LogTypes, SessionTypes
<1> SUFFICES ASSUME probe.kind = "compact", ~late, ~late' PROVE Filled'
  BY <1>0 DEF Filled
<1>1. CASE StartFirst \/ StartUnkillable
  BY <1>1 DEF StartFirst, StartUnkillable, Stop, Filled, Compaction
<1>2. CASE PromptFirst
  BY <1>2 DEF PromptFirst, Stop, Filled, Compaction
<1>3. CASE WaitFirst
  <2>1. at' = "fill" /\ at \in {"wait", "filling"} /\ UNCHANGED <<turn, width, left, up>>
    BY <1>3 DEF WaitFirst, driver, session
  <2>2. up => turn = "over"
    <3>1. at \in FirstPart /\ open # {}
      BY <2>1 DEF FirstPart, Typed, Processes
    <3>2. turn = "over" \/ ~Alive
      BY <1>3 DEF WaitFirst, TurnWaited
    <3> QED BY <3>1, <3>2 DEF Alive
  <2>3. up => width >= 1 /\ (at = "filling" => Wide(Len(entries))) /\ (at = "wait" => left = Fillers)
    BY <2>1, <2>2 DEF Filled
  <2>4. left \in 0 .. Fillers /\ Fillers \in Nat
    BY DelaysAssumption DEF Typed, SessionTypes
  <2>5. at = "wait" => ~(left < Fillers) \/ ~up
    BY <2>3, <2>4
  <2> QED BY <1>0, <2>1, <2>2, <2>3, <2>5 DEF Filled, Wide, Compaction
<1>4. CASE Fill
  <2>0. left \in 0 .. Fillers /\ Fillers \in Nat \ {0} /\ up \in BOOLEAN
    BY DelaysAssumption DEF Typed, SessionTypes
  <2>1. CASE left > 0 /\ up
    <3>1. at = "fill" /\ at' = "filling" /\ turn' = "filler" /\ left' = left - 1 /\ UNCHANGED width
      BY <1>4, <2>1 DEF Fill, session
    <3>2. width >= 1 /\ left' < Fillers
      BY <2>0, <2>1, <3>1 DEF Filled
    <3> QED BY <1>0, <3>1, <3>2 DEF Filled, Compaction
  <2>2. CASE ~(left > 0 /\ up)
    <3>1. at = "fill" /\ at' = "command" /\ UNCHANGED <<turn, left, up>>
      BY <1>4, <2>2 DEF Fill, driver
    <3>2. up => left < Fillers
      BY <2>0, <2>2
    <3>3. up => turn = "over" /\ Wide(Len(entries))
      BY <3>1, <3>2 DEF Filled
    <3> QED BY <1>0, <3>1, <3>3 DEF Filled, Wide, Compaction
  <2> QED BY <2>1, <2>2
<1>5. CASE SendCommand
  <2>1. at = "command" /\ at' = "compacting" /\ before' = Len(entries) /\ UNCHANGED up
    BY <1>5 DEF SendCommand, driver
  <2>2. up => Wide(Len(entries))
    BY <2>1 DEF Filled
  <2> QED BY <1>0, <2>1, <2>2 DEF Filled, Wide, Compaction
<1>6. CASE CommandWaited
  <2>1. at = "compacting" /\ at' = "judge" /\ UNCHANGED <<before, up>>
    BY <1>6 DEF CommandWaited, driver
  <2> QED BY <1>0, <2>1 DEF Filled, Wide, Compaction
<1>7. CASE JudgeCompaction \/ EndFirst \/ Attempt \/ GiveUp \/ LoadOnce \/ AskResumed
  BY <1>7 DEF JudgeCompaction, EndFirst, Attempt, GiveUp, LoadOnce, AskResumed, Stop, Filled,
     Compaction
<1>8. CASE PollEnds \/ ReportContext \/ Parked \/ ReportInFlight \/ Observe \/ LoadAgain
  BY <1>8 DEF PollEnds, ReportContext, Parked, ReportInFlight, Observe, LoadAgain, Stop, Filled,
     Compaction
<1> QED BY <1>1, <1>2, <1>3, <1>4, <1>5, <1>6, <1>7, <1>8 DEF RunnerStep

---------------------------------------------------------------------------
(* The widths before the compaction.                                       *)
LEMMA BoundedAgent ==
  ASSUME Typed, Kinds, Bounded, AgentStep
  PROVE  Bounded'
<1> DEFINE n == IF at \in Compaction THEN before ELSE Len(entries)
<1>0. /\ UNCHANGED <<at, before>> /\ width \in Nat
      /\ Len(entries) \in Nat /\ Len(entries') \in Nat /\ before \in Nat /\ before <= Len(entries)
      /\ \A i \in 1 .. Len(entries) : entries'[i] = entries[i] /\ entries[i].width \in Nat
  BY AgentEntries, WidthTypes DEF Typed, SessionTypes, LogTypes
<1>1. CASE SideRequest \/ RunTool
  <2>1. UNCHANGED <<width, turn>>
    BY <1>1 DEF SideRequest, RunTool, session
  <2>2. \A i \in Len(entries) + 1 .. Len(entries') : entries'[i].width = 1
    BY <1>1, SideEntry
  <2> QED BY <1>0, <2>1, <2>2 DEF Bounded
<1>2. CASE SendTurn
  <2>1. width' = width + 1 /\ turn' # "command"
    BY <1>2 DEF SendTurn
  <2>2. \A i \in Len(entries) + 1 .. Len(entries') : entries'[i].width = width + 1
    BY <1>2, TurnEntry
  <2> QED BY <1>0, <2>1, <2>2 DEF Bounded
<1>3. CASE TakeCommand
  <2>1. turn' # "command" /\ at \in Compaction \cup {"load", "done"}
    BY <1>3 DEF TakeCommand, Kinds
  <2> QED BY <1>0, <2>1 DEF Bounded, FirstPart, Compaction
<1>4. CASE Tell \/ EndTurn \/ AskApproval \/ Exit
  <2>1. UNCHANGED <<entries, width>> /\ (turn' = "command" => turn = "command")
    BY <1>4 DEF Tell, EndTurn, AskApproval, Exit, session
  <2> QED BY <1>0, <2>1 DEF Bounded
<1> QED BY <1>1, <1>2, <1>3, <1>4 DEF AgentStep

LEMMA BoundedRunner ==
  ASSUME Typed, Bounded, RunnerStep
  PROVE  Bounded'
<1>0. UNCHANGED entries
  BY RunnerKeeps
<1>1. SUFFICES ASSUME at' \in {"start"} \cup FirstPart, at' \in Compaction => turn' = "command"
               PROVE  \A i \in 1 .. (IF at' \in Compaction THEN before' ELSE Len(entries)) :
                         entries[i].width <= width' + 1
  BY <1>0 DEF Bounded
<1>2. ~Attempt /\ ~LoadOnce /\ UNCHANGED width
  <2>1. CASE Attempt
    BY <1>1, <2>1 DEF Attempt, FirstPart
  <2>2. CASE LoadOnce
    BY <1>1, <2>2 DEF LoadOnce, FirstPart, Stop
  <2> QED BY <2>1, <2>2, RunnerHolds
<1>3. CASE SendCommand
  <2>1. at = "command" /\ at' = "compacting" /\ before' = Len(entries)
    BY <1>3 DEF SendCommand
  <2> QED BY <1>2, <2>1 DEF Bounded, FirstPart, Compaction
<1>4. CASE CommandWaited
  <2>1. at = "compacting" /\ at' = "judge" /\ UNCHANGED <<before, turn>>
    BY <1>4 DEF CommandWaited
  <2> QED BY <1>1, <1>2, <2>1 DEF Bounded, FirstPart, Compaction
<1>5. CASE StartFirst \/ PromptFirst \/ WaitFirst \/ Fill
  <2>1. at \in ({"start"} \cup FirstPart) \ Compaction /\ at' \notin Compaction
    BY <1>1, <1>5 DEF StartFirst, PromptFirst, WaitFirst, Fill, FirstPart, Compaction, Stop
  <2> QED BY <1>2, <2>1 DEF Bounded
<1>6. ~(StartUnkillable \/ JudgeCompaction \/ EndFirst \/ GiveUp \/ AskResumed \/ PollEnds)
  BY <1>1 DEF StartUnkillable, JudgeCompaction, EndFirst, GiveUp, AskResumed, PollEnds, FirstPart,
     Stop
<1>7. ~(ReportContext \/ Parked \/ ReportInFlight \/ Observe \/ LoadAgain)
  BY <1>1 DEF ReportContext, Parked, ReportInFlight, Observe, LoadAgain, FirstPart, Stop
<1> QED BY <1>2, <1>3, <1>4, <1>5, <1>6, <1>7 DEF RunnerStep

---------------------------------------------------------------------------
(* The compaction.                                                         *)
LEMMA Condenses ==
  ASSUME Condense, holds \in Held
  PROVE  /\ holds \in Condensed => holds' \in Condensed
         /\ answer = "summary" => holds' \in Condensed
<1>1. Compacted.holds \in Condensed
  BY DEF Compacted, Condensed
<1> QED BY <1>1 DEF Condense

LEMMA CompactingAgent ==
  ASSUME Typed, OneDriver, Kinds, Filled, Bounded, Compacting, AgentStep
  PROVE  Compacting'
<1>0. /\ up /\ UNCHANGED <<at, agent, probe, before, late>>
      /\ Len(entries) \in Nat /\ Len(entries') \in Nat /\ Len(entries') >= Len(entries)
      /\ before \in Nat /\ before <= Len(entries) /\ width \in Nat /\ holds \in Held
      /\ \A i \in 1 .. Len(entries) : entries'[i] = entries[i] /\ entries[i].width \in Nat
  BY AgentEntries, WidthTypes DEF Typed, SessionTypes, LogTypes, probe, agent
<1> SUFFICES ASSUME at \in Compaction PROVE Compacting'
  BY <1>0 DEF Compacting
<1>1. probe.kind = "compact" /\ turn \in {"command", "ending", "telling", "over"}
  BY <1>0 DEF Kinds, Compacting
<1>2. ~SendTurn /\ ~AskApproval /\ ~RunTool
  BY <1>1 DEF SendTurn, AskApproval, RunTool, Allowed
<1>3. agent.compacts = "wide" /\ holds \in Condensed =>
        \E j \in before + 1 .. Len(entries') : \A i \in 1 .. before : entries'[i].width <= entries'[j].width
  <2>1. SUFFICES ASSUME agent.compacts = "wide", holds \in Condensed
                 PROVE  \E j \in before + 1 .. Len(entries') :
                           \A i \in 1 .. before : entries'[i].width <= entries'[j].width
    OBVIOUS
  <2>2. PICK j \in before + 1 .. Len(entries) : \A i \in 1 .. before : entries[i].width <= entries[j].width
    BY <2>1 DEF Compacting
  <2>3. j \in before + 1 .. Len(entries') /\ entries'[j] = entries[j]
    BY <1>0, <2>2
  <2>4. \A i \in 1 .. before : entries'[i] = entries[i]
    BY <1>0
  <2> QED BY <2>2, <2>3, <2>4
<1>4. CASE SideRequest
  <2>1. UNCHANGED <<turn, up, told, holds>>
    BY <1>4 DEF SideRequest, driver, session
  <2>2. \A i \in Len(entries) + 1 .. Len(entries') : entries'[i].width = 1
    BY <1>4, SideEntry
  <2>3. /\ agent.compacts \notin {"reports", "wide"} =>
             \A i \in before + 1 .. Len(entries') : entries'[i].says = "command" \/ entries'[i].width = 1
        /\ agent.compacts = "reports" => \A i \in before + 1 .. Len(entries') : entries'[i].width = 1
        /\ agent.compacts = "wide" /\ ~late /\ holds \notin Condensed =>
             \A i \in before + 1 .. Len(entries') : entries'[i].width = 1
    BY <1>0, <2>2, SMTT(30) DEF Compacting
  <2> QED BY <1>0, <1>3, <2>1, <2>3 DEF Compacting
<1>5. CASE TakeCommand
  <2>1. turn = "command" /\ turn' = (IF agent.compacts = "reports" THEN "telling" ELSE "ending")
        /\ UNCHANGED told
    BY <1>5 DEF TakeCommand
  <2>2. at = "judge" => late
    BY <1>0, <2>1 DEF Compacting, Typed, SessionTypes
  <2>3. \/ agent.compacts \in {"silent", "prompt", "noop"} /\ UNCHANGED holds
        \/ agent.compacts \in {"reports", "wide"} /\ Condense
    BY <1>5 DEF TakeCommand
  <2>4. holds \in Condensed => holds' \in Condensed
    BY <1>0, <2>3, Condenses
  <2>5. agent.compacts = "wide" /\ ~late => holds' \in Condensed
    <3>1. at = "compacting" => answer = "summary"
      BY DEF OneDriver
    <3> QED BY <1>0, <2>2, <2>3, <3>1, Condenses DEF Compaction
  <2>6. \A i \in Len(entries) + 1 .. Len(entries') :
          /\ agent.compacts \notin {"reports", "wide"} =>
               entries'[i].says = "command" \/ entries'[i].width = 1
          /\ agent.compacts = "reports" => entries'[i].width = 1
    <3>1. CASE UNCHANGED entries
      BY <1>0, <3>1
    <3>2. CASE ~UNCHANGED entries
      BY <1>5, <3>2, CommandEntry
    <3> QED BY <3>1, <3>2
  <2>7. agent.compacts = "wide" =>
          \E j \in before + 1 .. Len(entries') : \A i \in 1 .. before : entries'[i].width <= entries'[j].width
    <3>1. SUFFICES ASSUME agent.compacts = "wide"
                   PROVE  \E j \in before + 1 .. Len(entries') :
                             \A i \in 1 .. before : entries'[i].width <= entries'[j].width
      OBVIOUS
    <3>2. /\ Len(entries') = Len(entries) + 1
          /\ \A i \in Len(entries) + 1 .. Len(entries') : entries'[i].width = width + 1
      BY <1>5, <3>1, CommandEntry
    <3>3. Len(entries) + 1 \in before + 1 .. Len(entries')
          /\ entries'[Len(entries) + 1].width = width + 1
      BY <1>0, <3>2
    <3>4. \A i \in 1 .. before : entries[i].width <= width + 1
      BY <2>1 DEF Bounded, Compaction, FirstPart
    <3>5. \A i \in 1 .. before : entries'[i].width <= entries'[Len(entries) + 1].width
      <4>1. \A i \in 1 .. before : entries'[i] = entries[i]
        BY <1>0
      <4> QED BY <3>3, <3>4, <4>1
    <3> QED BY <3>3, <3>5
  <2>8. /\ agent.compacts \notin {"reports", "wide"} =>
             \A i \in before + 1 .. Len(entries') : entries'[i].says = "command" \/ entries'[i].width = 1
        /\ agent.compacts = "reports" => \A i \in before + 1 .. Len(entries') : entries'[i].width = 1
    <3>1. \A i \in before + 1 .. Len(entries') :
             \/ i \in Len(entries) + 1 .. Len(entries')
             \/ i \in before + 1 .. Len(entries) /\ entries'[i] = entries[i]
      BY <1>0
    <3> QED BY <2>6, <3>1 DEF Compacting
  <2>9. told => holds' \in Condensed
    BY <2>4 DEF Compacting
  <2> QED BY <1>0, <2>1, <2>2, <2>5, <2>7, <2>8, <2>9 DEF Compacting
<1>6. CASE Tell
  <2>1. turn = "telling"
    BY <1>6 DEF Tell, Compaction
  <2>2. turn' = "ending" /\ (told' <=> holds \in Condensed) /\ UNCHANGED <<entries, holds, up>>
    BY <1>6, <2>1 DEF Tell, Condensed, session, driver
  <2>3. at = "judge" => late
    BY <1>0, <2>1 DEF Compacting, Typed, SessionTypes
  <2> QED BY <1>0, <2>2, <2>3 DEF Compacting
<1>7. CASE EndTurn
  <2>1. turn = "ending" /\ turn' = "over" /\ UNCHANGED <<entries, holds, up, told>>
    BY <1>7 DEF EndTurn, session, driver
  <2> QED BY <1>0, <2>1 DEF Compacting
<1>8. CASE Exit
  <2>1. up' = FALSE /\ UNCHANGED <<turn, entries, holds, told>>
    BY <1>8 DEF Exit
  <2> QED BY <1>0, <2>1 DEF Compacting
<1> QED BY <1>2, <1>4, <1>5, <1>6, <1>7, <1>8 DEF AgentStep

LEMMA CompactingRunner ==
  ASSUME Typed, Kinds, Compacting, RunnerStep
  PROVE  Compacting'
<1>0. UNCHANGED <<probe, agent, entries>> /\ Len(entries) \in Nat
  BY RunnerKeeps DEF Typed, LogTypes
<1>1. CASE SendCommand
  <2>1. /\ at = "command" /\ at' = "compacting" /\ before' = Len(entries) /\ told' = FALSE
        /\ turn' = (IF up THEN "command" ELSE turn) /\ UNCHANGED <<holds, up>>
    BY <1>1 DEF SendCommand, driver, session
  <2>2. holds' \notin Condensed
    BY <2>1 DEF Kinds, FirstPart, Compaction, Condensed
  <2>3. \A i \in before' + 1 .. Len(entries') : FALSE
    BY <1>0, <2>1
  <2> QED BY <2>1, <2>2, <2>3 DEF Compacting
<1>2. CASE CommandWaited
  <2>1. /\ at = "compacting" /\ at' = "judge" /\ UNCHANGED <<turn, before, told, holds, up>>
    BY <1>2 DEF CommandWaited, driver, session
  <2>2. ~late' => ~late /\ (turn = "over" \/ ~up)
    <3>1. open # {}
      BY <2>1 DEF Typed, Processes, FirstPart
    <3> QED BY <1>2, <3>1 DEF CommandWaited, TurnWaited, Alive
  <2> QED BY <1>0, <2>1, <2>2 DEF Compacting, Compaction
<1>3. CASE ~SendCommand /\ ~CommandWaited
  <2>1. at' \notin Compaction
    BY <1>3 DEF Compaction, RunnerStep, StartFirst, StartUnkillable, PromptFirst, WaitFirst, Fill,
       JudgeCompaction, EndFirst, Attempt, GiveUp, LoadOnce, AskResumed, PollEnds, ReportContext,
       Parked, ReportInFlight, Observe, LoadAgain, Stop
  <2> QED BY <2>1 DEF Compacting
<1> QED BY <1>1, <1>2, <1>3

---------------------------------------------------------------------------
(* What is said of the compaction.                                         *)
LEMMA SinceIs ==
  ASSUME NEW e \in Since(before)
  PROVE  \E i \in before + 1 .. Len(entries) : e = entries[i]
  BY DEF Since

LEMMA JudgedTrue ==
  ASSUME Typed, EntryKinds, HoldsWidth, Filled, Compacting, at = "judge", probe.kind = "compact",
         ~late
  PROVE  /\ Judged(Since(before)) \in Went =>
              holds \in Condensed /\ agent.compacts \in {"reports", "wide"}
         /\ Judged(Since(before)) = "compact.run:not-compacted" =>
              holds \notin Condensed \/ (agent.compacts = "reports" /\ 1 \in exited)
<1> DEFINE sent == Since(before)
<1>0. /\ Len(entries) \in Nat /\ before \in Nat /\ before <= Len(entries)
      /\ \A i \in 1 .. Len(entries) : entries[i].width \in Nat
      /\ \A e \in sent : \E i \in before + 1 .. Len(entries) : e = entries[i]
      /\ \A i \in before + 1 .. Len(entries) : entries[i] \in sent
      /\ \A f \in Before : \E i \in 1 .. before : f = entries[i]
      /\ \A i \in 1 .. before : entries[i] \in Before
  BY WidthTypes DEF Typed, LogTypes, Since, Before
<1>1. at \in Compaction /\ (up <=> 1 \notin exited)
  BY DEF Compaction, Typed, Processes, FirstPart
<1>2. sent # {} => Wide(before)
  <2>1. sent # {} => Len(entries) > before
    BY <1>0
  <2> QED BY <1>1, <2>1 DEF Filled
<1>3. ASSUME sent # {}, \A e \in sent : e.width = 1
      PROVE  Narrower(sent, Before)
  <2>1. PICK i \in 1 .. before : entries[i].width >= 2
    BY <1>2, <1>3 DEF Wide
  <2>2. entries[i] \in Before /\ entries[i].width \in Nat
    BY <1>0
  <2>3. \A e \in sent : e.width < entries[i].width
    BY <1>3, <2>1, <2>2
  <2> QED BY <2>2, <2>3 DEF Narrower
<1>4. ASSUME agent.compacts = "wide", holds \in Condensed PROVE ~Narrower(sent, Before)
  <2>1. PICK j \in before + 1 .. Len(entries) : \A i \in 1 .. before : entries[i].width <= entries[j].width
    BY <1>1, <1>4 DEF Compacting
  <2>2. entries[j] \in sent
    BY <1>0
  <2>3. SUFFICES ASSUME NEW f \in Before, \A e \in sent : e.width < f.width PROVE FALSE
    BY DEF Narrower
  <2>4. PICK i \in 1 .. before : f = entries[i]
    BY <1>0
  <2>5. entries[i].width <= entries[j].width /\ entries[j].width < entries[i].width
    BY <2>1, <2>2, <2>3, <2>4
  <2>6. entries[i].width \in Nat /\ entries[j].width \in Nat
    BY <1>0
  <2> QED BY <2>5, <2>6
<1>5. ASSUME Judged(sent) \in Went PROVE holds \in Condensed /\ agent.compacts \in {"reports", "wide"}
  <2>1. /\ sent # {}
        /\ told \/ ((\A e \in sent : e.says # "command") /\ ~Narrower(sent, Before))
    BY <1>5 DEF Judged, Went
  <2>2. CASE told
    BY <1>1, <2>2 DEF Compacting, HoldsWidth, Condensed
  <2>3. CASE (\A e \in sent : e.says # "command") /\ ~Narrower(sent, Before)
    <3>1. ~(\A e \in sent : e.width = 1)
      BY <1>3, <2>1, <2>3
    <3>2. PICK i \in before + 1 .. Len(entries) : entries[i].width # 1 /\ entries[i].says # "command"
      BY <1>0, <2>3, <3>1
    <3> QED BY <1>1, <3>2 DEF Compacting
  <2> QED BY <2>1, <2>2, <2>3
<1>6. ASSUME Judged(sent) = "compact.run:not-compacted", holds \in Condensed
      PROVE  agent.compacts = "reports" /\ 1 \in exited
  <2>1. ~told /\ Narrower(sent, Before)
    BY <1>6 DEF Judged
  <2>2. agent.compacts = "reports"
    BY <1>4, <1>6, <2>1 DEF HoldsWidth, Condensed
  <2>3. turn = "telling"
    BY <1>1, <1>6, <2>1, <2>2 DEF Compacting
  <2> QED BY <1>1, <2>2, <2>3 DEF Compacting
<1> QED BY <1>5, <1>6

LEMMA CompactedLoadsStep ==
  ASSUME Typed, OneDriver, EntryKinds, HoldsWidth, Kinds, Filled, Compacting, CompactedLoads, ResumeNext
  PROVE  CompactedLoads'
<1>1. CASE AgentStep
  <2>1. UNCHANGED at /\ up
    BY <1>1, AgentEntries
  <2>2. at # "load"
    BY <2>1 DEF Typed, Processes
  <2> QED BY <2>1, <2>2 DEF CompactedLoads
<1>2. CASE RunnerStep
  <2>0. UNCHANGED <<probe, agent>> /\ (late => late')
    BY <1>2, RunnerKeeps, LateStays DEF ResumeNext
  <2>1. SUFFICES ASSUME at' = "load", probe.kind = "compact", ~late' PROVE holds' \in Condensed
    BY <2>0 DEF CompactedLoads
  <2>2. CASE JudgeCompaction
    <3>1. Judged(Since(before)) \in Went /\ at = "judge" /\ UNCHANGED <<holds, late>>
      BY <2>1, <2>2 DEF JudgeCompaction, Stop, session
    <3> QED BY <2>1, <3>1, JudgedTrue
  <2>3. ~Attempt
    BY <2>0, <2>1 DEF Attempt
  <2>4. ~EndFirst /\ ~Parked
    <3>1. EndFirst => at = "end"
      BY DEF EndFirst
    <3>2. Parked => at = "park"
      BY DEF Parked
    <3> QED BY <2>1, <3>1, <3>2 DEF Kinds
  <2>5. ~(RunnerStep /\ ~JudgeCompaction /\ ~Attempt /\ ~EndFirst /\ ~Parked)
    BY <2>1 DEF RunnerStep, StartFirst, StartUnkillable, PromptFirst, WaitFirst, Fill, SendCommand,
       CommandWaited, GiveUp, LoadOnce, AskResumed, PollEnds, ReportContext, ReportInFlight, Observe,
       LoadAgain, Stop
  <2> QED BY <1>2, <2>2, <2>3, <2>4, <2>5
<1> QED BY <1>1, <1>2 DEF ResumeNext

---------------------------------------------------------------------------
(* The conversation after a load.                                          *)
LEMMA ResumingAgent ==
  ASSUME Typed, HoldsWidth, Kinds, Resuming, AgentStep
  PROVE  Resuming'
<1>0. /\ UNCHANGED <<at, probe, before, late>> /\ width \in Nat
      /\ Len(entries) \in Nat /\ Len(entries') \in Nat /\ before \in Nat /\ before <= Len(entries)
      /\ \A i \in 1 .. Len(entries) : entries'[i] = entries[i]
      /\ \A i \in Len(entries) + 1 .. Len(entries') : entries'[i].proc = proc
  BY AgentEntries DEF Typed, SessionTypes, LogTypes, probe
<1> SUFFICES ASSUME probe.kind # "inflight", at \in {"ask", "poll", "settle"} PROVE Resuming'
  BY <1>0 DEF Resuming
<1>1. /\ proc = 2 /\ turn \in {"over", "followup", "ending"} /\ (at = "ask" => turn = "over")
  BY DEF Resuming, Typed, Processes, SecondPart
<1>2. ~TakeCommand /\ ~Tell /\ ~AskApproval /\ ~RunTool
  BY <1>1 DEF TakeCommand, Tell, AskApproval, RunTool, Allowed
<1>3. at # "ask" => \A i \in before + 1 .. Len(entries') : entries'[i].proc = 2
  BY <1>0, <1>1 DEF Resuming
<1>4. CASE SideRequest
  <2>1. UNCHANGED <<turn, holds, width>>
    BY <1>4 DEF SideRequest, session
  <2>2. \A i \in Len(entries) + 1 .. Len(entries') : entries'[i].says = "side"
    BY <1>4, SideEntry
  <2>3. \A i \in 1 .. Len(entries') : entries'[i].proc = 2 =>
          \/ entries'[i].says = "side"
          \/ i \in 1 .. Len(entries) /\ entries'[i] = entries[i]
    BY <1>0, <2>2
  <2> QED BY <1>0, <1>1, <1>3, <2>1, <2>3 DEF Resuming
<1>5. CASE SendTurn
  <2>1. /\ turn = "followup" /\ at # "ask" /\ turn' = "ending" /\ UNCHANGED holds
        /\ width' = width + 1
    BY <1>1, <1>5 DEF SendTurn
  <2>2. \A i \in Len(entries) + 1 .. Len(entries') :
          /\ entries'[i].says = "prompt" /\ entries'[i].width = width + 1
          /\ entries'[i].earlier = (turn = "first" \/ holds \in {"earlier", "both"})
    BY <1>5, TurnEntry
  <2>3. \A i \in Len(entries) + 1 .. Len(entries') :
          /\ i > before /\ entries'[i].says = "prompt"
          /\ entries'[i].earlier <=> holds \in {"earlier", "both"}
          /\ holds # "none" => entries'[i].width >= 2
          /\ probe.kind = "compact" /\ ~late /\ holds = "none" => entries'[i].width = 1
    <3>1. holds # "none" => width >= 1
      BY DEF HoldsWidth
    <3>2. probe.kind = "compact" /\ ~late /\ holds = "none" => width = 0
      BY <2>1 DEF Resuming, Condensed
    <3>3. SUFFICES ASSUME NEW i \in Len(entries) + 1 .. Len(entries')
                   PROVE  /\ i > before /\ entries'[i].says = "prompt"
                          /\ entries'[i].earlier <=> holds \in {"earlier", "both"}
                          /\ holds # "none" => entries'[i].width >= 2
                          /\ probe.kind = "compact" /\ ~late /\ holds = "none" => entries'[i].width = 1
      OBVIOUS
    <3>4. i > before
      BY <1>0
    <3>5. /\ entries'[i].says = "prompt" /\ entries'[i].width = width + 1
          /\ entries'[i].earlier = (turn = "first" \/ holds \in {"earlier", "both"})
      BY <2>2
    <3>6. entries'[i].earlier <=> holds \in {"earlier", "both"}
      BY <2>1, <3>5
    <3>7. /\ holds # "none" => entries'[i].width >= 2
          /\ probe.kind = "compact" /\ ~late /\ holds = "none" => entries'[i].width = 1
      BY <1>0, <3>1, <3>2, <3>5
    <3> QED BY <3>4, <3>5, <3>6, <3>7
  <2>4. \A i \in 1 .. Len(entries) : entries'[i].proc = 2 => entries'[i].says = "side"
    BY <1>0, <2>1 DEF Resuming
  <2>5. \A i \in 1 .. Len(entries') : i \in 1 .. Len(entries) \/ i \in Len(entries) + 1 .. Len(entries')
    BY <1>0
  <2>6. \A i \in 1 .. Len(entries') : entries'[i].proc = 2 =>
          /\ entries'[i].says # "side" => i > before
          /\ entries'[i].says \in {"side", "prompt"}
          /\ entries'[i].says = "prompt" =>
               /\ entries'[i].earlier <=> holds \in {"earlier", "both"}
               /\ holds # "none" => entries'[i].width >= 2
               /\ probe.kind = "compact" /\ ~late /\ holds = "none" => entries'[i].width = 1
    BY <2>3, <2>4, <2>5
  <2>7. probe.kind = "compact" /\ ~late => holds \in Condensed \/ holds = "none"
    BY DEF Resuming
  <2> QED BY <1>0, <1>3, <2>1, <2>6, <2>7 DEF Resuming
<1>6. CASE EndTurn \/ Exit
  <2>1. /\ UNCHANGED <<entries, holds, width>>
        /\ UNCHANGED turn \/ (turn = "ending" /\ turn' = "over")
    BY <1>6 DEF EndTurn, Exit, session
  <2> QED BY <1>0, <1>1, <2>1 DEF Resuming
<1> QED BY <1>2, <1>4, <1>5, <1>6 DEF AgentStep

LEMMA ResumingRunner ==
  ASSUME Typed, HoldsWidth, Kinds, CompactedLoads, Resuming, RunnerStep
  PROVE  Resuming'
<1>0. UNCHANGED <<probe, entries>> /\ (late => late') /\ Len(entries) \in Nat
  BY RunnerKeeps, LateStays DEF ResumeNext, Typed, LogTypes
<1>1. CASE Attempt
  <2>1. /\ at = "load" /\ turn' = "over" /\ probe.kind = "resume" /\ at' \in {"load", "ask"}
    BY <1>1 DEF Attempt
  <2>2. \A i \in 1 .. Len(entries) : entries[i].proc # 2
    BY <2>1 DEF Kinds
  <2> QED BY <1>0, <2>1, <2>2 DEF Resuming
<1>2. CASE LoadOnce
  <2>1. at = "load" /\ turn' = "over" /\ at' \in {"ask", "settle", "done"} /\ UNCHANGED late
    BY <1>2 DEF LoadOnce, Stop
  <2>2. \A i \in 1 .. Len(entries) : entries[i].proc # 2
    BY <2>1 DEF Kinds
  <2>3. probe.kind # "inflight" => at' \in {"ask", "done"}
    BY <1>2, PlanKinds DEF LoadOnce, Stop, Typed
  <2>4. probe.kind = "compact" /\ ~late => holds \in Condensed
    BY <2>1 DEF CompactedLoads
  <2> QED BY <1>0, <1>2, <2>1, <2>2, <2>3, <2>4, RunnerHolds DEF Resuming
<1>3. CASE AskResumed
  <2>1. /\ at = "ask" /\ before' = Len(entries) /\ UNCHANGED <<holds, width, late>>
        /\ at' = "done" \/ (at' = "poll" /\ turn' = "followup")
    BY <1>3 DEF AskResumed, Mark, Stop, session
  <2>2. probe.kind # "inflight" =>
          \A i \in 1 .. Len(entries) : entries[i].proc = 2 => entries[i].says = "side"
    BY <2>1 DEF Resuming
  <2>3. \A i \in before' + 1 .. Len(entries) : FALSE
    BY <1>0, <2>1
  <2>4. probe.kind = "compact" /\ ~late =>
          holds \in Condensed \/ (holds = "none" /\ width = 0)
    BY <2>1 DEF Resuming
  <2> QED BY <1>0, <2>1, <2>2, <2>3, <2>4 DEF Resuming
<1>4. CASE PollEnds
  <2>1. /\ at = "poll" /\ at' = "settle" /\ UNCHANGED <<turn, before, holds, width>>
    BY <1>4 DEF PollEnds, session
  <2> QED BY <1>0, <2>1 DEF Resuming
<1>5. CASE ~Attempt /\ ~LoadOnce /\ ~AskResumed /\ ~PollEnds
  <2>1. at' \notin {"ask", "poll", "settle"}
    BY <1>5 DEF RunnerStep, StartFirst, StartUnkillable, PromptFirst, WaitFirst, Fill, SendCommand,
       CommandWaited, JudgeCompaction, EndFirst, GiveUp, ReportContext, Parked, ReportInFlight,
       Observe, LoadAgain, Stop
  <2> QED BY <2>1 DEF Resuming
<1> QED BY <1>1, <1>2, <1>3, <1>4, <1>5

---------------------------------------------------------------------------
(* The verdicts.                                                           *)
JudgingIds == ContextIds \cup Went \cup {"compact.run:as-prompt", "compact.run:not-compacted"}

LEMMA OthersDoNotJudge ==
  ASSUME RunnerStep, ~JudgeCompaction, ~ReportContext
  PROVE  \E ids : ids \cap JudgingIds = {} /\ checks' = checks \cup ids
<1> USE DEF JudgingIds, ContextIds, Went, Say, Stop
<1>1. CASE Parked
  <2>1. {"inflight.park", "session-id", "inflight.park:not-gated", "inflight.park:tool-not-served"}
          \cap JudgingIds = {}
    OBVIOUS
  <2> QED BY <1>1, <2>1 DEF Parked
<1>2. CASE ReportInFlight
  <2> DEFINE ids == {"inflight.resume"} \cup
         (IF perms = << >> THEN {"inflight.reraise:none"}
          ELSE {IF perms[1] = "load" THEN "inflight.reraise:load" ELSE "inflight.reraise:after",
                IF Requests > 0 THEN "inflight.answer:ran-tool" ELSE "inflight.answer:nothing-sent"})
  <2>1. ids \cap JudgingIds = {}
    OBVIOUS
  <2>2. checks' = checks \cup ids
    BY <1>2 DEF ReportInFlight
  <2> QED BY <2>1, <2>2
<1>3. CASE Observe
  <2>1. {"inflight.unanswered:exited", "inflight.unanswered:moved-on", "inflight.unanswered:waited"}
          \cap JudgingIds = {}
    OBVIOUS
  <2> QED BY <1>3, <2>1 DEF Observe
<1>4. CASE ~Parked /\ ~ReportInFlight /\ ~Observe
  <2>1. PlainIds \cap JudgingIds = {}
    BY DEF PlainIds
  <2>2. PICK ids \in SUBSET PlainIds : checks' = checks \cup ids
    BY <1>4, PlainReports
  <2> QED BY <2>1, <2>2
<1> QED BY <1>1, <1>2, <1>3, <1>4

LEMMA ContextTrueNow ==
  ASSUME Typed, EntryKinds, HoldsWidth, Resuming, at = "settle", probe.kind # "inflight"
  PROVE  /\ Context(Since(before)) \in {"resume.context", "compact.context:original"}
              => holds \in {"earlier", "both"} /\ FollowedUp
         /\ Context(Since(before)) = "compact.context:summary" => holds = "compacted" \/ late
         /\ Context(Since(before)) \in {"resume.context:lost", "compact.context:lost"}
              => holds = "none" \/ ~FollowedUp
<1> DEFINE sent == Since(before)
<1>0. /\ Len(entries) \in Nat /\ before \in Nat /\ before <= Len(entries) /\ proc = 2
      /\ DOMAIN entries = 1 .. Len(entries)
      /\ \A e \in sent : \E i \in before + 1 .. Len(entries) : e = entries[i]
      /\ \A i \in before + 1 .. Len(entries) : entries[i] \in sent
      /\ \A i \in 1 .. Len(entries) : entries[i].width \in Nat
  BY WidthTypes DEF Typed, LogTypes, Since, Processes, SecondPart
<1>1. \A i \in before + 1 .. Len(entries) :
        /\ i \in 1 .. Len(entries) /\ entries[i].proc = 2
        /\ \/ entries[i].says = "side" /\ entries[i].width = 1 /\ ~entries[i].earlier
           \/ /\ entries[i].says = "prompt"
              /\ entries[i].earlier <=> holds \in {"earlier", "both"}
              /\ holds # "none" => entries[i].width >= 2
              /\ probe.kind = "compact" /\ ~late /\ holds = "none" => entries[i].width = 1
  BY <1>0 DEF Resuming, EntryKinds
<1>2. FollowedUp => \E i \in before + 1 .. Len(entries) : entries[i].says = "prompt"
  <2>1. SUFFICES ASSUME NEW i \in 1 .. Len(entries), entries[i].proc = 2, entries[i].says = "prompt"
                 PROVE  i \in before + 1 .. Len(entries)
    BY <1>0 DEF FollowedUp
  <2>2. i > before
    BY <2>1 DEF Resuming
  <2> QED BY <1>0, <2>2
<1>3. ASSUME Context(sent) \in {"resume.context", "compact.context:original"}
      PROVE  holds \in {"earlier", "both"} /\ FollowedUp
  <2>1. \E e \in sent : e.earlier
    BY <1>3 DEF Context
  <2>2. PICK i \in before + 1 .. Len(entries) : entries[i].earlier
    BY <1>0, <2>1
  <2>3. holds \in {"earlier", "both"} /\ entries[i].says = "prompt" /\ entries[i].proc = 2
    BY <1>1, <2>2
  <2> QED BY <1>0, <1>1, <2>3 DEF FollowedUp
<1>4. ASSUME Context(sent) = "compact.context:summary", ~late PROVE holds = "compacted"
  <2>1. probe.kind # "resume" /\ ~(\E e \in sent : e.earlier) /\ WiderThan(sent, 1)
    BY <1>4 DEF Context
  <2>2. probe.kind = "compact"
    BY <2>1, PlanKinds DEF Typed
  <2>3. PICK i \in before + 1 .. Len(entries) : entries[i].width > 1 /\ ~entries[i].earlier
    BY <1>0, <2>1 DEF WiderThan
  <2>4. entries[i].width # 1
    BY <2>3
  <2>5. holds \notin {"earlier", "both"} /\ holds # "none"
    BY <1>1, <1>4, <2>2, <2>3, <2>4
  <2> QED BY <2>5 DEF Typed, SessionTypes, Held
<1>5. ASSUME Context(sent) \in {"resume.context:lost", "compact.context:lost"}, FollowedUp
      PROVE  holds = "none"
  <2>1. PICK i \in before + 1 .. Len(entries) : entries[i].says = "prompt"
    BY <1>2, <1>5
  <2>2. entries[i] \in sent /\ entries[i].width \in Nat
    BY <1>0, <1>1
  <2>3. ~entries[i].earlier /\ (probe.kind = "resume" \/ ~(entries[i].width > 1))
    BY <1>5, <2>2 DEF Context, WiderThan
  <2>4. holds \notin {"earlier", "both"}
    BY <1>1, <2>1, <2>3
  <2>5. probe.kind = "resume" => holds # "compacted"
    BY DEF HoldsWidth
  <2>6. probe.kind # "resume" => holds = "none"
    BY <1>1, <2>1, <2>2, <2>3
  <2> QED BY <2>4, <2>5, <2>6 DEF Typed, SessionTypes, Held
<1> QED BY <1>3, <1>4, <1>5

(* Nothing happens once the probe is done.                                 *)
LEMMA NotDone ==
  ASSUME Typed, ResumeNext
  PROVE  at # "done"
<1>1. CASE AgentStep
  BY <1>1, AgentEntries DEF Typed, Processes
<1>2. CASE RunnerStep
  BY <1>2 DEF RunnerStep, StartFirst, StartUnkillable, PromptFirst, WaitFirst, Fill, SendCommand,
     CommandWaited, JudgeCompaction, EndFirst, Attempt, GiveUp, LoadOnce, AskResumed, PollEnds,
     ReportContext, Parked, ReportInFlight, Observe, LoadAgain
<1> QED BY <1>1, <1>2 DEF ResumeNext

LEMMA VerdictsAgent ==
  ASSUME Typed, Verdicts, AgentStep
  PROVE  Verdicts'
<1>1. UNCHANGED <<at, checks, late, agent>> /\ at # "done"
  BY AgentEntries, NotDone DEF ResumeNext, agent
<1> QED BY <1>1 DEF Verdicts, ContextIsTrue, CompactionIsTrue

LEMMA VerdictsRunner ==
  ASSUME Typed, EntryKinds, HoldsWidth, Kinds, Filled, Compacting, Resuming, Verdicts, RunnerStep
  PROVE  Verdicts'
<1>0. /\ UNCHANGED <<probe, agent, entries, exited>> /\ (late => late')
      /\ checks \cap ContextIds = {} /\ "compact.run:not-compacted" \notin checks
  BY RunnerKeeps, LateStays, NotDone DEF ResumeNext, Verdicts
<1>1. CASE ReportContext
  <2> DEFINE said == Context(Since(before))
  <2>1. /\ at = "settle" /\ at' = "done" /\ probe.kind # "inflight" /\ checks' = checks \cup {said}
        /\ UNCHANGED <<late, holds, proc>>
    BY <1>1 DEF ReportContext, Stop, Say, Ended, session
  <2>2. /\ said \in {"resume.context", "compact.context:original"} =>
             holds \in {"earlier", "both"} /\ FollowedUp
        /\ said = "compact.context:summary" => holds = "compacted" \/ late
        /\ said \in {"resume.context:lost", "compact.context:lost"} =>
             holds = "none" \/ ~FollowedUp
    BY <2>1, ContextTrueNow
  <2>3. FollowedUp' <=> FollowedUp
    BY <1>0, <2>1 DEF FollowedUp
  <2>4. said \in ContextIds \cup {"followup:nothing-sent"}
    BY DEF Context, ContextIds
  <2> HIDE DEF said
  <2>5. ContextIsTrue'
    BY <1>0, <2>1, <2>2, <2>3 DEF ContextIsTrue, ContextIds
  <2>6. \A id \in Went \cup {"compact.run:as-prompt", "compact.run:not-compacted"} :
          id \in checks' => id \in checks
    BY <2>1, <2>4 DEF ContextIds, Went
  <2>7. /\ checks' \cap Went # {} => late' \/ agent'.compacts \in {"reports", "wide"}
        /\ "compact.run:as-prompt" \in checks' => agent'.compacts = "prompt"
        /\ "compact.run:not-compacted" \notin checks'
    BY <1>0, <2>1, <2>6 DEF Verdicts
  <2> QED BY <2>1, <2>5, <2>7 DEF Verdicts, CompactionIsTrue
<1>2. CASE JudgeCompaction
  <2> DEFINE run == Judged(Since(before))
  <2>1. /\ at = "judge" /\ probe.kind = "compact" /\ UNCHANGED <<late, holds>>
        /\ checks' = checks \cup {run} \/ checks' = checks \cup {run, "session-id"}
        /\ run \notin Went => at' = "done"
    BY <1>2 DEF JudgeCompaction, Stop, Say, session, Kinds, Compaction
  <2>2. ~late => /\ run \in Went => agent.compacts \in {"reports", "wide"}
                 /\ run = "compact.run:not-compacted" =>
                      holds \notin {"compacted", "both"} \/ (agent.compacts = "reports" /\ 1 \in exited)
    BY <2>1, JudgedTrue DEF Condensed
  <2>3. run = "compact.run:as-prompt" => agent.compacts = "prompt"
    <3>1. SUFFICES ASSUME run = "compact.run:as-prompt" PROVE agent.compacts = "prompt"
      OBVIOUS
    <3>2. PICK e \in Since(before) : e.says = "command"
      BY <3>1 DEF Judged
    <3>3. PICK i \in before + 1 .. Len(entries) : e = entries[i]
      BY <3>2 DEF Since
    <3>4. i \in 1 .. Len(entries)
      BY <3>3 DEF Typed, LogTypes
    <3> QED BY <3>2, <3>3, <3>4 DEF EntryKinds
  <2>4. run \in Went \cup {"compact.run:nothing-sent", "compact.run:as-prompt",
                           "compact.run:not-compacted"}
    BY DEF Judged, Went
  <2> HIDE DEF run
  <2>5. checks' \cap ContextIds = {}
    BY <1>0, <2>1, <2>4 DEF ContextIds, Went
  <2>6. /\ checks' \cap Went # {} => checks \cap Went # {} \/ run \in Went
        /\ "compact.run:as-prompt" \in checks' =>
             "compact.run:as-prompt" \in checks \/ run = "compact.run:as-prompt"
        /\ "compact.run:not-compacted" \in checks' => run = "compact.run:not-compacted"
    BY <1>0, <2>1 DEF Went
  <2>7. /\ checks' \cap Went # {} => late' \/ agent'.compacts \in {"reports", "wide"}
        /\ "compact.run:as-prompt" \in checks' => agent'.compacts = "prompt"
    BY <1>0, <2>1, <2>2, <2>3, <2>6 DEF Verdicts
  <2>8. "compact.run:not-compacted" \in checks' => at' = "done"
    BY <2>1, <2>6 DEF Went
  <2>9. CompactionIsTrue'
    BY <1>0, <2>1, <2>2, <2>6, <2>7 DEF CompactionIsTrue
  <2>10. ContextIsTrue'
    BY <2>5 DEF ContextIsTrue, ContextIds
  <2> QED BY <2>5, <2>7, <2>8, <2>9, <2>10 DEF Verdicts
<1>3. CASE ~JudgeCompaction /\ ~ReportContext
  <2>1. PICK ids : ids \cap JudgingIds = {} /\ checks' = checks \cup ids
    BY <1>3, OthersDoNotJudge
  <2>2. \A id \in JudgingIds : id \in checks' => id \in checks
    BY <2>1
  <2>3. checks' \cap ContextIds = {} /\ "compact.run:not-compacted" \notin checks'
    BY <1>0, <2>2 DEF JudgingIds
  <2>4. /\ checks' \cap Went # {} => late' \/ agent'.compacts \in {"reports", "wide"}
        /\ "compact.run:as-prompt" \in checks' => agent'.compacts = "prompt"
    BY <1>0, <2>2 DEF JudgingIds, Verdicts
  <2> QED BY <2>3, <2>4 DEF Verdicts, ContextIsTrue, ContextIds, CompactionIsTrue
<1> QED BY <1>1, <1>2, <1>3

---------------------------------------------------------------------------
(* What the turns, the requests and the verdicts have to do with each      *)
(* other, and that it holds in every state the probe reaches.              *)
Conversation == EntryKinds /\ HoldsWidth /\ Kinds /\ Filled /\ Bounded /\ Compacting
                /\ CompactedLoads /\ Resuming /\ Verdicts

LEMMA ConversationInit == ResumeInit => Conversation
<1> SUFFICES ASSUME ResumeInit PROVE Conversation
  OBVIOUS
<1>1. Len(entries) = 0 /\ at = "start" /\ holds = "none" /\ checks = {} /\ turn = "over"
      /\ left = Fillers /\ before = 0
  BY DEF ResumeInit
<1>2. EntryKinds /\ HoldsWidth
  BY <1>1 DEF EntryKinds, HoldsWidth
<1>3. Kinds
  BY <1>1 DEF Kinds, Compaction, FirstPart
<1>4. Filled /\ Compacting /\ CompactedLoads /\ Resuming
  BY <1>1 DEF Filled, Compacting, CompactedLoads, Resuming, Compaction
<1>5. Bounded
  BY <1>1 DEF Bounded, Compaction
<1>6. Verdicts
  BY <1>1 DEF Verdicts, ContextIsTrue, CompactionIsTrue, ContextIds, Went
<1> QED BY <1>2, <1>3, <1>4, <1>5, <1>6 DEF Conversation

LEMMA ConversationStep ==
  ASSUME IInv, Typed, Conversation, [ResumeNext]_resumeVars
  PROVE  Conversation'
<1> USE DEF Conversation
<1>0. OneDriver
  BY DEF IInv
<1>1. CASE AgentStep
  <2>1. EntryKinds' /\ HoldsWidth' /\ CompactedLoads'
    BY <1>0, <1>1, EntryKindsStep, HoldsWidthStep, CompactedLoadsStep DEF ResumeNext
  <2>2. Kinds' /\ Filled' /\ Bounded'
    BY <1>1, KindsAgent, FilledAgent, BoundedAgent
  <2>3. Compacting' /\ Resuming' /\ Verdicts'
    BY <1>0, <1>1, CompactingAgent, ResumingAgent, VerdictsAgent
  <2> QED BY <2>1, <2>2, <2>3
<1>2. CASE RunnerStep
  <2>1. EntryKinds' /\ HoldsWidth' /\ CompactedLoads'
    BY <1>0, <1>2, EntryKindsStep, HoldsWidthStep, CompactedLoadsStep DEF ResumeNext
  <2>2. Kinds' /\ Filled' /\ Bounded'
    BY <1>0, <1>2, KindsRunner, FilledRunner, BoundedRunner
  <2>3. Compacting' /\ Resuming' /\ Verdicts'
    BY <1>2, CompactingRunner, ResumingRunner, VerdictsRunner
  <2> QED BY <2>1, <2>2, <2>3
<1>3. CASE UNCHANGED resumeVars
  <2>1. UNCHANGED <<plan, probe, agent, at, proc, up, turn, left, told, entries, before, checks, holds,
                    width, exited, late>>
    BY <1>3 DEF resumeVars, probe, agent
  <2>2. EntryKinds' /\ HoldsWidth' /\ CompactedLoads' /\ Kinds'
    BY <2>1 DEF EntryKinds, HoldsWidth, CompactedLoads, Kinds
  <2>3. Filled' /\ Bounded'
    BY <2>1 DEF Filled, Bounded, Wide
  <2>4. Compacting'
    BY <2>1 DEF Compacting
  <2>5. Resuming'
    BY <2>1 DEF Resuming
  <2>6. Verdicts'
    BY <2>1 DEF Verdicts, ContextIsTrue, CompactionIsTrue, FollowedUp
  <2> QED BY <2>2, <2>3, <2>4, <2>5, <2>6
<1> QED BY <1>1, <1>2, <1>3 DEF ResumeNext

(* The verdicts on a conversation follow from what its turns are.          *)
THEOREM ConversationHolds == ResumeSpec => []Conversation
<1>1. ResumeSpec => [](IInv /\ Typed)
  BY TypesInvariance
<1> QED BY <1>1, ConversationInit, ConversationStep, PTL DEF ResumeSpec

(* What is said of the conversation after a resume is what the resumed     *)
(* session held, and the process that says so is the resumed one.          *)
THEOREM ContextTrue == ResumeSpec => []ContextIsTrue
<1>1. Conversation => ContextIsTrue
  BY DEF Conversation, Verdicts
<1> QED BY <1>1, ConversationHolds, PTL

(* A session is said to be compacted, or not to be, only if so, unless a   *)
(* wait before was cut off or the agent was gone before it said so.        *)
THEOREM CompactionTrue == ResumeSpec => []CompactionIsTrue
<1>1. Conversation => CompactionIsTrue
  BY DEF Conversation, Verdicts
<1> QED BY <1>1, ConversationHolds, PTL

===============================================================================
