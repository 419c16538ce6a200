---------------------------- MODULE ResumeProbe ----------------------------
(***************************************************************************)
(* The session probes of runner/testrunner.go: a first process has a       *)
(* conversation and is ended, a second one is asked to take it up.         *)
(*                                                                         *)
(*   resume    load at growing delays, then a follow-up question whose     *)
(*             model request tells whether the conversation came back      *)
(*   compact   the same after the agent's own compaction                   *)
(*   inflight  the first process is killed with an approval parked         *)
(*                                                                         *)
(* The agent is external: what it is like is chosen with the plan, and it  *)
(* acts between any two steps of the probe.  A wait ends by what it waits  *)
(* for or because the agent took longer (late).  Time is counted from the  *)
(* beginning of the probe: it moves in the waits for the first turns, and  *)
(* where the probe sleeps.                                                 *)
(***************************************************************************)
EXTENDS Naturals, Sequences, FiniteSets

CONSTANTS
  Plans,        (* <<probe, agent>> instances                                 *)
  Delays,       (* resumeAttemptDelays, in units of time                      *)
  Fillers,      (* prompts between the first turn and the compaction          *)
  MaxSide,      (* bound on the requests an agent makes of its own            *)
  MaxTime       (* bound on lag and After                                     *)

Probe == [kind : {"resume", "compact", "inflight"},
          kill : BOOLEAN,                                  (* ResumeKill *)
          answer : {"approved", "cancelled", "parked"},    (* Answer *)
          after : 0 .. MaxTime]                            (* ResumeAfter *)

Agent == [acp : BOOLEAN,       (* an ACP agent: its exit is not noticed       *)
          named : BOOLEAN,     (* it reports a session id                     *)
          killable : BOOLEAN,
          tool : {"gated", "ungated", "undeclared"},
          lag : 0 .. MaxTime,  (* from the end until the session is on disk   *)
          early : {"refuses", "blank"},  (* a load before that                *)
          keeps : BOOLEAN,     (* a loaded session holds the earlier turns    *)
          compacts : {"silent", "prompt", "noop", "reports", "wide"},
          wording : BOOLEAN,   (* compaction leaves the first prompt as it is *)
          reraises : {"none", "load", "after"}]

ASSUME PlansAssumption == Plans \subseteq Probe \X Agent
ASSUME DelaysAssumption ==
  /\ Delays \in Seq(Nat) /\ Len(Delays) > 0
  /\ Fillers \in Nat \ {0} /\ MaxSide \in Nat /\ MaxTime \in Nat

VARIABLES
  plan,        (* <<probe, agent>>                                            *)
  at,          (* where the probe is                                          *)
  now, endedAt,
  tries,       (* loads attempted                                             *)
  proc,        (* processes started                                           *)
  open,        (* drivers not yet closed or killed                            *)
  up,          (* the last process runs                                       *)
  turn,        (* the turn under way: what was put to the agent, or "over"    *)
  left,        (* fillers still to be asked                                   *)
  served,      (* ToolCallServed                                              *)
  perms,       (* approvals of the driver: "load" or "after" the load         *)
  told,        (* updates after the mark: what the agent said of itself       *)
  entries,     (* the mock's log, as [proc, says, earlier, width]             *)
  before,      (* entryCount at the mark                                      *)
  answer,      (* what the mock answers: "line" or "summary"                  *)
  checks,      (* ids reported                                                *)
  (* what the session holds, and history variables *)
  holds,       (* turns of the open session: "none", "earlier", "compacted"   *)
  width,       (* their number                                                *)
  refusals,    (* times, after the end, of the loads refused                  *)
  exited,      (* processes that ended by themselves                          *)
  late         (* a wait was cut off by its time limit                        *)

resumeVars == <<plan, at, now, endedAt, tries, proc, open, up, turn, left, served, perms, told,
                entries, before, answer, checks, holds, width, refusals, exited, late>>
session == <<holds, width, refusals, exited>>
clock == <<now, endedAt, tries>>
driver == <<proc, open, up, perms>>

probe == plan[1]
agent == plan[2]

Entry == [proc : Nat, says : {"prompt", "side", "command", "compaction", "tool"},
          earlier : BOOLEAN, width : Nat]

Since(mark) == {entries[i] : i \in mark + 1 .. Len(entries)}

(* widestRequest of es is less than that of fs, or more than w.            *)
Narrower(es, fs) == \E f \in fs : \A e \in es : e.width < f.width
WiderThan(es, w) == \E e \in es : e.width > w

Say(ids) == checks' = checks \cup ids

---------------------------------------------------------------------------
ResumeInit ==
  /\ plan \in Plans
  /\ at = "start" /\ now = 0 /\ endedAt = 0 /\ tries = 0
  /\ proc = 0 /\ open = {} /\ up = FALSE /\ turn = "over" /\ left = Fillers
  /\ served = FALSE /\ perms = << >> /\ told = FALSE
  /\ entries = << >> /\ before = 0 /\ answer = "line" /\ checks = {}
  /\ holds = "none" /\ width = 0 /\ refusals = {} /\ exited = {} /\ late = FALSE

---------------------------------------------------------------------------
(***************************************************************************)
(* The agent (external)                                                    *)
(***************************************************************************)
Logged(says, earlier, w) ==
  entries' = Append(entries, [proc |-> proc, says |-> says, earlier |-> earlier, width |-> w])

\* A title, a router or a denial it passes on: never the conversation.
SideRequest ==
  /\ up /\ Cardinality({i \in DOMAIN entries : entries[i].says = "side"}) < MaxSide
  /\ Logged("side", FALSE, 1)
  /\ UNCHANGED <<plan, at, clock, driver, turn, left, served, told, before, answer, checks,
                 session, late>>

\* The request a prompt makes carries the turns the session holds and the new one;
\* the armed tool call goes to the first of an in-flight probe.
SendTurn ==
  /\ up /\ turn \in {"first", "filler", "followup"}
  /\ Logged("prompt", turn = "first" \/ holds \in {"earlier", "both"}, width + 1)
  /\ width' = width + 1
  /\ holds' = IF turn = "first" THEN "earlier" ELSE holds
  /\ served' = (served \/ (probe.kind = "inflight" /\ agent.tool # "undeclared"))
  /\ turn' = IF probe.kind = "inflight" /\ agent.tool = "gated" THEN "asking" ELSE "ending"
  /\ UNCHANGED <<plan, at, clock, driver, left, told, before, answer, checks, refusals, exited, late>>

\* What a summary makes of the session; a short answer is refused as degenerate.
Compacted == [holds |-> IF agent.wording /\ holds = "earlier" THEN "both" ELSE "compacted",
              width |-> 1]
Condense ==
  IF answer = "summary" THEN holds' = Compacted.holds /\ width' = Compacted.width
  ELSE UNCHANGED <<holds, width>>

TakeCommand ==
  /\ up /\ turn = "command"
  /\ \/ agent.compacts = "silent" /\ UNCHANGED <<entries, holds, width>>
     \/ agent.compacts = "prompt" /\ Logged("command", FALSE, width + 1)
        /\ width' = width + 1 /\ UNCHANGED holds
     \/ agent.compacts = "noop" /\ Logged("side", FALSE, 1) /\ UNCHANGED <<holds, width>>
     \/ agent.compacts = "reports" /\ Logged("compaction", FALSE, 1) /\ Condense
     \/ agent.compacts = "wide" /\ Logged("compaction", FALSE, width + 1) /\ Condense
  /\ turn' = IF agent.compacts = "reports" THEN "telling" ELSE "ending"
  /\ UNCHANGED <<plan, at, clock, driver, left, served, told, before, answer, checks, refusals,
                 exited, late>>

\* context.compacted, or any update on an approval nobody answers.
Tell ==
  /\ up
  /\ turn = "telling" \/ at = "observe"
  /\ told' = (turn # "telling" \/ holds \in {"compacted", "both"})
  /\ turn' = IF turn = "telling" THEN "ending" ELSE turn
  /\ UNCHANGED <<plan, at, clock, driver, left, served, entries, before, answer, checks, session,
                 late>>

EndTurn ==
  /\ up /\ turn = "ending"
  /\ turn' = "over"
  /\ UNCHANGED <<plan, at, clock, driver, left, served, told, entries, before, answer, checks,
                 session, late>>

\* An approval: for the first process's tool call, or raised again by the second.
AskApproval ==
  /\ up /\ perms = << >>
  /\ \/ turn = "asking" /\ perms' = <<"after">> /\ turn' = "held"
     \/ /\ probe.kind = "inflight" /\ proc > 1 /\ agent.reraises # "none"
        /\ perms' = <<agent.reraises>> /\ UNCHANGED turn
  /\ UNCHANGED <<plan, at, clock, proc, open, up, left, served, told, entries, before, answer,
                 checks, session, late>>

\* onApproval of the resumed driver.
Allowed == /\ probe.kind = "inflight" /\ proc > 1 /\ perms # << >>
           /\ probe.answer = "approved" \/ (probe.answer = "cancelled" /\ perms[1] = "after")

RunTool ==
  /\ up /\ Allowed
  /\ \A i \in DOMAIN entries : entries[i].says # "tool"
  /\ Logged("tool", FALSE, 1)
  /\ UNCHANGED <<plan, at, clock, driver, turn, left, served, told, before, answer, checks,
                 session, late>>

Exit ==
  /\ up
  /\ up' = FALSE /\ exited' = exited \cup {proc}
  /\ UNCHANGED <<plan, at, clock, proc, open, turn, left, served, perms, told, entries, before,
                 answer, checks, holds, width, refusals, late>>

AgentStep ==
  \/ SideRequest \/ SendTurn \/ TakeCommand \/ Tell \/ EndTurn \/ AskApproval \/ RunTool \/ Exit

---------------------------------------------------------------------------
(***************************************************************************)
(* The driver                                                              *)
(***************************************************************************)
\* The event stream of an ACP agent stays open when it exits.
Alive == open # {} /\ (up \/ agent.acp)

\* A wait for the turn: its end, the end of the stream, or the time limit.
TurnWaited ==
  \/ (turn = "over" \/ ~Alive) /\ UNCHANGED late
  \/ turn # "over" /\ Alive /\ late' = TRUE

Opened == proc' = proc + 1 /\ open' = open \cup {proc + 1} /\ up' = TRUE /\ perms' = << >>
\* (bug) a session that could not be prompted is left as it is
EndedUnlessPrompting == IF at = "prompt" THEN UNCHANGED <<proc, open, up, perms>>
                        ELSE open' = open \ {proc} /\ up' = FALSE /\ UNCHANGED <<proc, perms>>

Ended == open' = open \ {proc} /\ up' = FALSE /\ UNCHANGED <<proc, perms>>

OnDisk(t) == t >= endedAt + agent.lag
Accepts(t) == OnDisk(t) \/ agent.early = "blank"

\* Open of a resumed session: with what is on disk, or with nothing.
Resumed(t) ==
  /\ Opened
  /\ IF OnDisk(t) /\ agent.keeps THEN UNCHANGED <<holds, width>> ELSE holds' = "none" /\ width' = 0

\* holdBack, and the sleep before an attempt.
Later(t) == IF t > now THEN t ELSE now

Stop(ids) == Say(ids) /\ at' = "done"

---------------------------------------------------------------------------
(***************************************************************************)
(* The first process: startProbeTurn and the in-flight probe's own start   *)
(***************************************************************************)
StartFirst ==
  /\ at = "start"
  /\ \/ Stop({"start"}) /\ UNCHANGED driver
     \/ /\ probe.kind # "inflight" \/ agent.killable
        /\ Opened /\ at' = "prompt" /\ UNCHANGED checks
  /\ UNCHANGED <<plan, clock, turn, left, served, told, entries, before, answer, session, late>>

\* The in-flight probe is a kill with an approval held: a session that cannot be
\* killed is closed again.
StartUnkillable ==
  /\ at = "start" /\ probe.kind = "inflight" /\ ~agent.killable
  /\ Stop({"inflight.kill:unkillable"})
  /\ proc' = proc + 1
  /\ UNCHANGED <<plan, clock, open, up, perms, turn, left, served, told, entries, before, answer,
                 session, late>>

PromptFirst ==
  /\ at = "prompt"
  /\ \/ ~up /\ Ended /\ Stop({"prompt"}) /\ UNCHANGED turn
     \/ up /\ turn' = "first" /\ at' = (IF probe.kind = "inflight" THEN "park" ELSE "wait")
        /\ UNCHANGED <<driver, checks>>
  /\ UNCHANGED <<plan, clock, left, served, told, entries, before, answer, session, late>>

\* WaitAnswered and WaitIdle; what they return is not looked at.
WaitFirst ==
  /\ at \in {"wait", "filling"}
  /\ TurnWaited
  /\ now' \in now .. now + 1
  /\ at' = IF probe.kind = "compact" THEN "fill" ELSE "end"
  /\ UNCHANGED <<plan, endedAt, tries, driver, turn, left, served, told, entries, before, answer, checks,
                 session>>

---------------------------------------------------------------------------
(***************************************************************************)
(* compact: fill the session, compact it, tell whether that was done       *)
(***************************************************************************)
Fill ==
  /\ at = "fill"
  /\ IF left > 0 /\ up
     THEN turn' = "filler" /\ left' = left - 1 /\ at' = "filling"
     ELSE at' = "command" /\ UNCHANGED <<turn, left>>
  /\ UNCHANGED <<plan, clock, driver, served, told, entries, before, answer, checks, session, late>>

\* answeringWithSummary; the command goes as a prompt, and its error is not looked at.
SendCommand ==
  /\ at = "command"
  /\ before' = Len(entries) /\ told' = FALSE /\ answer' = "summary"
  /\ turn' = IF up THEN "command" ELSE turn
  /\ at' = "compacting"
  /\ UNCHANGED <<plan, clock, driver, left, served, entries, checks, session, late>>

\* WaitIdle: four seconds of silence may come before the compaction does.
CommandWaited ==
  /\ at = "compacting"
  /\ TurnWaited
  /\ answer' = "line" /\ at' = "judge"
  /\ UNCHANGED <<plan, clock, driver, turn, left, served, told, entries, before, checks, session>>

Before == {entries[i] : i \in 1 .. before}

\* (bug) any request that is as wide as the turn before is a compaction
JudgedByWidth(sent) ==
  IF sent = {} THEN "compact.run:nothing-sent"
  ELSE IF told THEN "compact.run:reported"
  ELSE IF Narrower(sent, Before) THEN "compact.run:not-compacted"
  ELSE "compact.run"

Judged(sent) ==
  IF sent = {} THEN "compact.run:nothing-sent"
  ELSE IF told THEN "compact.run:reported"
  ELSE IF \E e \in sent : e.says = "command" THEN "compact.run:as-prompt"
  ELSE IF Narrower(sent, Before) THEN "compact.run:not-compacted"
  ELSE "compact.run"

Went == {"compact.run", "compact.run:reported"}

JudgeCompaction ==
  /\ at = "judge"
  /\ LET run == Judged(Since(before))
     IN IF run \notin Went THEN Stop({run})
        ELSE IF ~agent.named THEN Stop({run, "session-id"})
        ELSE Say({run}) /\ at' = "load"
  /\ Ended
  /\ endedAt' = now
  /\ UNCHANGED <<plan, now, tries, turn, left, served, told, entries, before, answer, session, late>>

---------------------------------------------------------------------------
(***************************************************************************)
(* resume: end the first process, load until one is accepted               *)
(***************************************************************************)
EndFirst ==
  /\ at = "end"
  /\ Ended
  /\ endedAt' = now
  /\ IF probe.kill /\ ~agent.killable THEN Stop({"resume.kill:unkillable"})
     ELSE IF ~agent.named THEN Stop({"session-id"})
     ELSE at' = "load" /\ UNCHANGED checks
  /\ UNCHANGED <<plan, now, tries, turn, left, served, told, entries, before, answer, session, late>>

\* (bug) the delays are counted from the beginning of the probe
AttemptAtFromStart(n) == IF Delays[n] + probe.after > now THEN Delays[n] + probe.after ELSE now

AttemptAt(n) == Later(endedAt + Delays[n] + probe.after)

\* The n-th load, no earlier than its delay after the end; Open takes time too.
Attempt ==
  /\ at = "load" /\ probe.kind = "resume" /\ tries < Len(Delays)
  /\ tries' = tries + 1
  /\ LET t == AttemptAt(tries + 1)
     IN IF Accepts(t)
        THEN /\ Resumed(t) /\ now' = t /\ at' = "ask" /\ UNCHANGED refusals
             /\ Say({"resume.load"} \cup (IF refusals # {} THEN {"resume.retried"} ELSE {}))
        ELSE /\ now' \in t .. t + 1 /\ refusals' = refusals \cup {t - endedAt}
             /\ UNCHANGED <<at, checks, driver, holds, width>>
  /\ turn' = "over"
  /\ UNCHANGED <<plan, endedAt, left, served, told, entries, before, answer, exited, late>>

GiveUp ==
  /\ at = "load" /\ probe.kind = "resume" /\ tries = Len(Delays)
  /\ Stop({"resume.load:not-resumed"})
  /\ UNCHANGED <<plan, clock, driver, turn, left, served, told, entries, before, answer, session,
                 late>>

\* The other probes load once, held back by ResumeAfter.
LoadOnce ==
  /\ at = "load" /\ probe.kind # "resume"
  /\ now' = Later(endedAt + probe.after)
  /\ before' = Len(entries)
  /\ IF Accepts(now')
     THEN /\ Resumed(now') /\ UNCHANGED <<checks, refusals>>
          /\ at' = IF probe.kind = "compact" THEN "ask" ELSE "settle"
     ELSE Stop({"resume:refused"}) /\ refusals' = {now' - endedAt}
          /\ UNCHANGED <<driver, holds, width>>
  /\ turn' = "over"
  /\ UNCHANGED <<plan, endedAt, tries, left, served, told, entries, answer, exited, late>>

---------------------------------------------------------------------------
(***************************************************************************)
(* askResumed and what its requests tell                                   *)
(***************************************************************************)
\* (bug) the log is read from its beginning
MarkAtStart == 0

Mark == Len(entries)

AskResumed ==
  /\ at = "ask"
  /\ before' = Mark
  /\ \/ ~up /\ Ended /\ Stop({"followup"}) /\ UNCHANGED turn
     \/ up /\ turn' = "followup" /\ at' = "poll" /\ UNCHANGED <<driver, checks>>
  /\ UNCHANGED <<plan, clock, left, served, told, entries, answer, session, late>>

\* The first request, of whatever kind, ends the poll; WaitIdle gives the others
\* two seconds of silence.
PollEnds ==
  /\ at = "poll"
  /\ \/ Len(entries) > before /\ UNCHANGED late
     \/ Len(entries) = before /\ TurnWaited
  /\ at' = "settle"
  /\ UNCHANGED <<plan, clock, driver, turn, left, served, told, entries, before, answer, checks,
                 session>>

\* reportResumedContext and reportCompactedContext
Context(sent) ==
  IF sent = {} THEN "followup:nothing-sent"
  ELSE IF probe.kind = "resume"
  THEN IF \E e \in sent : e.earlier THEN "resume.context" ELSE "resume.context:lost"
  ELSE IF \E e \in sent : e.earlier THEN "compact.context:original"
  ELSE IF WiderThan(sent, 1) THEN "compact.context:summary" ELSE "compact.context:lost"

ReportContext ==
  /\ at = "settle" /\ probe.kind # "inflight"
  /\ Stop({Context(Since(before))})
  /\ Ended
  /\ UNCHANGED <<plan, clock, turn, left, served, told, entries, before, answer, session, late>>

---------------------------------------------------------------------------
(***************************************************************************)
(* inflight                                                                *)
(***************************************************************************)
\* WaitParked, then Kill.  Without an approval: was the tool call served at all?
Parked ==
  /\ at = "park"
  /\ \/ perms # << >> /\ UNCHANGED late
        /\ IF agent.named THEN Say({"inflight.park"}) /\ at' = "load"
           ELSE Stop({"inflight.park", "session-id"})
     \/ perms = << >>
        /\ late' = (late \/ Alive)
        /\ Stop({IF served THEN "inflight.park:not-gated" ELSE "inflight.park:tool-not-served"})
  /\ Ended
  /\ endedAt' = now
  /\ UNCHANGED <<plan, now, tries, turn, left, served, told, entries, before, answer, session>>

\* (bug) every request of the probe counts as one after the resume
RequestsOfProbe == Len(entries)

Requests == Len(entries) - before

\* reportInFlightResume, then the watch on an approval that is held.
ReportInFlight ==
  /\ at = "settle" /\ probe.kind = "inflight"
  /\ Say({"inflight.resume"} \cup
         (IF perms = << >> THEN {"inflight.reraise:none"}
          ELSE {IF perms[1] = "load" THEN "inflight.reraise:load" ELSE "inflight.reraise:after",
                IF Requests > 0 THEN "inflight.answer:ran-tool" ELSE "inflight.answer:nothing-sent"}))
  /\ IF probe.answer = "parked" /\ perms # << >>
     THEN at' = "observe" /\ told' = FALSE /\ UNCHANGED driver
     ELSE at' = "again" /\ Ended /\ UNCHANGED told
  /\ UNCHANGED <<plan, clock, turn, left, served, entries, before, answer, session, late>>

\* observeUnansweredApproval: the end of the stream, an update, or the limit.
Observe ==
  /\ at = "observe"
  /\ \/ ~Alive /\ Say({"inflight.unanswered:exited"})
     \/ Alive /\ told /\ Say({"inflight.unanswered:moved-on"})
     \/ Alive /\ ~told /\ Say({"inflight.unanswered:waited"})
  /\ Ended
  /\ at' = "again"
  /\ UNCHANGED <<plan, clock, turn, left, served, told, entries, before, answer, session, late>>

\* The second load, of what the first one left behind.
LoadAgain ==
  /\ at = "again"
  /\ now' = now + probe.after
  /\ proc' = proc + 1
  /\ \/ Stop({"inflight.resume-twice"})
     \/ Stop({"inflight.resume-twice:refused"})
  /\ UNCHANGED <<plan, endedAt, tries, open, up, perms, turn, left, served, told, entries, before,
                 answer, session, late>>

RunnerStep ==
  \/ StartFirst \/ StartUnkillable \/ PromptFirst \/ WaitFirst
  \/ Fill \/ SendCommand \/ CommandWaited \/ JudgeCompaction
  \/ EndFirst \/ Attempt \/ GiveUp \/ LoadOnce
  \/ AskResumed \/ PollEnds \/ ReportContext
  \/ Parked \/ ReportInFlight \/ Observe \/ LoadAgain

ResumeNext == RunnerStep \/ AgentStep

ResumeSpec == ResumeInit /\ [][ResumeNext]_resumeVars

---------------------------------------------------------------------------
(***************************************************************************)
(* Properties                                                              *)
(***************************************************************************)
ResumeTypeOK ==
  /\ plan \in Plans /\ now \in Nat /\ endedAt \in 0 .. now
  /\ tries \in 0 .. Len(Delays) /\ proc \in 0 .. 3 /\ open \subseteq 1 .. 3
  /\ up \in BOOLEAN /\ served \in BOOLEAN /\ told \in BOOLEAN /\ late \in BOOLEAN
  /\ turn \in {"over", "first", "filler", "command", "followup", "asking", "held", "telling",
               "ending"}
  /\ left \in 0 .. Fillers /\ perms \in {<< >>, <<"load">>, <<"after">>}
  /\ entries \in Seq(Entry) /\ before \in 0 .. Len(entries)
  /\ answer \in {"line", "summary"}
  /\ holds \in {"none", "earlier", "compacted", "both"} /\ width \in Nat
  /\ refusals \subseteq Nat /\ exited \subseteq 1 .. 3

\* The resumed process sent its follow-up to the model before it was closed.
FollowedUp == \E i \in DOMAIN entries : entries[i].proc = proc /\ entries[i].says = "prompt"

\* What is said of the conversation after a resume is what the resumed session held:
\* that it came back, only if the process that says so is the resumed one; that it is
\* lost, only if so or if the request that would have told came after the look; that a
\* summary is left, only if so or if a turn before outlasted its wait.
ContextIsTrue ==
  at = "done" =>
    /\ checks \cap {"resume.context", "compact.context:original"} # {}
         => holds \in {"earlier", "both"} /\ FollowedUp
    /\ "compact.context:summary" \in checks => holds = "compacted" \/ late
    /\ checks \cap {"resume.context:lost", "compact.context:lost"} # {}
         => holds = "none" \/ ~FollowedUp

\* An agent is said not to resume only if its session was not on disk at the last
\* delay (and ResumeAfter) after the end, and it refused a load at every delay; it is
\* said to have been written late only if it was ("a probe that asked once would have
\* reported the refusal as the answer").
NotResumedIsTrue ==
  /\ "resume.load:not-resumed" \in checks =>
       /\ agent.lag > Delays[Len(Delays)] + probe.after
       /\ \A i \in DOMAIN Delays : \E t \in refusals : t >= Delays[i] + probe.after
  /\ "resume.retried" \in checks => \E t \in refusals : agent.lag > t

\* A session is said to be compacted only if it is, and one that is said not to be,
\* or to have taken the command for a prompt, is not; unless a time limit cut off one
\* of the turns before, or the agent was gone before it reported the compaction.
CompactionIsTrue ==
  at = "done" /\ ~late =>
    /\ checks \cap Went # {} => agent.compacts \in {"reports", "wide"}
    /\ "compact.run:as-prompt" \in checks => agent.compacts = "prompt"
    /\ "compact.run:not-compacted" \in checks =>
         \/ holds \notin {"compacted", "both"}
         \/ agent.compacts = "reports" /\ 1 \in exited

\* What is said of the approval: that it was raised again, when it was; that a tool
\* ran or nothing was sent, from the requests of the resumed process alone; that the
\* agent exited, only if it did, and that it waited, only if it said nothing.
ApprovalIsTrue ==
  /\ "inflight.reraise:load" \in checks => agent.reraises = "load"
  /\ "inflight.reraise:after" \in checks => agent.reraises = "after"
  /\ "inflight.answer:ran-tool" \in checks => \E i \in DOMAIN entries : entries[i].proc = 2
  /\ "inflight.park:not-gated" \in checks => agent.tool = "ungated" \/ late \/ 1 \in exited
  /\ "inflight.unanswered:waited" \in checks => ~told /\ (2 \in exited => agent.acp)
  /\ "inflight.unanswered:exited" \in checks => 2 \in exited

\* No probe opens a session while another process of its own is attached to it, none
\* leaves one behind whichever way it ends, and the mock answers as before.
OneProcess ==
  /\ Cardinality(open) <= 1
  /\ at = "done" => open = {} /\ answer = "line"
===========================================================================
