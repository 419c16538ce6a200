--------------------------- MODULE RunnerPhases ---------------------------
(***************************************************************************)
(* One invocation of the suite (main.go, TestRunner.Run): agent after      *)
(* agent, and for each agent a list of stages that share one mock server,  *)
(* one hook log and, for belt's own hooks, one log in the agent's home.    *)
(* A checked stage reads what its own turn left there; the stages before   *)
(* it have left something there too.                                       *)
(*                                                                         *)
(* The agents are external: while a stage runs, its agent sends requests,  *)
(* takes the prepared call and fires hooks as it likes.                    *)
(***************************************************************************)
EXTENDS Integers, Sequences, FiniteSets

CONSTANTS
  MaxAgents,     (* agents named on the command line                          *)
  Invocations    (* the command lines, see Invocation                         *)

Probes == {"hidden", "deferred", "resume", "inflight", "compact",
          "seed", "seedkinds", "seedshapes"}
Tag == {"prompt", "tool"}      (* a tool hook's tag, and any other one       *)
Verdicts == {"none", "pass", "fail", "tool-offered", "tool-not-offered", "known-missing"}

\* --mode, --probe, --hooks; and whether its agents may print a line for each
\* hook they run.
Invocation ==
  [mode : {"both", "headless", "interactive", "acp", "sdk"}, probes : SUBSET Probes,
   hooks : {"mock", "belt"}, prints : BOOLEAN]

ASSUME AgentsAssumption == MaxAgents \in Nat \ {0}
ASSUME InvocationsAssumption == Invocations \subseteq Invocation

VARIABLES
  command,       (* the invocation                                            *)
  (* main and the runner *)
  agentNo,
  harness,       (* the agent's registry entry                                *)
  todo,          (* the stages left for this agent                            *)
  stage,         (* the stage under way                                       *)
  stageNo,       (* stages begun so far                                       *)
  pc,
  lastOutput,    (* lines for hooks in the output captured last               *)
  stripped,      (* strippedOutput's copy of it, in a sequence, if it has one *)
  results,       (* the verdicts of the checked stages, by agent              *)
  (* the mock *)
  armed,         (* the stage that armed the prepared call, 0 for none        *)
  toolCallServed,
  log,           (* the stages whose turns sent the requests recorded         *)
  (* the files *)
  hookLog,       (* the tags in the hook log                                  *)
  beltLog,       (* the tags in ~/.belt/hooks.log                             *)
  (* history variables, read only by properties *)
  fired,         (* the tags the stage's own agent fired                      *)
  handed,        (* the call handed out in this stage, by who armed it        *)
  verdict        (* the verdicts of the stage checked last                    *)

runnerVars == <<agentNo, harness, todo, stage, stageNo, pc, lastOutput, stripped, results>>
serverVars == <<armed, toolCallServed, log>>
fileVars == <<hookLog, beltLog>>
historyVars == <<fired, handed, verdict>>
vars == <<command, runnerVars, serverVars, fileVars, historyVars>>

(* A stage: whether it clears the logs first, what it arms, and what is    *)
(* read when its turn is over.                                             *)
Stage == [name   : {"setup", "hidden", "hidden.clear", "headless", "interactive", "acp", "sdk"}
                     \cup Probes,
          resets : BOOLEAN,
          arms   : {"no", "for hooks", "always", "if offered"},
          reads  : {"nothing", "hooks", "served"}]

St(name, resets, arms, reads) ==
  [name |-> name, resets |-> resets, arms |-> arms, reads |-> reads]

NoStage == St("setup", FALSE, "no", "nothing")
NoVerdict == [t \in Tag |-> "none"]

\* What the registry says that matters here: whether the agent has tool hooks
\* and a headless mode, which tags it is known not to fire, and whether the
\* mock is given a tool for its sessions at all.
Harness == [tools : BOOLEAN, headless : BOOLEAN, missing : SUBSET Tag]

When(condition, st) == IF condition THEN <<st>> ELSE << >>

\* The stages of Run, in its order.  setupEndpoint and writeHooks clear the
\* logs, probeHidden clears them after itself, the other stages before their
\* turn, if they do.
Stages(h) ==
  LET runs(m) == command.mode = m \/ (command.mode = "both" /\ m \in {"headless", "interactive"})
      probe(m, p) == runs(m) /\ p \in command.probes
      headless == runs("headless") /\ h.headless
  IN  <<St("setup", TRUE, "no", "nothing")>>
   \o When("hidden" \in command.probes, St("hidden", FALSE, "no", "nothing"))
   \o When("hidden" \in command.probes, St("hidden.clear", TRUE, "no", "nothing"))
   \o When(headless, St("headless", FALSE, "for hooks", "hooks"))
   \o When(headless /\ "deferred" \in command.probes,
           St("deferred", FALSE, "if offered", "served"))
   \o When(runs("interactive"), St("interactive", TRUE, "for hooks", "hooks"))
   \o When(runs("acp"), St("acp", TRUE, "for hooks", "hooks"))
   \o When(probe("acp", "resume"), St("resume", TRUE, "always", "nothing"))
   \o When(probe("acp", "inflight"), St("inflight", TRUE, "always", "served"))
   \o When(probe("acp", "compact"), St("compact", TRUE, "always", "nothing"))
   \o When(probe("acp", "deferred"), St("deferred", FALSE, "if offered", "served"))
   \o When(probe("acp", "seed"), St("seed", TRUE, "for hooks", "nothing"))
   \o When(probe("acp", "seedkinds"), St("seedkinds", TRUE, "for hooks", "nothing"))
   \o When(probe("acp", "seedkinds") /\ "seedshapes" \in command.probes,
           St("seedshapes", TRUE, "for hooks", "nothing"))
   \o When(runs("sdk"), St("sdk", TRUE, "for hooks", "hooks"))

---------------------------------------------------------------------------
Init ==
  /\ command \in Invocations
  /\ agentNo = 0 /\ harness \in Harness
  /\ todo = << >> /\ stage = NoStage /\ stageNo = 0
  /\ pc = "next"
  /\ lastOutput = {} /\ stripped = << >> /\ results = << >>
  /\ armed = 0 /\ toolCallServed = FALSE /\ log = {}
  /\ hookLog \in SUBSET Tag          \* an earlier invocation's
  /\ beltLog = {}
  /\ fired = {} /\ handed = 0 /\ verdict = NoVerdict

\* main's loop: the log is cleared and a runner made, with a home of its own
\* (PreserveHome is left out).  What was armed for the agent before stays
\* armed.  Without a working binary, checkBinary ends the run at once.
NextAgent ==
  /\ pc = "next" /\ todo = << >>
  /\ agentNo < MaxAgents
  /\ agentNo' = agentNo + 1
  /\ harness' \in Harness
  /\ \/ todo' = Stages(harness') /\ results' = Append(results, {})
     \/ UNCHANGED todo /\ results' = Append(results, {"fail"})
  /\ lastOutput' = {} /\ stripped' = << >>
  /\ log' = {} /\ beltLog' = {}
  /\ UNCHANGED <<command, stage, stageNo, pc, armed, toolCallServed, hookLog, historyVars>>

---------------------------------------------------------------------------
\* (bug) the log of the stage before is kept
ResetKeepsLog(st) ==
  IF st.resets THEN hookLog' = {} /\ UNCHANGED log ELSE UNCHANGED <<hookLog, log>>

\* (bug) the hook log of the stage before is kept
ResetKeepsHooks(st) ==
  IF st.resets THEN log' = {} /\ UNCHANGED hookLog ELSE UNCHANGED <<hookLog, log>>

\* resetPhase without its last call: the hook log is removed and the mock's
\* log cleared.  Belt's own log is left alone.
Reset(st) ==
  IF st.resets THEN hookLog' = {} /\ log' = {} ELSE UNCHANGED <<hookLog, log>>

\* (bug) a call armed anew counts as served if the one before was
PrepareToolCallServed(n) == armed' = n /\ UNCHANGED toolCallServed

PrepareToolCall(n) == armed' = n /\ toolCallServed' = FALSE

\* prepareToolCall arms for agents with tool hooks; the probes that need a
\* call arm one for any agent; the deferred probe, if a search tool was
\* declared.  An agent may have no tool to arm for its gated call.
Arm(st) ==
  \/ st.arms = "always" /\ PrepareToolCall(stageNo + 1)
  \/ st.arms = "for hooks" /\ harness.tools /\ PrepareToolCall(stageNo + 1)
  \/ st.arms = "if offered" /\ PrepareToolCall(stageNo + 1)
  \/ /\ st.arms = "no" \/ (st.arms = "for hooks" /\ ~harness.tools)
     /\ UNCHANGED <<armed, toolCallServed>>

\* A probe that arms nothing returns before its turn.
BeginStage ==
  /\ pc = "next" /\ todo # << >>
  /\ LET st == Head(todo)
     IN /\ Reset(st) /\ Arm(st)
        /\ stage' = st
        /\ pc' = IF st.name \in {"setup", "hidden.clear"} THEN "next" ELSE "run"
  /\ todo' = Tail(todo)
  /\ stageNo' = stageNo + 1
  /\ fired' = {} /\ handed' = 0 /\ verdict' = NoVerdict
  /\ UNCHANGED <<command, agentNo, harness, lastOutput, stripped, results, beltLog>>

SkipDeferred ==
  /\ pc = "next" /\ todo # << >>
  /\ Head(todo).arms = "if offered"
  /\ todo' = Tail(todo)
  /\ UNCHANGED <<command, agentNo, harness, stage, stageNo, pc, lastOutput, stripped, results,
                 serverVars, fileVars, historyVars>>

---------------------------------------------------------------------------
(* External: the agent of the stage under way.                             *)

\* A request that does not take the prepared call, or one that does.
Request ==
  /\ pc = "run"
  /\ log' = log \cup {stageNo}
  /\ \/ UNCHANGED <<armed, toolCallServed, handed>>
     \/ /\ armed # 0
        /\ armed' = 0 /\ toolCallServed' = TRUE
        /\ handed' = armed
  /\ UNCHANGED <<command, runnerVars, fileVars, fired, verdict>>

\* A hook writes its tag; a tool hook needs a call.  The mock hooks write to
\* the hook log, belt's to a log of its own.
Hook ==
  /\ pc = "run"
  /\ \E t \in Tag :
       /\ t = "tool" => harness.tools /\ handed # 0
       /\ fired' = fired \cup {t}
       /\ IF command.hooks = "mock"
          THEN hookLog' = hookLog \cup {t} /\ UNCHANGED beltLog
          ELSE beltLog' = beltLog \cup {t} /\ UNCHANGED hookLog
  /\ UNCHANGED <<command, runnerVars, serverVars, handed, verdict>>

---------------------------------------------------------------------------
Captured == IF command.prints THEN {{}, fired} ELSE {{}}

\* A command's output is kept whatever became of it.
OneShot == stage.name \in {"headless", "sdk"} \/ (stage.name = "deferred" /\ command.mode # "acp")

\* The turn is over.  An interactive or a session phase that fails early, and
\* a probe's session, leave the output as it was.  A probe that had its
\* answer does not look at ToolCallServed.
EndRun ==
  /\ pc = "run"
  /\ \/ (OneShot \/ stage.name \in {"interactive", "acp"}) /\ lastOutput' \in Captured
     \/ ~OneShot /\ UNCHANGED lastOutput
  /\ pc' \in CASE stage.reads = "nothing" -> {"next"}
              [] stage.reads = "hooks"   -> {"check"}
              [] stage.reads = "served"  -> {"next", "check"}
  /\ UNCHANGED <<command, agentNo, harness, todo, stage, stageNo, stripped, results,
                 serverVars, fileVars, historyVars>>

\* strippedOutput keeps its copy by the length of the output: another output
\* of the same length is answered with the copy of the one before.
Strip == stripped' \in {<<lastOutput>>, stripped} \ {<< >>}

\* checkHookEvents, checkBeltHookEvents: the log, then the captured output.
HookSeen(t) ==
  \/ t \in hookLog
  \/ command.hooks = "belt" /\ t \in beltLog
  \/ t \in stripped'[1]

\* reportEvent: fired, not offered, known not to fire, or failed.
Verdict(t) ==
  IF HookSeen(t) THEN "pass"
  ELSE IF t = "tool" /\ ~toolCallServed THEN "tool-not-offered"
  ELSE IF t \in harness.missing THEN "known-missing"
  ELSE "fail"

\* An agent's events are those its registry entry defines.
Events == {t \in Tag : t = "tool" => harness.tools}

\* runChecks: a verdict for every event.
RunChecks ==
  /\ pc = "check" /\ stage.reads = "hooks"
  /\ Strip
  /\ verdict' = [t \in Tag |-> IF t \in Events THEN Verdict(t) ELSE "none"]
  /\ results' = [results EXCEPT ![agentNo] = @ \cup {verdict'[t] : t \in Events}]
  /\ pc' = "next"
  /\ UNCHANGED <<command, agentNo, harness, todo, stage, stageNo, lastOutput,
                 serverVars, fileVars, fired, handed>>

\* A probe whose turn came to nothing says whether its call was handed out.
ReadServed ==
  /\ pc = "check" /\ stage.reads = "served"
  /\ verdict' = [NoVerdict EXCEPT !["tool"] =
                   IF toolCallServed THEN "tool-offered" ELSE "tool-not-offered"]
  /\ pc' = "next"
  /\ UNCHANGED <<command, agentNo, harness, todo, stage, stageNo, lastOutput, stripped, results,
                 serverVars, fileVars, fired, handed>>

\* The summary, after the last agent.
Finished == pc = "next" /\ todo = << >> /\ agentNo = MaxAgents /\ UNCHANGED vars

Next ==
  \/ NextAgent \/ BeginStage \/ SkipDeferred
  \/ Request \/ Hook
  \/ EndRun \/ RunChecks \/ ReadServed \/ Finished

Spec == Init /\ [][Next]_vars

---------------------------------------------------------------------------
(* Properties.                                                             *)

\* Every variable keeps to its domain, and no agent is tested twice.
TypeOK ==
  /\ command \in Invocations
  /\ agentNo \in 0 .. MaxAgents /\ harness \in Harness
  /\ todo \in Seq(Stage) /\ stage \in Stage /\ stageNo \in Nat
  /\ pc \in {"next", "run", "check"}
  /\ lastOutput \subseteq Tag
  /\ stripped \in {<< >>} \cup {<<s>> : s \in SUBSET Tag}
  /\ results \in Seq(SUBSET Verdicts) /\ Len(results) = agentNo
  /\ armed \in 0 .. stageNo /\ toolCallServed \in BOOLEAN /\ log \subseteq 1 .. stageNo
  /\ hookLog \subseteq Tag /\ beltLog \subseteq Tag
  /\ fired \subseteq Tag /\ handed \in 0 .. stageNo
  /\ verdict \in [Tag -> Verdicts]

\* An event passes exactly if the agent of this stage fired it: what an
\* earlier stage left in a log or on the screen is not taken for it
\* (checkHookEvents, checkBeltHookEvents, reportEvent).
PassIsOwn ==
  stage.reads = "hooks" =>
    \A t \in Tag : verdict[t] # "none" => ((verdict[t] = "pass") <=> t \in fired)

\* A verdict that hangs on ToolCallServed is about this stage's own call: not
\* offered means the agent was handed none that the stage armed, offered, or a
\* failed tool hook, means it was (reportEvent, probeDeferredTools,
\* probeToolCallInFlight).
ToolVerdictIsTrue ==
  /\ verdict["tool"] = "tool-not-offered" => handed # stageNo
  /\ verdict["tool"] \in {"fail", "tool-offered"} => handed = stageNo

\* The requests a checked stage reads are its own turn's (runChecks).
LogIsOwn == (pc = "check" /\ stage.reads = "hooks") => log \subseteq {stageNo}
===========================================================================
