------------------------------ MODULE MCSuite ------------------------------
(***************************************************************************)
(* The parts of the suite around a session, one at a time: an invocation   *)
(* with its stages and agents, the nights that compare reports, and the    *)
(* probes.  They share no state, so a behaviour is one of a single part:   *)
(* the others stay where they begin, in one fixed initial state.           *)
(***************************************************************************)
EXTENDS MCRunnerPhases, MCReportGate, MCProbes

FirstInvocation == CHOOSE c \in Invocations : TRUE
FirstHarness == CHOOSE h \in Harness : TRUE
InvocationChosen == command = FirstInvocation /\ harness = FirstHarness /\ hookLog = {}

NoInvocation == agentNo = 0 /\ InvocationChosen
NoNight == night = 0 /\ \A r \in Run : DOMAIN expected[r].nondeterministic = {}
NoProbe == at = "start" /\ hpc = "start" /\ PlanChosen

SuiteInit ==
  /\ Init /\ GateInit /\ ProbesInit
  /\ InvocationChosen \/ PlanChosen

SuiteNext ==
  \/ NoNight /\ NoProbe /\ Next /\ UNCHANGED <<gateVars, resumeVars, hiddenVars>>
  \/ NoInvocation /\ NoProbe /\ GateNext /\ UNCHANGED <<vars, resumeVars, hiddenVars>>
  \/ NoInvocation /\ NoNight /\ ProbesNext /\ UNCHANGED <<vars, gateVars>>

SuiteSpec == SuiteInit /\ [][SuiteNext]_<<vars, gateVars, resumeVars, hiddenVars>>
============================================================================
