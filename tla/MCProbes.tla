------------------------------ MODULE MCProbes ------------------------------
(***************************************************************************)
(* Small instances of the probes.  An invocation of the runner asks for    *)
(* the hidden-command probe or for a session probe; it chooses one of the  *)
(* two here, and the other stays where it begins.                          *)
(***************************************************************************)
EXTENDS ResumeProbe, HiddenProbe

---------------------------------------------------------------------------
(* The session probes: every kind of agent a verdict distinguishes.        *)

MCDelays == <<0, 2, 4>>

ProbeOf(kind, kill, ans, after) == [kind |-> kind, kill |-> kill, answer |-> ans, after |-> after]

Plain == [acp |-> TRUE, named |-> TRUE, killable |-> TRUE, tool |-> "gated", lag |-> 0,
          early |-> "refuses", keeps |-> TRUE, compacts |-> "wide", wording |-> FALSE,
          reraises |-> "load"]

ResumePlans ==
  {ProbeOf("resume", kill, "approved", after) : kill \in BOOLEAN, after \in {0, 1}} \X
  ({[Plain EXCEPT !.lag = l, !.early = e] : l \in {0, 3, 6}, e \in {"refuses", "blank"}}
     \cup {[Plain EXCEPT !.keeps = FALSE, !.acp = FALSE], [Plain EXCEPT !.killable = FALSE],
           [Plain EXCEPT !.named = FALSE]})

CompactPlans ==
  {ProbeOf("compact", FALSE, "approved", after) : after \in {0, 1}} \X
  ({[Plain EXCEPT !.compacts = c, !.acp = a] :
      c \in {"silent", "prompt", "noop", "wide"}, a \in BOOLEAN}
     \cup {[Plain EXCEPT !.compacts = "reports", !.acp = FALSE]}
     \cup {[Plain EXCEPT !.wording = TRUE], [Plain EXCEPT !.keeps = FALSE],
           [Plain EXCEPT !.lag = 1, !.named = TRUE]})

InFlightPlans ==
  {ProbeOf("inflight", TRUE, ans, 0) : ans \in {"approved", "cancelled", "parked"}} \X
  ({[Plain EXCEPT !.reraises = w, !.acp = a] : w \in {"none", "load", "after"}, a \in BOOLEAN}
     \cup {[Plain EXCEPT !.tool = t] : t \in {"ungated", "undeclared"}}
     \cup {[Plain EXCEPT !.killable = FALSE], [Plain EXCEPT !.lag = 1],
           [Plain EXCEPT !.named = FALSE]})

MCPlans == ResumePlans \cup CompactPlans \cup InFlightPlans

---------------------------------------------------------------------------
(* The hidden-command probe.                                               *)

\* rpc (1), --mode rpc (19), whose marker holds that of 1, and a name out of the
\* package (22).
MCCandidates == {1, 19, 22}

\* The words "rpc" stand in "--mode rpc".
MCInside == {<<1, 19>>}

PageOf(refuses, lines, helps) == [refuses |-> refuses, lines |-> lines, helps |-> helps]

MCPages == {PageOf(TRUE, "own", FALSE), PageOf(FALSE, "root", TRUE), PageOf(FALSE, "own", TRUE)}

Out(answers, json, refuses) == [answers |-> answers, json |-> json, refuses |-> refuses]

MCOutputs == {Out("acp", FALSE, FALSE), Out("jsonrpc", TRUE, TRUE), Out("none", TRUE, TRUE),
              Out("none", FALSE, TRUE), Out("none", FALSE, FALSE)}

\* Its line, its words, its words in a text that is not parsed, and a request of the
\* agent's own that declares a tool named rpc.
BodyWith(carries, own, named) == [carries |-> carries, own |-> own, named |-> named]

MCBodies == {BodyWith("marker", FALSE, {}), BodyWith("words", FALSE, {}),
             BodyWith("other", TRUE, {}), BodyWith("other", FALSE, {1})}

---------------------------------------------------------------------------
FirstPlan == CHOOSE p \in Plans : TRUE
PlanChosen == plan = FirstPlan

ProbesInit == ResumeInit /\ HiddenInit
ProbesNext ==
  \/ hpc = "start" /\ ResumeNext /\ UNCHANGED hiddenVars
  \/ at = "start" /\ PlanChosen /\ HiddenNext /\ UNCHANGED resumeVars
=============================================================================
