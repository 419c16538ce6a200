-------------------------- MODULE MCRunnerPhases --------------------------
(***************************************************************************)
(* Small instances of RunnerPhases.                                        *)
(***************************************************************************)
EXTENDS RunnerPhases

Command(mode, probes, hooks, prints) ==
  [mode |-> mode, probes |-> probes, hooks |-> hooks, prints |-> prints]

SessionProbes ==
  {"deferred", "resume", "inflight", "compact", "seed", "seedkinds", "seedshapes"}

\* Any mode and probes with the suite's own hooks and silent agents; with
\* belt's hooks or with agents that print, one phase and nothing before it.
MCInvocations ==
  {Command("both", p, "mock", FALSE) : p \in {{}, {"hidden", "deferred"}}}
    \cup {Command(m, {"hidden"}, "mock", FALSE) : m \in {"acp", "sdk"}}
    \cup {Command("acp", SessionProbes, "mock", TRUE), Command("headless", {}, "belt", TRUE)}

BeltBoth == {Command("both", {}, "belt", FALSE)}
===========================================================================
