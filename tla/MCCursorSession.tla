-------------------------- MODULE MCCursorSession --------------------------
(***************************************************************************)
(* Small instances of CursorSession.                                       *)
(***************************************************************************)
EXTENDS CursorSession

\* A client that reads its one stream to the end and repeats itself once.
SteadyTurn(tool_, hooks_) ==
  [tool |-> tool_, hooks |-> hooks_, slots |-> 2, strays |-> 1, streams |-> 1,
   steady |-> TRUE]

\* A client that hangs up, comes back once, or never reads at all.
LossyTurn(tool_, hooks_) ==
  [tool |-> tool_, hooks |-> hooks_, slots |-> 1, strays |-> 0, streams |-> 2,
   steady |-> FALSE]

\* A turn without a tool and one with a read, hooks before and after; all three
\* hooks where the client repeats nothing; what is lost on the way does not
\* depend on how many stages there are.
TurnPlans ==
  {SteadyTurn("none", {"PROMPT", "STOP"}), SteadyTurn("read", {"PRE_COMPACT"}),
   [SteadyTurn("none", Hook) EXCEPT !.strays = 0],
   LossyTurn("read", {}), LossyTurn("none", {"STOP"})}

ShellPlans == {[SteadyTurn("shell", {}) EXCEPT !.slots = 1, !.strays = 0]}
=============================================================================
