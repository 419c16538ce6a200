--------------------------- MODULE MCTurnSettle ---------------------------
(* The interactive phase with short waits, for TLC.                        *)
EXTENDS TurnSettle
===========================================================================
