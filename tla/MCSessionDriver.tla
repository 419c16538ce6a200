-------------------------- MODULE MCSessionDriver --------------------------
(***************************************************************************)
(* Small instances of SessionDriver.                                       *)
(***************************************************************************)
EXTENDS SessionDriver

\* A resumed session whose load emitted nothing, and one with an approval replayed,
\* which leaves room in the channel for an event before Start counts.
MCLoads == { <<>>, <<[kind |-> "ask", no |-> 1, from |-> "load"]>> }

NewSession == {<<>>}

Approve == [park |-> FALSE, cancelDuringLoad |-> FALSE, resume |-> FALSE]
Park == [Approve EXCEPT !.park = TRUE]
Resumed(p) == [p EXCEPT !.resume = TRUE]
CancelDuringLoad == [Resumed(Approve) EXCEPT !.cancelDuringLoad = TRUE]

AllPolicies == {Approve, Park, Resumed(Park), CancelDuringLoad}
OnlyApprove == {Approve}
OnlyResumed == {Resumed(Approve), CancelDuringLoad}
=============================================================================
