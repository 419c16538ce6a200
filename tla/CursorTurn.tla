----------------------------- MODULE CursorTurn -----------------------------
(***************************************************************************)
(* What one turn of the Cursor backend promises (server/cursor.go): the    *)
(* stages are walked in order, none twice; a stage asks the client at most *)
(* once, context and tool always do, and the turn stands still while an    *)
(* ask is open.  Who settles an ask, a reply or a timer, is left out, and  *)
(* so is everything sent on the way.                                       *)
(***************************************************************************)
VARIABLES
  stage,   (* cursorSession.stage                      *)
  asked,   (* the stages the client was asked at       *)
  open     (* an ask waits for its reply or its timer  *)

turnVars == <<stage, asked, open>>

Order == {<<"", "hook:prompt">>, <<"hook:prompt", "context">>, <<"context", "tool">>,
          <<"context", "hook:compact">>, <<"tool", "hook:compact">>,
          <<"hook:compact", "hook:stop">>, <<"hook:stop", "done">>}

Stage == {"", "hook:prompt", "context", "tool", "hook:compact", "hook:stop", "done"}

\* The stages that are nothing but an ask; a hook is asked only on request.
Exchange == {"context", "tool"}

TurnInit == stage = "" /\ asked = {} /\ open = FALSE

Move ==
  /\ ~open
  /\ <<stage, stage'>> \in Order
  /\ stage \in Exchange => stage \in asked
  /\ UNCHANGED <<asked, open>>

Ask ==
  /\ ~open
  /\ stage \notin asked \cup {"", "done"}
  /\ open' = TRUE
  /\ asked' = asked \cup {stage}
  /\ UNCHANGED stage

Settle ==
  /\ open
  /\ open' = FALSE
  /\ UNCHANGED <<stage, asked>>

TurnNext == Move \/ Ask \/ Settle

TurnSpec == TurnInit /\ [][TurnNext]_turnVars
=============================================================================
