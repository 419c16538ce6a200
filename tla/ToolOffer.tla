------------------------------ MODULE ToolOffer ------------------------------
(***************************************************************************)
(* What the mock server promises about a prepared tool call, without its   *)
(* handlers: the runner arms a call, at most one request takes it, and the *)
(* runner can read back whether one did.  Arming again replaces a call     *)
(* that nobody took.                                                       *)
(***************************************************************************)
EXTENDS Naturals

CONSTANT Request

VARIABLES
  offer,   (* "none", "armed" or "served"                          *)
  round,   (* how many calls were armed so far                     *)
  taker    (* [Request -> Nat]: the round a request took, 0: none  *)

offerVars == <<offer, round, taker>>

OfferInit ==
  /\ offer = "none"
  /\ round = 0
  /\ taker = [r \in Request |-> 0]

Arm ==
  /\ offer' = "armed"
  /\ round' = round + 1
  /\ UNCHANGED taker

Take(r) ==
  /\ offer = "armed"
  /\ taker[r] = 0
  /\ offer' = "served"
  /\ taker' = [taker EXCEPT ![r] = round]
  /\ UNCHANGED round

OfferNext == Arm \/ \E r \in Request : Take(r)

OfferSpec == OfferInit /\ [][OfferNext]_offerVars
=============================================================================
