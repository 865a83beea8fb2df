------------------------- MODULE MCEscrowSettlement -------------------------
(***************************************************************************)
(* Two calls that release the escrow and two that refund it.               *)
(***************************************************************************)
EXTENDS EscrowSettlement

FourCalls == {"release", "release again", "refund", "refund again"}
Sides == [a \in FourCalls |-> IF a \in {"release", "release again"}
                              THEN "released" ELSE "refunded"]
=============================================================================
