------------------------- MODULE MCDexPaySettlement -------------------------
(***************************************************************************)
(* Two deliveries of one webhook, a user and a reconciliation.             *)
(***************************************************************************)
EXTENDS DexPaySettlement, TLC

CONSTANTS d1, d2, u1, u2

Deliveries == {d1, d2}
Callers == {u1, u2}
Handlers == Deliveries \cup Callers
HandledEvent == [s \in Handlers |-> IF s \in Callers THEN NoEvent ELSE "completed"]
Interchangeable == Permutations(Deliveries) \cup Permutations(Callers)
=============================================================================
