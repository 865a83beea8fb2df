------------------------- MODULE MCFinanceLifecycle -------------------------
(***************************************************************************)
(* The six graphs of the code, and every graph on three states.            *)
(***************************************************************************)
EXTENDS FinanceReach

CodeGraphs == {TransactionGraph, EscrowGraph, PayoutGraph, SubscriptionGraph,
               InvoiceGraph, PaymentIntentGraph}
SmallStates == {"a", "b", "c"}
SmallGraphs == [SmallStates -> SUBSET SmallStates]
AllGraphs == CodeGraphs \cup SmallGraphs
=============================================================================
