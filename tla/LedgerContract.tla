--------------------------- MODULE LedgerContract ---------------------------
(***************************************************************************)
(* What the wallet service promises about money, one atomic step per       *)
(* command: a key is applied at most once, it moves one wallet by the      *)
(* amount of one of the requests that carry it, and no balance goes below  *)
(* zero.  WalletLedger implements it with interactive transactions.        *)
(***************************************************************************)
EXTENDS Integers

CONSTANTS Keys, Wallets,
          Opening,     \* [Wallets -> Nat], the balances before the first command
          Moves        \* [Keys -> SUBSET (Wallets \X Int)], what a key may do

VARIABLES funds,       \* [Wallets -> Nat]
          applied      \* the keys that took effect

vars == <<funds, applied>>

Init == /\ funds = Opening
        /\ applied = {}

Apply(k) ==
    /\ k \notin applied
    /\ \E move \in Moves[k] :
          /\ funds[move[1]] + move[2] >= 0
          /\ funds' = [funds EXCEPT ![move[1]] = @ + move[2]]
    /\ applied' = applied \cup {k}

Next == \E k \in Keys : Apply(k)

Spec == Init /\ [][Next]_vars
=============================================================================
