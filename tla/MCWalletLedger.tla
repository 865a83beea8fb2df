--------------------------- MODULE MCWalletLedger ---------------------------
(***************************************************************************)
(* Instances of WalletLedger: a client and a provider who share an escrow, *)
(* a top-up sent twice under one key, a withdrawal and a payout.           *)
(***************************************************************************)
EXTENDS WalletLedger, TLC

AllKeys == {"k_topup", "k_withdraw", "k_release", "k_refund", "k_payout"}
AllCases == {"escrow", "request"}
AllWallets == {"client", "provider"}

CallKey    == ("topup" :> "k_topup") @@ ("again" :> "k_topup")
              @@ ("withdraw" :> "k_withdraw") @@ ("release" :> "k_release")
              @@ ("refund" :> "k_refund") @@ ("payout" :> "k_payout")
CallWallet == ("release" :> "provider") @@ ("payout" :> "provider")
CallKind   == ("topup" :> "wallet_topup") @@ ("again" :> "wallet_topup")
              @@ ("withdraw" :> "wallet_withdraw") @@ ("release" :> "escrow_release")
              @@ ("refund" :> "refund") @@ ("payout" :> "payout")
CallAmount == ("topup" :> 2) @@ ("again" :> 3) @@ ("withdraw" :> 3)
              @@ ("release" :> 2) @@ ("refund" :> 3) @@ ("payout" :> 1)
CallCase   == ("release" :> "escrow") @@ ("refund" :> "escrow") @@ ("payout" :> "request")

MCKeyOf    == [r \in Requests |-> CallKey[r]]
MCWalletOf == [r \in Requests |-> IF r \in DOMAIN CallWallet THEN CallWallet[r] ELSE "client"]
MCKindOf   == [r \in Requests |-> CallKind[r]]
MCAmountOf == [r \in Requests |-> CallAmount[r]]
MCCaseOf   == [r \in Requests |-> IF r \in DOMAIN CallCase THEN CallCase[r] ELSE NoCase]

MCOpening  == ("client" :> 3) @@ ("provider" :> 2)
MCReserved == ("client" :> 1) @@ ("provider" :> 1)
MCStart    == ("escrow" :> "delivery_review") @@ ("request" :> "approved")
=============================================================================
