----------------------------- MODULE MCWallets -----------------------------
(***************************************************************************)
(* Wallets with one payment scope and one payout scope, of one account or  *)
(* of two, with and without a wallet that is expected.                     *)
(***************************************************************************)
EXTENDS Wallets, TLC

CONSTANTS pay, out, a1, a2, w1, w2, p1, p2

OneAccount == (pay :> a1) @@ (out :> a1)
TwoAccounts == (pay :> a1) @@ (out :> a2)
Expecting(w) == (pay :> w) @@ (out :> None)

Plain == [owner : {OneAccount, TwoAccounts}, expected : {Expecting(None), Expecting(w1)},
          spike : {{}}, faults : {1}]
Spike == [owner : {OneAccount}, expected : {Expecting(None)}, spike : {{TRUE}},
          faults : {0}]
Early == [owner : {OneAccount}, expected : {Expecting(None)}, spike : {BOOLEAN}, faults : {0}]
AllWorkloads == Plain \cup Spike
=============================================================================
