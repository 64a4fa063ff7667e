------------------------------ MODULE MCLedger ------------------------------
EXTENDS Ledger, TLC

CONSTANTS t1, t2, t3, w1, w2

(* One LedgerWriter for every thread.                                      *)
SharedInstance == (t1 :> w1 @@ t2 :> w1)

(* What the code does: each caller opens a writer of its own.              *)
OwnInstance == (t1 :> w1 @@ t2 :> w2)

(* Two threads share an instance while a third has its own.                *)
MixedInstance == (t1 :> w1 @@ t2 :> w1 @@ t3 :> w2)

SymPairs == Permutations({t1, t2})
=============================================================================
