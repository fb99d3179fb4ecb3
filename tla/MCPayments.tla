----------------------------- MODULE MCPayments -----------------------------
(* Small instances of Payments for TLC.                                    *)
EXTENDS Payments, TLC

CONSTANTS r1, r2, r3, h1, h2, null

MCHashes == {h1, h2}

(* One amount is no whole number of sats.                                  *)
MCAmount == (h1 :> 3999 @@ h2 :> 5000)

OneHash == {h1}

OneAmount == (h1 :> 3999)

(* A fee that is no whole number of sats, and an answer with no route.     *)
MCFees == {1999, null}

OneFee == {1999}

AllKinds == {"rest", "fn"}

RestOnly == {"rest"}

NoFaults == {}

Interchangeable == Permutations(Requests)
=============================================================================
