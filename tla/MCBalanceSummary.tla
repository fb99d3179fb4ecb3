-------------------------- MODULE MCBalanceSummary --------------------------
(* Small instances of BalanceSummary for TLC.                              *)
EXTENDS BalanceSummary, FiniteSetsExt

CONSTANT Sats       \* amount_sats of every transaction

NoFaults == {}

Total(S) == MapThenSumSet(LAMBDA k : Sats, S)

(* total_balance in the answer                                             *)
TotalBalance == Total(shown.pendingReceived) - Total(shown.pendingPaid)

(***************************************************************************)
(* What models.rs:178-180 and the example of README.md:377-379 say of      *)
(* total_balance: received_sats - paid_sats.  Once everything is settled   *)
(* the endpoint answers 0.                                                 *)
(***************************************************************************)
TotalIsReceivedMinusPaid ==
    panel = "shown" => TotalBalance = Total(shown.received) - Total(shown.paid)
=============================================================================
