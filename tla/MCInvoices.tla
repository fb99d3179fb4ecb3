----------------------------- MODULE MCInvoices -----------------------------
(* Small instances of Invoices for TLC.                                    *)
EXTENDS Invoices, TLC

CONSTANTS h1, h2, null

MCHashes == {h1, h2}

MCAmount == (h1 :> 3999 @@ h2 :> 5000)

OneHash == {h1}

OneAmount == (h1 :> 3999)

NoFaults == {}
=============================================================================
