------------------------------- MODULE Thors --------------------------------
(***************************************************************************)
(* The server as a whole: the payment path and the invoice path, as they   *)
(* share one process and one database, and the listing that reads the      *)
(* table.  main syncs the invoices before it serves; when the process      *)
(* dies, both paths die at once.                                           *)
(***************************************************************************)
EXTENDS Payments, Invoices, Listing

vars == <<ledgerVars, paymentsOwn, invoicesOwn, listingVars>>

Init == PaymentsInit /\ InvoicesInit /\ ListingInit

(* main binds its port when the sync is over, whatever has come of it.     *)
Serving == phase \notin {"down", "list", "sync"}

PaymentStep ==
    /\ \/ \E r \in Requests :
            \/ Serving /\ Arrive(r)
            \/ RequestProceeds(r)
            \/ RequestFault(r)
       \/ \E h \in Hashes : Resolve(h)
    /\ UNCHANGED invoicesOwn

InvoiceStep ==
    /\ \/ \E h \in Hashes : Node(h)
       \/ TaskProceeds \/ TaskFault
    /\ UNCHANGED paymentsOwn

(* What a step writes is what the listing finds.                           *)
Listed ==
    LET written == {k \in Keys : tx'[k] # tx[k]}
    IN  IF written = {} THEN UNCHANGED listingVars ELSE \E k \in written : Stored(k)

Crash ==
    /\ TaskCrashes
    /\ IF \E r \in Requests : pc[r] \in Steps
       THEN RequestsCrash ELSE UNCHANGED paymentsOwn
    /\ UNCHANGED listingVars

Read ==
    /\ Serving
    /\ Begin \/ NextPage
    /\ UNCHANGED <<ledgerVars, paymentsOwn, invoicesOwn>>

Next ==
    \/ PaymentStep /\ Listed
    \/ InvoiceStep /\ Listed
    \/ Crash
    \/ Read
    \/ Finished /\ Quiet /\ UNCHANGED listingVars

Spec == Init /\ [][Next]_vars

-----------------------------------------------------------------------------
(***************************************************************************)
(* Properties.                                                             *)
(***************************************************************************)

(* The event that is to follow the last commit of each row.                *)
Outbox ==
    [k \in Keys |->
        IF k[1] = "invoice"
        THEN IF toSend # Null /\ toSend.hash = k[2] THEN toSend.status ELSE "none"
        ELSE IF \E r \in Requests : pc[r] = "publish" /\ hash[r] = k[2]
             THEN "succeeded" ELSE "none"]

Committed ==
    INSTANCE Commits WITH
        Invoices <- {Invoice(h) : h \in Hashes},
        Payments <- {Payment(h) : h \in Hashes},
        status <- [k \in Keys |-> tx[k].status],
        outbox <- Outbox

(* To the readers of the table and of the channel the two paths together,  *)
(* under every fault, are what Commits takes them for: each row goes       *)
(* through its statuses one by one, an event is sent for a commit of its   *)
(* row only, once, and before the row, or for an invoice any invoice, is   *)
(* written again.                                                          *)
ImplementsCommits == Committed!CommitsSpec
=============================================================================
