------------------------------- MODULE Ledger -------------------------------
(***************************************************************************)
(* The PostgreSQL database of THOrs: the table `transactions`, its unique  *)
(* key, and the trigger that keeps the table `balance`.  Every statement   *)
(* of db.rs that writes is an operator here, and one statement is one      *)
(* atomic step, as it is in PostgreSQL outside an explicit transaction.    *)
(* The modules of the payment path and of the invoice path EXTEND this     *)
(* one and decide when each statement runs.                                *)
(***************************************************************************)
EXTENDS Integers

CONSTANTS
    Hashes,     \* payment hashes, each standing for one BOLT#11 invoice
    AmountMsat, \* what the invoice with each hash asks for, in msat
    Null,       \* SQL NULL, Rust None
    Faults      \* the faults that may happen; each path names its own

ASSUME AmountAssumption == AmountMsat \in [Hashes -> Nat]

ASSUME NullAssumption == Null \notin Int /\ Null \notin Hashes

TxTypes == {"invoice", "payment"}

TxStatuses == {"pending", "succeeded", "failed", "expired"}

(* The unique key of a row, (tx_type, payment_hash).                       *)
Keys == TxTypes \X Hashes

Invoice(h) == <<"invoice", h>>

Payment(h) == <<"payment", h>>

(* The columns that change after the insertion of a row.                   *)
Rows == [status : TxStatuses, fee : Nat \cup {Null}]

NoRow == [status |-> "none", fee |-> Null]

VARIABLES
    tx,         \* the row stored under each key, or NoRow
    balance     \* the sats the trigger has added to `balance` for each key:
                \* received_sats is the sum over the invoices, paid_sats the
                \* sum over the payments

ledgerVars == <<tx, balance>>

LedgerTypeOK ==
    /\ tx \in [Keys -> Rows \cup {NoRow}]
    /\ balance \in [Keys -> Nat]

LedgerInit ==
    /\ tx = [k \in Keys |-> NoRow]
    /\ balance = [k \in Keys |-> 0]

HasRow(k) == tx[k] # NoRow

(* amount_sats: LND's num_satoshis of a payment request, and its value of  *)
(* an invoice, are the whole sats in it.                                   *)
AmountSats(h) == AmountMsat[h] \div 1000

(* What a row that has succeeded is worth: the amount and, for a payment,  *)
(* COALESCE(fee_sats, 0).                                                  *)
Worth(k, row) ==
    AmountSats(k[2]) + (IF k[1] = "payment" /\ row.fee # Null THEN row.fee ELSE 0)

(* Mutants of Credit: the fee forgotten; payments taken off.               *)
CreditNoFee(k, row) == IF row.status = "succeeded" THEN AmountSats(k[2]) ELSE 0

CreditSigned(k, row) ==
    IF row.status # "succeeded" THEN 0
    ELSE IF k[1] = "payment" THEN 0 - Worth(k, row) ELSE Worth(k, row)

(* What the trigger adds when `row` is written under k: it fires on every  *)
(* insertion and on every update that sets `status`, and looks at the new  *)
(* row only, never at the one it replaces.                                 *)
Credit(k, row) == IF row.status = "succeeded" THEN Worth(k, row) ELSE 0

(* A write and the trigger it fires.                                       *)
Store(k, row) ==
    /\ tx' = [tx EXCEPT ![k] = row]
    /\ balance' = [balance EXCEPT ![k] = @ + Credit(k, row)]

(* Mutants of CanInsert: no unique key; a failed payment may be retried.   *)
CanInsertAlways(k) == TRUE

CanInsertAgain(k) == ~HasRow(k) \/ tx[k].status = "failed"

(* create_transaction: refused with UniqueViolation when the key is taken. *)
CanInsert(k) == ~HasRow(k)

Insert(k, status) == CanInsert(k) /\ Store(k, [status |-> status, fee |-> Null])

(* update_transaction_status: an UPDATE of the row under k; a None field   *)
(* of UpdateTransaction leaves its column alone.                           *)
UpdateStatus(k, status, fee) ==
    /\ HasRow(k)
    /\ Store(k, [status |-> status,
                 fee |-> IF fee = Null THEN tx[k].fee ELSE fee])

(* Mutants of UpToDate: an upsert that only inserts; one that always       *)
(* writes.                                                                 *)
UpToDateOnceStored(k, status) == HasRow(k)

UpToDateNever(k, status) == FALSE

(* upsert_transaction, called by one task at a time: it writes unless the  *)
(* row already has the status, and answers whether it wrote.               *)
UpToDate(k, status) == HasRow(k) /\ tx[k].status = status

Upsert(k, status) ==
    IF UpToDate(k, status)
    THEN UNCHANGED ledgerVars
    ELSE Store(k, [status |-> status, fee |-> tx[k].fee])

-----------------------------------------------------------------------------
(***************************************************************************)
(* What the ledger owes its readers, whatever order its callers write in.  *)
(***************************************************************************)

(* The balance row counts every succeeded transaction exactly once, with   *)
(* the fee of a payment, and no other transaction: the trigger credits on  *)
(* every write of "succeeded", so this depends on no caller ever writing   *)
(* "succeeded" over "succeeded", and on the fee coming with the status.    *)
BalanceExact ==
    \A k \in Keys :
        balance[k] = IF tx[k].status = "succeeded" THEN Worth(k, tx[k]) ELSE 0

(* A row whose status is final keeps it: a succeeded, failed or expired    *)
(* transaction is never written again and no row disappears.               *)
TerminalFinal ==
    \A k \in Keys :
        tx[k].status \in {"succeeded", "failed", "expired"} => tx'[k] = tx[k]

=============================================================================
