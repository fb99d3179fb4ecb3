---------------------------- MODULE LedgerProofs ----------------------------
(***************************************************************************)
(* Lemmas about the statements of the ledger, for the proofs of the paths  *)
(* that run them.                                                          *)
(***************************************************************************)
EXTENDS Ledger, TLAPS

(* A payment and an invoice of one hash have keys of their own, and so     *)
(* have two payments of different hashes.                                  *)
LEMMA KeyFacts ==
    /\ \A h \in Hashes : Payment(h) \in Keys /\ Invoice(h) \in Keys
    /\ \A g, h \in Hashes :
        /\ Payment(g) = Payment(h) => g = h
        /\ Invoice(g) = Invoice(h) => g = h
        /\ Payment(g) # Invoice(h)
    /\ \A k \in Keys : k[2] \in Hashes
BY DEF Payment, Invoice, Keys, TxTypes

(* No stored row is the absent row.                                        *)
LEMMA RowFacts ==
    /\ NoRow \notin Rows
    /\ NoRow.status = "none"
    /\ NoRow.fee = Null
    /\ \A row \in Rows \cup {NoRow} :
        /\ row.fee \in Nat \cup {Null}
        /\ row.status = "none" <=> row = NoRow
BY DEF NoRow, Rows, TxStatuses

(* What a row is worth is a natural number: the trigger never subtracts.   *)
LEMMA CreditType ==
    ASSUME NEW k \in Keys, NEW row \in Rows \cup {NoRow}
    PROVE  Worth(k, row) \in Nat /\ Credit(k, row) \in Nat
<1>1. AmountSats(k[2]) \in Nat
  BY KeyFacts, AmountAssumption DEF AmountSats
<1>2. row.fee \in Nat \cup {Null}
  BY RowFacts
<1>3. Worth(k, row) \in Nat
  BY <1>1, <1>2 DEF Worth
<1> QED
  BY <1>3 DEF Credit

(* The empty tables are well typed and in balance.                         *)
LEMMA LedgerInitially == LedgerInit => LedgerTypeOK /\ BalanceExact
BY RowFacts DEF LedgerInit, LedgerTypeOK, BalanceExact

(* A write of a well-formed row over one that has not succeeded keeps the  *)
(* tables well typed and in balance, and touches nothing else.             *)
LEMMA StoreSound ==
    ASSUME LedgerTypeOK, BalanceExact,
           NEW k \in Keys, NEW row \in Rows,
           tx[k].status # "succeeded",
           Store(k, row)
    PROVE  /\ LedgerTypeOK'
           /\ BalanceExact'
           /\ tx'[k] = row
           /\ \A j \in Keys : j # k => tx'[j] = tx[j]
<1>1. tx' \in [Keys -> Rows \cup {NoRow}]
  BY DEF LedgerTypeOK, Store
<1>2. tx'[k] = row /\ \A j \in Keys : j # k => tx'[j] = tx[j]
  BY DEF LedgerTypeOK, Store
<1>3. balance[k] = 0
  BY DEF BalanceExact
<1>4. balance'[k] = Credit(k, row) /\ \A j \in Keys : j # k => balance'[j] = balance[j]
  BY <1>3, CreditType DEF LedgerTypeOK, Store
<1>5. balance' \in [Keys -> Nat]
  BY <1>3, CreditType DEF LedgerTypeOK, Store
<1>6. BalanceExact'
  <2> SUFFICES ASSUME NEW j \in Keys
               PROVE  balance'[j] = IF tx'[j].status = "succeeded"
                                    THEN Worth(j, tx'[j]) ELSE 0
    BY DEF BalanceExact
  <2>1. CASE j = k
    BY <1>2, <1>4, <2>1 DEF Credit
  <2>2. CASE j # k
    BY <1>2, <1>4, <2>2 DEF BalanceExact
  <2> QED
    BY <2>1, <2>2
<1> QED
  BY <1>1, <1>2, <1>5, <1>6 DEF LedgerTypeOK

(* An upsert leaves the row with the status it was given, and nothing else *)
(* changed; it is sound unless it takes "succeeded" back.                  *)
LEMMA UpsertSound ==
    ASSUME LedgerTypeOK, BalanceExact,
           NEW k \in Keys, NEW status \in TxStatuses,
           tx[k].status = "succeeded" => status = "succeeded",
           Upsert(k, status)
    PROVE  /\ LedgerTypeOK'
           /\ BalanceExact'
           /\ tx'[k].status = status
           /\ \A j \in Keys : j # k => tx'[j] = tx[j]
           /\ tx[k].status = status => tx' = tx
<1>1. tx[k] \in Rows \cup {NoRow}
  BY DEF LedgerTypeOK
<1>2. UpToDate(k, status) <=> tx[k].status = status
  BY <1>1, RowFacts DEF UpToDate, HasRow, TxStatuses
<1>3. CASE tx[k].status = status
  <2>1. tx' = tx /\ balance' = balance
    BY <1>2, <1>3 DEF Upsert, ledgerVars
  <2> QED
    BY <1>3, <2>1 DEF LedgerTypeOK, BalanceExact, Worth
<1>4. CASE tx[k].status # status
  <2> DEFINE row == [status |-> status, fee |-> tx[k].fee]
  <2>1. row \in Rows /\ row.status = status
    BY <1>1, RowFacts DEF Rows
  <2>2. Store(k, row) /\ tx[k].status # "succeeded"
    BY <1>2, <1>4 DEF Upsert
  <2>3. LedgerTypeOK' /\ BalanceExact' /\ tx'[k] = row
        /\ \A j \in Keys : j # k => tx'[j] = tx[j]
    BY <2>1, <2>2, StoreSound
  <2> QED
    BY <1>4, <2>1, <2>3
<1> QED
  BY <1>3, <1>4
=============================================================================
