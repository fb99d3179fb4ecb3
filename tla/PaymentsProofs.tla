--------------------------- MODULE PaymentsProofs ---------------------------
(***************************************************************************)
(* The safety properties of Payments, for every set of requests, invoices, *)
(* amounts, fees and faults: PaymentsInv is inductive, and what the runs   *)
(* check on small instances follows from it.                               *)
(***************************************************************************)
EXTENDS Payments, LedgerProofs

Locked == {"decoding", "sending"}

(* No request has begun, no row is stored, nothing is held or called.      *)
LEMMA InitInv == PaymentsInit => PaymentsInv
<1> SUFFICES ASSUME PaymentsInit PROVE PaymentsInv
  OBVIOUS
<1> USE DEF PaymentsInit
<1>1. LedgerTypeOK /\ BalanceExact
  BY LedgerInitially
<1>2. PaymentsTypeOK
  BY <1>1 DEF PaymentsTypeOK, NodeStates
<1>3. \A h \in Hashes : StatusOf(h) = "none"
  BY KeyFacts DEF LedgerInit, StatusOf, NoRow
<1>4. Owned /\ NodeFollows /\ StatusTruthful /\ Published /\ PublishedSound
  BY <1>3 DEF Owned, Owning, NodeFollows, StatusTruthful, Published, PublishedSound
<1>5. AnswerHonest
  BY DEF AnswerHonest
<1>6. LockHeld
  BY RequestsAssumption DEF LockHeld
<1>7. FeesBooked
  BY <1>3 DEF FeesBooked
<1> QED
  BY <1>1, <1>2, <1>4, <1>5, <1>6, <1>7 DEF PaymentsInv

(* A request moves from one step to the next, and perhaps takes or drops   *)
(* the Mutex, but writes nothing: what it must not do is claim a place the *)
(* invariant says more about than it said about the place it comes from.   *)
LEMMA MoveSound ==
    ASSUME PaymentsInv,
           NEW r \in Requests,
           NEW to \in Steps \cup Outcomes,
           pc' = [pc EXCEPT ![r] = to],
           UNCHANGED <<ledgerVars, requestVars, lndVars, published>>,
           to \notin {"send", "sending", "publish", "ok"},
           to \in {"saveSucceeded", "saveFailed"} => pc[r] = "sending",
           to = "saveSucceeded" => lndPay[hash[r]] = "succeeded",
           to \in {"saveFailed", "paymentFailed", "unmarked"}
               => lndPay[hash[r]] = "failed",
           to \in {"duplicate", "uniqueViolation"} => HasRow(Row(r)),
           sendLock' \in Requests \cup {Null},
           to \in Locked <=> sendLock' = r,
           \A q \in Requests \ {r} : sendLock' = q <=> sendLock = q
    PROVE  PaymentsInv'
<1> USE DEF PaymentsInv
<1>1. /\ tx' = tx /\ balance' = balance
      /\ kind' = kind /\ hash' = hash /\ maker' = maker
      /\ lndPay' = lndPay /\ lndFee' = lndFee /\ calls' = calls
      /\ published' = published
  BY DEF ledgerVars, requestVars, lndVars
<1>2. pc \in [Requests -> {"idle"} \cup Steps \cup Outcomes]
  BY DEF PaymentsTypeOK
<1>3. pc'[r] = to /\ \A q \in Requests \ {r} : pc'[q] = pc[q]
  BY <1>2
<1>4. PaymentsTypeOK'
  BY <1>1, <1>2 DEF PaymentsTypeOK, LedgerTypeOK
<1>5. BalanceExact'
  BY <1>1 DEF BalanceExact, Worth
<1>6. StatusTruthful' /\ PublishedSound'
  BY <1>1 DEF StatusTruthful, PublishedSound, StatusOf
<1>7. Owned'
  BY <1>1, <1>3 DEF Owned, Owning, StatusOf, Steps, Outcomes
<1>8. NodeFollows'
  BY <1>1, <1>3 DEF NodeFollows, HasRow
<1>9. Published'
  BY <1>1, <1>3 DEF Published, StatusOf
<1>10. AnswerHonest'
  BY <1>1, <1>3 DEF AnswerHonest, StatusOf, HasRow, Row
<1>11. LockHeld'
  BY <1>1, <1>3 DEF LockHeld, Locked
<1>12. FeesBooked'
  BY <1>1 DEF FeesBooked, StatusOf
<1> QED
  BY <1>4, <1>5, <1>6, <1>7, <1>8, <1>9, <1>10, <1>11, <1>12

(* Every step of a request that writes nothing.                            *)
LEMMA QuietSteps ==
    ASSUME PaymentsInv, NEW r \in Requests,
           \/ Submit(r) \/ RejectEmpty(r)
           \/ DecodeLock(r) \/ Decode(r) \/ DecodeFail(r)
           \/ Check(r) \/ InsertRefused(r)
           \/ SendRefused(r) \/ AnswerLost(r) \/ RecvSuccess(r) \/ RecvFailure(r)
           \/ SaveFailedIgnored(r) \/ DbError(r) \/ Drop(r)
    PROVE  PaymentsInv'
<1> DEFINE lockFacts ==
            /\ sendLock \in Requests \cup {Null}
            /\ \A q \in Requests : pc[q] \in Locked <=> sendLock = q
<1>1. lockFacts /\ Null \notin Requests
  BY RequestsAssumption DEF PaymentsInv, PaymentsTypeOK, LockHeld, Locked
<1> DEFINE quiet(to) ==
            /\ pc' = [pc EXCEPT ![r] = to]
            /\ UNCHANGED <<ledgerVars, requestVars, lndVars, published>>
<1> USE DEF Goto, Steps, Outcomes, Locked
<1>2. CASE Submit(r)
  <2>1. quiet("decode")
    BY <1>2 DEF Submit
  <2>2. sendLock' = sendLock /\ sendLock # r
    BY <1>1, <1>2 DEF Submit
  <2> QED
    BY <1>1, <2>1, <2>2, MoveSound
<1>3. CASE RejectEmpty(r)
  <2>1. quiet("badRequest")
    BY <1>3 DEF RejectEmpty
  <2>2. sendLock' = sendLock /\ sendLock # r
    BY <1>1, <1>3 DEF RejectEmpty
  <2> QED
    BY <1>1, <2>1, <2>2, MoveSound
<1>4. CASE DecodeLock(r)
  <2>1. quiet("decoding")
    BY <1>4 DEF DecodeLock
  <2>2. sendLock' = r /\ sendLock = Null
    BY <1>4 DEF DecodeLock, Acquire
  <2> QED
    BY <1>1, <2>1, <2>2, MoveSound
<1>5. CASE Decode(r)
  <2>1. PICK to \in {"check", "insert"} : quiet(to)
    BY <1>5 DEF Decode
  <2>2. sendLock' = Null /\ sendLock = r
    BY <1>1, <1>5 DEF Decode, Release
  <2> QED
    BY <1>1, <2>1, <2>2, MoveSound
<1>6. CASE DecodeFail(r) \/ SendRefused(r) \/ AnswerLost(r)
  <2>1. quiet("lndError")
    BY <1>6 DEF DecodeFail, SendRefused, AnswerLost
  <2>2. sendLock' = Null /\ sendLock = r
    BY <1>1, <1>6 DEF DecodeFail, SendRefused, AnswerLost, Release
  <2> QED
    BY <1>1, <2>1, <2>2, MoveSound
<1>7. CASE Check(r)
  <2>1. PICK to \in {"duplicate", "insert"} :
            quiet(to) /\ (to = "duplicate" => HasRow(Row(r)))
    BY <1>7 DEF Check
  <2>2. sendLock' = sendLock /\ sendLock # r
    BY <1>1, <1>7 DEF Check
  <2> QED
    BY <1>1, <2>1, <2>2, MoveSound
<1>8. CASE InsertRefused(r)
  <2>1. quiet("uniqueViolation") /\ HasRow(Row(r))
    BY <1>8 DEF InsertRefused, CanInsert
  <2>2. sendLock' = sendLock /\ sendLock # r
    BY <1>1, <1>8 DEF InsertRefused
  <2> QED
    BY <1>1, <2>1, <2>2, MoveSound
<1>9. CASE RecvSuccess(r)
  <2>1. quiet("saveSucceeded") /\ pc[r] = "sending" /\ lndPay[hash[r]] = "succeeded"
    BY <1>9 DEF RecvSuccess
  <2>2. sendLock' = Null /\ sendLock = r
    BY <1>1, <1>9 DEF RecvSuccess, Release
  <2> QED
    BY <1>1, <2>1, <2>2, MoveSound
<1>10. CASE RecvFailure(r)
  <2>1. PICK to \in {"saveFailed", "paymentFailed"} : quiet(to)
    BY <1>10 DEF RecvFailure
  <2>2. pc[r] = "sending" /\ lndPay[hash[r]] = "failed"
    BY <1>10 DEF RecvFailure
  <2>3. sendLock' = Null /\ sendLock = r
    BY <1>1, <1>10 DEF RecvFailure, Release
  <2> QED
    BY <1>1, <2>1, <2>2, <2>3, MoveSound
<1>11. CASE DbError(r)
  <2>1. quiet("dbError")
    BY <1>11 DEF DbError
  <2>2. sendLock' = sendLock /\ sendLock # r
    BY <1>1, <1>11 DEF DbError
  <2> QED
    BY <1>1, <2>1, <2>2, MoveSound
<1>12. CASE Drop(r)
  <2>1. quiet("dropped")
    BY <1>12 DEF Drop
  <2>2. sendLock' = IF sendLock = r THEN Null ELSE sendLock
    BY <1>12 DEF Drop, ReleaseIfHeld
  <2> QED
    BY <1>1, <2>1, <2>2, MoveSound
<1>13. CASE SaveFailedIgnored(r)
  <2>1. quiet("unmarked") /\ pc[r] = "saveFailed"
    BY <1>13 DEF SaveFailedIgnored
  <2>2. lndPay[hash[r]] = "failed"
    BY <2>1 DEF PaymentsInv, NodeFollows
  <2>3. sendLock' = sendLock /\ sendLock # r
    BY <1>1, <1>13 DEF SaveFailedIgnored
  <2> QED
    BY <1>1, <2>1, <2>2, <2>3, MoveSound
<1> QED
  BY <1>2, <1>3, <1>4, <1>5, <1>6, <1>7, <1>8, <1>9, <1>10, <1>11, <1>12, <1>13

(* A write to the row of one payment: what the other requests and the      *)
(* other payments see of it is nothing.                                    *)
LEMMA PaymentStored ==
    ASSUME PaymentsInv,
           NEW h \in Hashes, NEW row \in Rows,
           tx[Payment(h)].status # "succeeded",
           Store(Payment(h), row)
    PROVE  /\ LedgerTypeOK'
           /\ BalanceExact'
           /\ tx'[Payment(h)] = row
           /\ StatusOf(h)' = row.status
           /\ HasRow(Payment(h))'
           /\ \A g \in Hashes \ {h} :
                /\ tx'[Payment(g)] = tx[Payment(g)]
                /\ StatusOf(g)' = StatusOf(g)
                /\ HasRow(Payment(g))' <=> HasRow(Payment(g))
<1>1. LedgerTypeOK /\ BalanceExact
  BY DEF PaymentsInv, PaymentsTypeOK
<1>2. Payment(h) \in Keys
  BY KeyFacts
<1>3. /\ LedgerTypeOK'
      /\ BalanceExact'
      /\ tx'[Payment(h)] = row
      /\ \A j \in Keys : j # Payment(h) => tx'[j] = tx[j]
  BY <1>1, <1>2, StoreSound
<1>4. \A g \in Hashes \ {h} : Payment(g) \in Keys /\ Payment(g) # Payment(h)
  BY KeyFacts
<1> QED
  BY <1>3, <1>4, RowFacts DEF StatusOf, HasRow

(* A request that inserts its row becomes the owner of its invoice: the    *)
(* key was free, so nobody owned it before.                                *)
LEMMA InsertStep ==
    ASSUME PaymentsInv, NEW r \in Requests, InsertPending(r)
    PROVE  PaymentsInv'
<1>1. pc \in [Requests -> {"idle"} \cup Steps \cup Outcomes]
  BY DEF PaymentsInv, PaymentsTypeOK
<1>h. PICK h \in Hashes : h = hash[r]
  BY DEF PaymentsInv, PaymentsTypeOK
<1> DEFINE row == [status |-> "pending", fee |-> Null]
<1>2. row \in Rows
  BY DEF Rows, TxStatuses
<1>3. StatusOf(h) = "none" /\ ~HasRow(Payment(h)) /\ Store(Payment(h), row)
  BY <1>h DEF InsertPending, Insert, CanInsert, HasRow, Row, StatusOf, NoRow
<1>4. /\ LedgerTypeOK'
      /\ BalanceExact'
      /\ StatusOf(h)' = "pending"
      /\ tx'[Payment(h)].fee = Null
      /\ HasRow(Payment(h))'
      /\ \A g \in Hashes \ {h} :
            /\ tx'[Payment(g)] = tx[Payment(g)]
            /\ StatusOf(g)' = StatusOf(g)
            /\ HasRow(Payment(g))' <=> HasRow(Payment(g))
  BY <1>2, <1>3, PaymentStored DEF StatusOf
<1>5. /\ kind' = kind /\ hash' = hash /\ sendLock' = sendLock
      /\ lndPay' = lndPay /\ lndFee' = lndFee /\ calls' = calls
      /\ published' = published
      /\ maker' \in [Hashes -> Requests \cup {Null}]
  BY <1>h DEF InsertPending, lndVars, PaymentsInv, PaymentsTypeOK
<1>6. /\ pc[r] = "insert" /\ pc'[r] = "send"
      /\ \A q \in Requests \ {r} : pc'[q] = pc[q]
      /\ pc' \in [Requests -> {"idle"} \cup Steps \cup Outcomes]
  BY <1>1 DEF InsertPending, Goto, Steps
<1>7. calls[h] = 0
  BY <1>3 DEF PaymentsInv, NodeFollows
<1>8. \A q \in Requests : pc[q] \in Owning => hash[q] # h
  BY <1>3 DEF PaymentsInv, Owned
<1>9. \A q \in Requests : hash[q] \in Hashes
  BY DEF PaymentsInv, PaymentsTypeOK
<1>10. PaymentsTypeOK'
  BY <1>4, <1>5, <1>6 DEF PaymentsInv, PaymentsTypeOK
<1>11. Owned'
  BY <1>4, <1>5, <1>6, <1>7, <1>8, <1>9, <1>h DEF PaymentsInv, Owned, Owning
<1>12. NodeFollows'
  BY <1>4, <1>5, <1>6, <1>7, <1>h DEF PaymentsInv, NodeFollows
<1>13. StatusTruthful' /\ PublishedSound'
  BY <1>3, <1>4, <1>5 DEF PaymentsInv, StatusTruthful, PublishedSound
<1>14. Published'
  BY <1>3, <1>4, <1>5, <1>6, <1>9, <1>h DEF PaymentsInv, Published
<1>15. AnswerHonest'
  BY <1>3, <1>4, <1>5, <1>6, <1>9, <1>h DEF PaymentsInv, AnswerHonest, Row
<1>16. LockHeld'
  BY <1>5, <1>6 DEF PaymentsInv, LockHeld
<1>17. FeesBooked'
  BY <1>4, <1>5 DEF PaymentsInv, FeesBooked
<1> QED
  BY <1>4, <1>10, <1>11, <1>12, <1>13, <1>14, <1>15, <1>16, <1>17 DEF PaymentsInv

(* The owner makes the one call its invoice gets.                          *)
LEMMA SendStep ==
    ASSUME PaymentsInv, NEW r \in Requests, Send(r)
    PROVE  PaymentsInv'
<1>1. pc \in [Requests -> {"idle"} \cup Steps \cup Outcomes]
  BY DEF PaymentsInv, PaymentsTypeOK
<1>h. PICK h \in Hashes : h = hash[r]
  BY DEF PaymentsInv, PaymentsTypeOK
<1>2. /\ pc[r] = "send" /\ pc'[r] = "sending"
      /\ \A q \in Requests \ {r} : pc'[q] = pc[q]
      /\ pc' \in [Requests -> {"idle"} \cup Steps \cup Outcomes]
  BY <1>1 DEF Send, Goto, Steps
<1>3. /\ tx' = tx /\ balance' = balance
      /\ kind' = kind /\ hash' = hash /\ maker' = maker
      /\ lndFee' = lndFee /\ published' = published
      /\ sendLock = Null /\ sendLock' = r
  BY DEF Send, ledgerVars, requestVars, Acquire
<1>4. calls[h] = 0 /\ StatusOf(h) = "pending" /\ HasRow(Payment(h))
  BY <1>h, <1>2, RowFacts DEF PaymentsInv, Owned, Owning, StatusOf, HasRow
<1>5. /\ calls' \in [Hashes -> Nat]
      /\ calls'[h] = 1
      /\ \A g \in Hashes \ {h} : calls'[g] = calls[g]
  BY <1>h, <1>4 DEF Send, PaymentsInv, PaymentsTypeOK
<1>6. /\ lndPay' \in [Hashes -> NodeStates]
      /\ \A g \in Hashes \ {h} : lndPay'[g] = lndPay[g]
  BY <1>h DEF Send, PaymentsInv, PaymentsTypeOK, NodeStates
<1>7. \A q \in Requests \ {r} : pc[q] \in Owning => hash[q] # h
  BY <1>h, <1>2 DEF PaymentsInv, Owned, Owning
<1>8. \A q \in Requests : hash[q] \in Hashes
  BY DEF PaymentsInv, PaymentsTypeOK
<1>9. lndPay[h] = "none"
  BY <1>4 DEF PaymentsInv, NodeFollows
<1>10. PaymentsTypeOK'
  BY <1>2, <1>3, <1>5, <1>6 DEF PaymentsInv, PaymentsTypeOK, LedgerTypeOK
<1>11. Owned'
  BY <1>2, <1>3, <1>4, <1>5, <1>7, <1>8, <1>h DEF PaymentsInv, Owned, Owning, StatusOf
<1>12. NodeFollows'
  BY <1>2, <1>3, <1>4, <1>5, <1>6, <1>7, <1>8, <1>h
  DEF PaymentsInv, NodeFollows, Owning, HasRow
<1>13. StatusTruthful' /\ PublishedSound'
  BY <1>3, <1>4, <1>6 DEF PaymentsInv, StatusTruthful, PublishedSound, StatusOf
<1>14. Published'
  BY <1>2, <1>3 DEF PaymentsInv, Published, StatusOf
<1>15. AnswerHonest'
  BY <1>2, <1>3, <1>6, <1>8, <1>9, <1>h DEF PaymentsInv, AnswerHonest, Row, HasRow, StatusOf
<1>16. LockHeld'
  BY <1>2, <1>3, RequestsAssumption DEF PaymentsInv, LockHeld
<1>17. BalanceExact'
  BY <1>3 DEF PaymentsInv, BalanceExact, Worth
<1>18. FeesBooked'
  BY <1>3 DEF PaymentsInv, FeesBooked, StatusOf
<1> QED
  BY <1>10, <1>11, <1>12, <1>13, <1>14, <1>15, <1>16, <1>17, <1>18 DEF PaymentsInv

(* The owner of a pending row writes the node's verdict into it.           *)
LEMMA SettleSound ==
    ASSUME PaymentsInv, NEW r \in Requests, NEW h \in Hashes, h = hash[r],
           NEW status \in {"succeeded", "failed"}, NEW fee \in Nat \cup {Null},
           NEW to,
           \/ status = "succeeded" /\ pc[r] = "saveSucceeded" /\ to = "publish"
           \/ status = "failed" /\ pc[r] = "saveFailed" /\ to = "paymentFailed",
           pc' = [pc EXCEPT ![r] = to],
           Store(Payment(h), [status |-> status, fee |-> fee]),
           status = "succeeded" => fee = FeeSats(lndFee[h]),
           UNCHANGED <<requestVars, sendLock, lndVars, published>>
    PROVE  PaymentsInv'
<1>1. pc \in [Requests -> {"idle"} \cup Steps \cup Outcomes]
  BY DEF PaymentsInv, PaymentsTypeOK
<1> DEFINE row == [status |-> status, fee |-> fee]
<1>2. row \in Rows /\ row.status = status
  BY DEF Rows, TxStatuses
<1>3. StatusOf(h) = "pending" /\ lndPay[h] = status /\ calls[h] = 1
  BY DEF PaymentsInv, Owned, Owning, NodeFollows
<1>4. /\ LedgerTypeOK'
      /\ BalanceExact'
      /\ StatusOf(h)' = status
      /\ tx'[Payment(h)].fee = fee
      /\ HasRow(Payment(h))'
      /\ \A g \in Hashes \ {h} :
            /\ tx'[Payment(g)] = tx[Payment(g)]
            /\ StatusOf(g)' = StatusOf(g)
            /\ HasRow(Payment(g))' <=> HasRow(Payment(g))
  BY <1>2, <1>3, PaymentStored DEF StatusOf
<1>5. /\ kind' = kind /\ hash' = hash /\ maker' = maker
      /\ sendLock' = sendLock
      /\ lndPay' = lndPay /\ lndFee' = lndFee /\ calls' = calls
      /\ published' = published
  BY DEF requestVars, lndVars
<1>6. /\ pc'[r] = to
      /\ \A q \in Requests \ {r} : pc'[q] = pc[q]
      /\ pc' \in [Requests -> {"idle"} \cup Steps \cup Outcomes]
  BY <1>1 DEF Steps, Outcomes
<1>7. \A q \in Requests \ {r} : pc[q] \in Owning => hash[q] # h
  BY DEF PaymentsInv, Owned, Owning
<1>8. \A q \in Requests : hash[q] \in Hashes
  BY DEF PaymentsInv, PaymentsTypeOK
<1>9. published[h] = 0 /\ \A q \in Requests : pc[q] \in {"publish", "ok"} => hash[q] # h
  <2>1. published[h] \in Nat /\ published[h] <= 1 /\ published[h] # 1
    BY <1>3 DEF PaymentsInv, PaymentsTypeOK, PublishedSound
  <2>2. \A q \in Requests : pc[q] = "publish" => hash[q] # h
    BY <1>3 DEF PaymentsInv, Published
  <2>3. \A q \in Requests : pc[q] = "ok" => hash[q] # h
    BY <1>3 DEF PaymentsInv, AnswerHonest
  <2> QED
    BY <2>1, <2>2, <2>3
<1>10. PaymentsTypeOK'
  BY <1>4, <1>5, <1>6 DEF PaymentsInv, PaymentsTypeOK
<1>11. Owned'
  BY <1>4, <1>5, <1>6, <1>7, <1>8 DEF PaymentsInv, Owned, Owning
<1>12. NodeFollows'
  BY <1>4, <1>5, <1>6 DEF PaymentsInv, NodeFollows
<1>13. StatusTruthful' /\ PublishedSound'
  BY <1>3, <1>4, <1>5, <1>9 DEF PaymentsInv, StatusTruthful, PublishedSound
<1>14. Published'
  BY <1>3, <1>4, <1>5, <1>6, <1>8, <1>9 DEF PaymentsInv, Published
<1>15. AnswerHonest'
  BY <1>3, <1>4, <1>5, <1>6, <1>8, <1>9 DEF PaymentsInv, AnswerHonest, Row
<1>16. LockHeld'
  BY <1>5, <1>6 DEF PaymentsInv, LockHeld
<1>17. FeesBooked'
  BY <1>4, <1>5 DEF PaymentsInv, FeesBooked
<1> QED
  BY <1>4, <1>10, <1>11, <1>12, <1>13, <1>14, <1>15, <1>16, <1>17 DEF PaymentsInv

(* The conversion of a fee keeps it a natural number, or keeps it absent.  *)
LEMMA FeeSatsType ==
    ASSUME NEW msat \in FeesMsat \cup {Null}
    PROVE  FeeSats(msat) \in Nat \cup {Null}
<1>1. msat \in Nat \cup {Null}
  BY FeesAssumption
<1>2. msat \in Nat => msat \div 1000 \in Nat
  OBVIOUS
<1> QED
  BY <1>1, <1>2 DEF FeeSats

(* Both updates after a verdict write that verdict.                        *)
LEMMA SaveSteps ==
    ASSUME PaymentsInv, NEW r \in Requests, SaveFailed(r) \/ SaveSucceeded(r)
    PROVE  PaymentsInv'
<1>h. PICK h \in Hashes : h = hash[r]
  BY DEF PaymentsInv, PaymentsTypeOK
<1>1. tx[Payment(h)].fee \in Nat \cup {Null}
  BY KeyFacts, RowFacts DEF PaymentsInv, PaymentsTypeOK, LedgerTypeOK
<1>2. FeeSats(lndFee[h]) \in Nat \cup {Null}
  BY FeeSatsType DEF PaymentsInv, PaymentsTypeOK
<1>3. CASE SaveSucceeded(r)
  <2> DEFINE fee == IF FeeSats(lndFee[h]) = Null THEN tx[Payment(h)].fee
                                                 ELSE FeeSats(lndFee[h])
  <2>1. PICK f \in Nat \cup {Null} : f = fee
    BY <1>1, <1>2
  <2>2. Store(Payment(h), [status |-> "succeeded", fee |-> f])
    BY <1>h, <1>3, <2>1 DEF SaveSucceeded, UpdateStatus, Row
  <2>3. /\ pc[r] = "saveSucceeded" /\ pc' = [pc EXCEPT ![r] = "publish"]
        /\ UNCHANGED <<requestVars, sendLock, lndVars, published>>
    BY <1>3 DEF SaveSucceeded, Goto
  <2>4. tx[Payment(h)].fee = Null
    BY <1>h, <2>3 DEF PaymentsInv, Owned, Owning, FeesBooked
  <2> QED
    BY <1>h, <2>1, <2>2, <2>3, <2>4, SettleSound
<1>4. CASE SaveFailed(r)
  <2>1. /\ pc[r] = "saveFailed" /\ pc' = [pc EXCEPT ![r] = "paymentFailed"]
        /\ UNCHANGED <<requestVars, sendLock, lndVars, published>>
    BY <1>4 DEF SaveFailed, Goto
  <2>2. PICK f \in Nat \cup {Null} : f = tx[Payment(h)].fee
    BY <1>1
  <2>3. Store(Payment(h), [status |-> "failed", fee |-> f])
    BY <1>h, <1>4, <2>2 DEF SaveFailed, UpdateStatus, Row
  <2> QED
    BY <1>h, <2>1, <2>3, SettleSound
<1> QED
  BY <1>3, <1>4

(* Only the request that saved a success announces it.                     *)
LEMMA PublishStep ==
    ASSUME PaymentsInv, NEW r \in Requests, PublishSuccess(r)
    PROVE  PaymentsInv'
<1>1. pc \in [Requests -> {"idle"} \cup Steps \cup Outcomes]
  BY DEF PaymentsInv, PaymentsTypeOK
<1>h. PICK h \in Hashes : h = hash[r]
  BY DEF PaymentsInv, PaymentsTypeOK
<1>2. /\ pc[r] = "publish" /\ pc'[r] = "ok"
      /\ \A q \in Requests \ {r} : pc'[q] = pc[q]
      /\ pc' \in [Requests -> {"idle"} \cup Steps \cup Outcomes]
  BY <1>1 DEF PublishSuccess, Goto, Outcomes
<1>3. /\ tx' = tx /\ balance' = balance
      /\ kind' = kind /\ hash' = hash /\ maker' = maker
      /\ lndPay' = lndPay /\ lndFee' = lndFee /\ calls' = calls
      /\ sendLock' = sendLock
  BY DEF PublishSuccess, ledgerVars, requestVars, lndVars
<1>4. published[h] = 0 /\ StatusOf(h) = "succeeded"
  BY <1>h, <1>2 DEF PaymentsInv, Published
<1>5. /\ published' \in [Hashes -> Nat]
      /\ published'[h] = 1
      /\ \A g \in Hashes \ {h} : published'[g] = published[g]
  BY <1>h, <1>4 DEF PublishSuccess, PaymentsInv, PaymentsTypeOK
<1>6. \A q \in Requests \ {r} : pc[q] \in {"publish", "ok"} => hash[q] # h
  BY <1>h, <1>2 DEF PaymentsInv, Published
<1>7. \A q \in Requests : hash[q] \in Hashes
  BY DEF PaymentsInv, PaymentsTypeOK
<1>8. PaymentsTypeOK'
  BY <1>2, <1>3, <1>5 DEF PaymentsInv, PaymentsTypeOK, LedgerTypeOK
<1>9. Owned'
  BY <1>2, <1>3 DEF PaymentsInv, Owned, Owning, StatusOf
<1>10. NodeFollows'
  BY <1>2, <1>3 DEF PaymentsInv, NodeFollows, HasRow
<1>11. StatusTruthful' /\ PublishedSound'
  BY <1>3, <1>4, <1>5 DEF PaymentsInv, StatusTruthful, PublishedSound, StatusOf
<1>12. Published'
  BY <1>2, <1>3, <1>5, <1>6, <1>7, <1>h DEF PaymentsInv, Published, StatusOf
<1>13. AnswerHonest'
  BY <1>2, <1>3, <1>4, <1>5, <1>6, <1>7, <1>h DEF PaymentsInv, AnswerHonest, StatusOf, HasRow, Row
<1>14. LockHeld'
  BY <1>2, <1>3 DEF PaymentsInv, LockHeld
<1>15. BalanceExact'
  BY <1>3 DEF PaymentsInv, BalanceExact, Worth
<1>16. FeesBooked'
  BY <1>3 DEF PaymentsInv, FeesBooked, StatusOf
<1> QED
  BY <1>8, <1>9, <1>10, <1>11, <1>12, <1>13, <1>14, <1>15, <1>16 DEF PaymentsInv

(* The node's verdict on a payment under way contradicts no row: the row   *)
(* is pending.                                                             *)
LEMMA ResolveStep ==
    ASSUME PaymentsInv, NEW h \in Hashes, Resolve(h)
    PROVE  PaymentsInv'
<1>1. /\ tx' = tx /\ balance' = balance /\ pc' = pc
      /\ kind' = kind /\ hash' = hash /\ maker' = maker
      /\ sendLock' = sendLock /\ calls' = calls
      /\ published' = published
  BY DEF Resolve, LndSucceed, LndFail, ledgerVars, requestVars
<1>2. /\ lndPay[h] = "inflight"
      /\ lndPay'[h] # "none"
      /\ lndPay' \in [Hashes -> NodeStates]
      /\ \A g \in Hashes \ {h} : lndPay'[g] = lndPay[g]
      /\ lndFee' \in [Hashes -> FeesMsat \cup {Null}]
      /\ \A g \in Hashes \ {h} : lndFee'[g] = lndFee[g]
  BY DEF Resolve, LndSucceed, LndFail, NodeStates, PaymentsInv, PaymentsTypeOK
<1>3. \A r \in Requests : hash[r] \in Hashes
  BY DEF PaymentsInv, PaymentsTypeOK
<1>4. PaymentsTypeOK'
  BY <1>1, <1>2 DEF PaymentsInv, PaymentsTypeOK, LedgerTypeOK
<1>5. Owned' /\ Published' /\ PublishedSound' /\ LockHeld' /\ BalanceExact'
  BY <1>1 DEF PaymentsInv, Owned, Published, PublishedSound, LockHeld, BalanceExact,
              StatusOf, Worth
<1>6. NodeFollows' /\ StatusTruthful' /\ AnswerHonest'
  BY <1>1, <1>2, <1>3 DEF PaymentsInv, NodeFollows, StatusTruthful, AnswerHonest,
                          StatusOf, HasRow, Row
<1>7. FeesBooked'
  <2>1. StatusOf(h) # "succeeded"
    BY <1>2 DEF PaymentsInv, StatusTruthful
  <2> QED
    BY <1>1, <1>2, <2>1 DEF PaymentsInv, FeesBooked, StatusOf
<1> QED
  BY <1>4, <1>5, <1>6, <1>7 DEF PaymentsInv

(* A restart leaves rows and payments as they are, and frees the Mutex.    *)
LEMMA CrashStep == PaymentsInv /\ RequestsCrash => PaymentsInv'
<1> SUFFICES ASSUME PaymentsInv, RequestsCrash PROVE PaymentsInv'
  OBVIOUS
<1>1. /\ tx' = tx /\ balance' = balance
      /\ kind' = kind /\ hash' = hash /\ maker' = maker
      /\ lndPay' = lndPay /\ lndFee' = lndFee /\ calls' = calls
      /\ published' = published /\ sendLock' = Null
  BY DEF RequestsCrash, ledgerVars, requestVars, lndVars, Release
<1>2. /\ pc' \in [Requests -> {"idle"} \cup Steps \cup Outcomes]
      /\ \A r \in Requests : pc'[r] = pc[r] \/ pc'[r] = "dropped"
      /\ \A r \in Requests : pc'[r] \notin Steps
  BY DEF RequestsCrash, PaymentsInv, PaymentsTypeOK, Steps, Outcomes
<1>3. PaymentsTypeOK'
  BY <1>1, <1>2 DEF PaymentsInv, PaymentsTypeOK, LedgerTypeOK
<1>4. Owned' /\ Published' /\ PublishedSound' /\ BalanceExact' /\ StatusTruthful'
  BY <1>1, <1>2 DEF PaymentsInv, Owned, Owning, Steps, Published, PublishedSound,
                    BalanceExact, StatusTruthful, StatusOf, Worth
<1>5. NodeFollows' /\ AnswerHonest'
  BY <1>1, <1>2 DEF PaymentsInv, NodeFollows, AnswerHonest, StatusOf, HasRow, Row, Steps
<1>6. LockHeld'
  BY <1>1, <1>2, RequestsAssumption DEF LockHeld, Steps
<1>7. FeesBooked'
  BY <1>1 DEF PaymentsInv, FeesBooked, StatusOf
<1> QED
  BY <1>3, <1>4, <1>5, <1>6, <1>7 DEF PaymentsInv

(* The invariant is about the state only.                                  *)
LEMMA StutterStep == PaymentsInv /\ UNCHANGED paymentsVars => PaymentsInv'
BY DEF PaymentsInv, paymentsVars, paymentsOwn, requestVars, lndVars,
       PaymentsTypeOK, LedgerTypeOK, Owned, NodeFollows, StatusTruthful,
       Published, PublishedSound, AnswerHonest, LockHeld, BalanceExact,
       FeesBooked, StatusOf, HasRow, Row, Worth

(* Every action is one of the steps above.                                 *)
LEMMA NextInv == PaymentsInv /\ [PaymentsNext]_paymentsVars => PaymentsInv'
<1> SUFFICES ASSUME PaymentsInv, [PaymentsNext]_paymentsVars PROVE PaymentsInv'
  OBVIOUS
<1>1. ASSUME NEW r \in Requests, Arrive(r) \/ RequestProceeds(r) \/ RequestFault(r) PROVE PaymentsInv'
  BY <1>1, QuietSteps, InsertStep, SendStep, SaveSteps, PublishStep
  DEF Arrive, RequestProceeds, RequestFault
<1>2. ASSUME NEW h \in Hashes, Resolve(h) PROVE PaymentsInv'
  BY <1>2, ResolveStep
<1> QED
  BY <1>1, <1>2, CrashStep, StutterStep DEF PaymentsNext, Finished

-----------------------------------------------------------------------------

(* Under every fault the payment path keeps its inductive invariant.       *)
THEOREM Invariance == PaymentsSpec => []PaymentsInv
<1> QED
  BY InitInv, NextInv, PTL DEF PaymentsSpec

(* Every variable keeps its type.                                          *)
THEOREM TypeCorrect == PaymentsSpec => []PaymentsTypeOK
<1>1. PaymentsInv => PaymentsTypeOK
  BY DEF PaymentsInv
<1> QED
  BY <1>1, Invariance, PTL

(* LND is called at most once for an invoice, however many requests ask    *)
(* for it, through whichever entry point, whatever fails.                  *)
THEOREM PaysOnce == PaymentsSpec => []NoDoublePay
<1>1. PaymentsInv => NoDoublePay
  <2> SUFFICES ASSUME PaymentsInv, NEW h \in Hashes PROVE calls[h] <= 1
    BY DEF NoDoublePay
  <2>1. calls[h] = 0 \/ calls[h] = 1
    BY DEF PaymentsInv, NodeFollows
  <2> QED
    BY <2>1
<1> QED
  BY <1>1, Invariance, PTL

(* LND is never called for an invoice the database has no row of.          *)
THEOREM RecordsFirst == PaymentsSpec => []RecordBeforeSend
<1>1. PaymentsInv => RecordBeforeSend
  BY DEF PaymentsInv, NodeFollows, RecordBeforeSend
<1> QED
  BY <1>1, Invariance, PTL

(* A row says succeeded or failed only when the node has said so.          *)
THEOREM TruthfulRows == PaymentsSpec => []StatusTruthful
<1>1. PaymentsInv => StatusTruthful
  BY DEF PaymentsInv
<1> QED
  BY <1>1, Invariance, PTL

(* No client is told what is not so, and at most one is told it paid.      *)
THEOREM HonestAnswers == PaymentsSpec => []AnswerHonest
<1>1. PaymentsInv => AnswerHonest
  BY DEF PaymentsInv
<1> QED
  BY <1>1, Invariance, PTL

(* The trigger counts every succeeded payment once, with its fee.          *)
THEOREM ExactBalance == PaymentsSpec => []BalanceExact
<1>1. PaymentsInv => BalanceExact
  BY DEF PaymentsInv
<1> QED
  BY <1>1, Invariance, PTL

(* The Mutex is held by exactly the request that is inside a call.         *)
THEOREM NoLeakedLock == PaymentsSpec => []LockHeld
<1>1. PaymentsInv => LockHeld
  BY DEF PaymentsInv
<1> QED
  BY <1>1, Invariance, PTL

(* The success of a payment is broadcast at most once, and only when its   *)
(* row says so.                                                            *)
THEOREM AnnouncedOnce == PaymentsSpec => []PublishedSound
<1>1. PaymentsInv => PublishedSound
  BY DEF PaymentsInv
<1> QED
  BY <1>1, Invariance, PTL

(* What is booked is never more than what was charged, and less than two   *)
(* sats short of it: the amount and the fee are each cut to whole sats.    *)
THEOREM BooksAgree == PaymentsSpec => []BooksMatchNode
<1>1. PaymentsInv => BooksMatchNode
  <2> SUFFICES ASSUME PaymentsInv, NEW h \in Hashes,
                      StatusOf(h) = "succeeded", lndFee[h] # Null
               PROVE  LET charged == AmountMsat[h] + lndFee[h]
                          booked  == 1000 * balance[Payment(h)]
                      IN  booked <= charged /\ charged < booked + 2000
    BY DEF BooksMatchNode
  <2>1. PICK msat \in Nat : msat = lndFee[h]
    BY FeesAssumption DEF PaymentsInv, PaymentsTypeOK
  <2>2. PICK sats \in Nat : sats = msat \div 1000
    OBVIOUS
  <2>3. tx[Payment(h)].fee = sats /\ sats # Null
    BY <2>1, <2>2, NullAssumption DEF PaymentsInv, FeesBooked, FeeSats
  <2>4. PICK asked \in Nat : asked = AmountMsat[h]
    BY AmountAssumption
  <2>5. PICK amount \in Nat : amount = asked \div 1000
    OBVIOUS
  <2>6. AmountSats(h) = amount
    BY <2>4, <2>5 DEF AmountSats
  <2>7. balance[Payment(h)] = amount + sats
    BY <2>3, <2>6, KeyFacts DEF PaymentsInv, BalanceExact, Worth, StatusOf, Payment
  <2>8. 1000 * sats <= msat /\ msat < 1000 * sats + 1000
    BY <2>2
  <2>9. 1000 * amount <= asked /\ asked < 1000 * amount + 1000
    BY <2>5
  <2> QED
    BY <2>1, <2>4, <2>7, <2>8, <2>9
<1> QED
  BY <1>1, Invariance, PTL

-----------------------------------------------------------------------------
(***************************************************************************)
(* The payment path implements PayOnce, and no step of it touches a final  *)
(* row.  Both come down to what each step does to the rows.                *)
(***************************************************************************)

(* A step that touches neither the rows nor the node nor the channel is a  *)
(* stutter of PayOnce.                                                     *)
LEMMA QuietStutters ==
    UNCHANGED <<ledgerVars, lndPay, calls, published>> => UNCHANGED Abstract!vars
BY DEF ledgerVars, Abstract!vars, StatusOf

(* The abstract record is a function, updated where a row is stored.       *)
LEMMA RecordUpdate ==
    ASSUME PaymentsInv, NEW h \in Hashes, NEW row \in Rows, Store(Payment(h), row),
           tx[Payment(h)].status # "succeeded"
    PROVE  [g \in Hashes |-> StatusOf(g)]' =
               [[g \in Hashes |-> StatusOf(g)] EXCEPT ![h] = row.status]
BY PaymentStored

(* Each action is one of PayOnce, or nothing that PayOnce can see.         *)
LEMMA AbstractStep == PaymentsInv /\ [PaymentsNext]_paymentsVars => [Abstract!Next]_(Abstract!vars)
<1> SUFFICES ASSUME PaymentsInv, [PaymentsNext]_paymentsVars
             PROVE  Abstract!Next \/ UNCHANGED Abstract!vars
  OBVIOUS
<1> USE DEF Abstract!Next
<1>1. ASSUME NEW r \in Requests, InsertPending(r) PROVE Abstract!Next
  <2>h. PICK h \in Hashes : h = hash[r]
    BY DEF PaymentsInv, PaymentsTypeOK
  <2>1. Store(Payment(h), [status |-> "pending", fee |-> Null])
    BY <1>1, <2>h DEF InsertPending, Insert, Row
  <2>2. StatusOf(h) = "none"
    BY <1>1, <2>h DEF InsertPending, Insert, CanInsert, HasRow, Row, StatusOf, NoRow
  <2>3. [status |-> "pending", fee |-> Null] \in Rows
    BY DEF Rows, TxStatuses
  <2>4. [g \in Hashes |-> StatusOf(g)]' =
            [[g \in Hashes |-> StatusOf(g)] EXCEPT ![h] = "pending"]
    BY <2>1, <2>2, <2>3, RecordUpdate DEF StatusOf
  <2>5. UNCHANGED <<lndPay, calls, published>>
    BY <1>1 DEF InsertPending, lndVars
  <2> QED
    BY <2>2, <2>4, <2>5 DEF Abstract!Accept
<1>2. ASSUME NEW r \in Requests, Send(r) PROVE Abstract!Next
  <2>h. PICK h \in Hashes : h = hash[r]
    BY DEF PaymentsInv, PaymentsTypeOK
  <2>1. StatusOf(h) = "pending" /\ calls[h] = 0
    BY <1>2, <2>h DEF Send, Goto, PaymentsInv, Owned, Owning
  <2>2. /\ calls' = [calls EXCEPT ![h] = 1]
        /\ lndPay' \in {lndPay, [lndPay EXCEPT ![h] = "inflight"]}
        /\ UNCHANGED <<ledgerVars, published>>
    BY <1>2, <2>h, <2>1 DEF Send
  <2> QED
    BY <2>1, <2>2 DEF Abstract!Dispatch, ledgerVars, StatusOf
<1>3. ASSUME NEW h \in Hashes, Resolve(h) PROVE Abstract!Next
  BY <1>3 DEF Resolve, LndSucceed, LndFail, Abstract!Resolve, ledgerVars, StatusOf
<1>4. ASSUME NEW r \in Requests, NEW status \in {"succeeded", "failed"},
             NEW f, pc[r] = IF status = "succeeded" THEN "saveSucceeded" ELSE "saveFailed",
             UpdateStatus(Row(r), status, f),
             f \in Nat \cup {Null},
             UNCHANGED <<lndVars, published>>
      PROVE  Abstract!Next
  <2>h. PICK h \in Hashes : h = hash[r]
    BY DEF PaymentsInv, PaymentsTypeOK
  <2>1. StatusOf(h) = "pending" /\ lndPay[h] = status
    BY <1>4, <2>h DEF PaymentsInv, Owned, Owning, NodeFollows
  <2>2. PICK fee \in Nat \cup {Null} :
            Store(Payment(h), [status |-> status, fee |-> fee])
    BY <1>4, <2>h, KeyFacts, RowFacts DEF UpdateStatus, Row, PaymentsInv, PaymentsTypeOK, LedgerTypeOK
  <2>3. [status |-> status, fee |-> fee] \in Rows
    BY DEF Rows, TxStatuses
  <2>4. [g \in Hashes |-> StatusOf(g)]' =
            [[g \in Hashes |-> StatusOf(g)] EXCEPT ![h] = status]
    BY <2>1, <2>2, <2>3, RecordUpdate DEF StatusOf
  <2> QED
    BY <1>4, <2>1, <2>4 DEF Abstract!Settle, lndVars
<1>5. ASSUME NEW r \in Requests, SaveFailed(r) PROVE Abstract!Next
  BY <1>4, <1>5 DEF SaveFailed, Goto
<1>6. ASSUME NEW r \in Requests, SaveSucceeded(r) PROVE Abstract!Next
  <2>1. FeeSats(lndFee[hash[r]]) \in Nat \cup {Null}
    BY FeeSatsType DEF PaymentsInv, PaymentsTypeOK
  <2> QED
    BY <1>4, <1>6, <2>1 DEF SaveSucceeded, Goto
<1>7. ASSUME NEW r \in Requests, PublishSuccess(r) PROVE Abstract!Next
  <2>h. PICK h \in Hashes : h = hash[r]
    BY DEF PaymentsInv, PaymentsTypeOK
  <2>1. StatusOf(h) = "succeeded" /\ published[h] = 0
    BY <1>7, <2>h DEF PublishSuccess, Goto, PaymentsInv, Published
  <2>2. published' = [published EXCEPT ![h] = 1] /\ UNCHANGED <<ledgerVars, lndPay, calls>>
    BY <1>7, <2>h, <2>1 DEF PublishSuccess, lndVars
  <2> QED
    BY <2>1, <2>2 DEF Abstract!Announce, ledgerVars, StatusOf
<1>8. ASSUME NEW r \in Requests,
             \/ Arrive(r) \/ RequestFault(r)
             \/ DecodeLock(r) \/ Decode(r) \/ DecodeFail(r) \/ Check(r)
             \/ InsertRefused(r) \/ SendRefused(r) \/ RecvSuccess(r) \/ RecvFailure(r)
      PROVE  UNCHANGED Abstract!vars
  <2>1. UNCHANGED <<ledgerVars, lndVars, published>>
    BY <1>8 DEF Arrive, Submit, RejectEmpty, RequestFault, AnswerLost, SaveFailedIgnored,
                DbError, Drop,
                DecodeLock, Decode, DecodeFail, Check, InsertRefused,
                SendRefused, RecvSuccess, RecvFailure
  <2> QED
    BY <2>1, QuietStutters DEF lndVars
<1>9. CASE RequestsCrash \/ UNCHANGED paymentsVars
  BY <1>9, QuietStutters DEF RequestsCrash, paymentsVars, paymentsOwn, ledgerVars, lndVars
<1> QED
  BY <1>1, <1>2, <1>3, <1>5, <1>6, <1>7, <1>8, <1>9 DEF PaymentsNext, RequestProceeds, Finished

(* Every behaviour of the payment path is one of PayOnce.                  *)
THEOREM Refinement == PaymentsSpec => ImplementsPayOnce
<1>1. PaymentsInit => Abstract!Init
  BY KeyFacts DEF PaymentsInit, LedgerInit, StatusOf, NoRow, Abstract!Init
<1> QED
  BY <1>1, AbstractStep, Invariance, PTL DEF PaymentsSpec, ImplementsPayOnce, Abstract!Spec

(* A step that writes a row finds it absent or pending.                    *)
LEMMA FinalStep == PaymentsInv /\ [PaymentsNext]_paymentsVars => [TerminalFinal]_paymentsVars
<1> SUFFICES ASSUME PaymentsInv, PaymentsNext, ~UNCHANGED paymentsVars,
                    NEW k \in Keys,
                    tx[k].status \in {"succeeded", "failed", "expired"}
             PROVE  tx'[k] = tx[k]
  BY DEF TerminalFinal
<1> DEFINE written(r, row) == tx' = [tx EXCEPT ![Row(r)] = row]
<1>1. ASSUME NEW r \in Requests, NEW row, written(r, row),
             StatusOf(hash[r]) \in {"none", "pending"}
      PROVE  tx'[k] = tx[k]
  <2>1. k # Row(r)
    BY <1>1 DEF StatusOf, Row
  <2> QED
    BY <1>1, <2>1 DEF PaymentsInv, PaymentsTypeOK, LedgerTypeOK
<1>2. ASSUME NEW r \in Requests, InsertPending(r) PROVE tx'[k] = tx[k]
  <2>1. StatusOf(hash[r]) = "none"
    BY <1>2 DEF InsertPending, Insert, CanInsert, HasRow, Row, StatusOf, NoRow
  <2> QED
    BY <1>1, <1>2, <2>1 DEF InsertPending, Insert, Store
<1>3. ASSUME NEW r \in Requests, SaveFailed(r) \/ SaveSucceeded(r) PROVE tx'[k] = tx[k]
  <2>1. StatusOf(hash[r]) = "pending"
    BY <1>3 DEF SaveFailed, SaveSucceeded, Goto, PaymentsInv, Owned, Owning
  <2> QED
    BY <1>1, <1>3, <2>1 DEF SaveFailed, SaveSucceeded, UpdateStatus, Store, ledgerVars
<1>4. ASSUME NEW r \in Requests,
             \/ Arrive(r) \/ RequestFault(r) \/ Send(r) \/ PublishSuccess(r)
             \/ DecodeLock(r) \/ Decode(r) \/ DecodeFail(r) \/ Check(r)
             \/ InsertRefused(r) \/ SendRefused(r) \/ RecvSuccess(r) \/ RecvFailure(r)
      PROVE  tx' = tx
  BY <1>4 DEF Arrive, Submit, RejectEmpty, RequestFault, AnswerLost, SaveFailedIgnored,
                DbError, Drop,
              Send, PublishSuccess, DecodeLock, Decode, DecodeFail, Check,
              InsertRefused, SendRefused, RecvSuccess, RecvFailure, ledgerVars
<1>5. ASSUME NEW h \in Hashes, Resolve(h) PROVE tx' = tx
  BY <1>5 DEF Resolve, LndSucceed, LndFail, ledgerVars
<1>6. CASE RequestsCrash
  BY <1>6 DEF RequestsCrash, ledgerVars
<1> QED
  BY <1>2, <1>3, <1>4, <1>5, <1>6 DEF PaymentsNext, RequestProceeds, Finished

(* No step of the payment path rewrites or removes a final row.            *)
THEOREM FinalRows == PaymentsSpec => PaymentRowsFinal
<1> QED
  BY FinalStep, Invariance, PTL DEF PaymentsSpec, PaymentRowsFinal
=============================================================================
