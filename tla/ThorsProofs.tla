---------------------------- MODULE ThorsProofs -----------------------------
(***************************************************************************)
(* The two writing paths together: each keeps the invariant of the other,  *)
(* because their rows have keys of their own, and what the readers see of  *)
(* both implements Commits.                                                *)
(***************************************************************************)
EXTENDS Thors, PaymentsProofs, InvoicesProofs, ListingProofs

BothInv == PaymentsInv /\ InvoicesInv

(* What the steps of one path change of the rows of the other: nothing.    *)
InvoiceRowsKept == \A h \in Hashes : tx'[Invoice(h)] = tx[Invoice(h)]

PaymentRowsKept == \A h \in Hashes : tx'[Payment(h)] = tx[Payment(h)]

(* The payment path writes payment rows.                                   *)
LEMMA PaymentWrites ==
    ASSUME PaymentsInv, [PaymentsNext]_paymentsVars
    PROVE  InvoiceRowsKept
<1>1. ASSUME NEW r \in Requests, NEW row, tx' = [tx EXCEPT ![Row(r)] = row]
      PROVE  InvoiceRowsKept
  <2>1. \A h \in Hashes : Row(r) # Invoice(h) /\ Invoice(h) \in Keys
    BY KeyFacts DEF Row, PaymentsInv, PaymentsTypeOK
  <2> QED
    BY <1>1, <2>1 DEF InvoiceRowsKept, PaymentsInv, PaymentsTypeOK, LedgerTypeOK
<1>2. ASSUME NEW r \in Requests, InsertPending(r) \/ SaveFailed(r) \/ SaveSucceeded(r)
      PROVE  InvoiceRowsKept
  <2>1. \E row : tx' = [tx EXCEPT ![Row(r)] = row]
    BY <1>2 DEF InsertPending, SaveFailed, SaveSucceeded, Insert, UpdateStatus, Store
  <2> QED
    BY <1>1, <2>1
<1>3. tx' = tx => InvoiceRowsKept
  BY DEF InvoiceRowsKept
<1>4. ASSUME NEW r \in Requests,
             \/ Arrive(r) \/ RequestFault(r) \/ Send(r) \/ PublishSuccess(r)
             \/ DecodeLock(r) \/ Decode(r) \/ DecodeFail(r) \/ Check(r)
             \/ InsertRefused(r) \/ SendRefused(r) \/ RecvSuccess(r) \/ RecvFailure(r)
      PROVE  tx' = tx
  BY <1>4 DEF Arrive, Submit, RejectEmpty,
              RequestFault, AnswerLost, SaveFailedIgnored, DbError, Drop,
              Send, PublishSuccess, DecodeLock, Decode, DecodeFail, Check,
              InsertRefused, SendRefused, RecvSuccess, RecvFailure, ledgerVars
<1>5. ASSUME NEW h \in Hashes, Resolve(h) PROVE tx' = tx
  BY <1>5 DEF Resolve, LndSucceed, LndFail, ledgerVars
<1>6. CASE RequestsCrash \/ UNCHANGED paymentsVars
  BY <1>3, <1>6 DEF RequestsCrash, ledgerVars, paymentsVars
<1> QED
  BY <1>2, <1>3, <1>4, <1>5, <1>6 DEF PaymentsNext, RequestProceeds, Finished

(* The invoice path writes invoice rows.                                   *)
LEMMA InvoiceWrites ==
    ASSUME InvoicesInv, [InvoicesNext]_invoicesVars
    PROVE  PaymentRowsKept
<1>1. ASSUME NEW e \in Reports, NEW s, Upsert(Invoice(e.hash), s)
      PROVE  PaymentRowsKept
  <2>1. \A h \in Hashes : Invoice(e.hash) # Payment(h) /\ Payment(h) \in Keys
    BY KeyFacts DEF Reports
  <2> QED
    BY <1>1, <2>1 DEF PaymentRowsKept, InvoicesInv, InvoicesTypeOK, LedgerTypeOK,
                      Upsert, Store, ledgerVars
<1>2. tx' = tx => PaymentRowsKept
  BY DEF PaymentRowsKept
<1>3. ASSUME NEW e \in batch, SyncOne(e) PROVE PaymentRowsKept
  <2>1. e \in Reports
    BY DEF InvoicesInv, InvoicesTypeOK
  <2> QED
    BY <1>1, <1>2, <1>3, <2>1 DEF SyncOne, ledgerVars
<1>4. CASE HandleEvent \/ HandleFails
  <2>1. PICK e \in Reports : e = Head(stream)
    BY <1>4, HeadFacts DEF HandleEvent, HandleFails
  <2>2. Upsert(Invoice(e.hash), StatusFor(e.state)) \/ tx' = tx
    BY <1>4, <2>1 DEF HandleEvent, HandleFails, ledgerVars
  <2> QED
    BY <1>1, <1>2, <2>2
<1>5. ASSUME \/ \E h \in Hashes : Node(h)
             \/ Boot \/ ListInvoices \/ SyncDone \/ Subscribe \/ PublishChange \/ Retry
             \/ ListFails \/ SubscribeFails \/ StreamEnds \/ TaskCrashes
             \/ UNCHANGED invoicesVars
      PROVE  tx' = tx
  BY <1>5 DEF Node, CreateInvoice, Accept, Settle, Cancel, Change, Boot, ListInvoices,
              SyncDone, Subscribe, PublishChange, Retry, ListFails, SubscribeFails,
              StreamEnds, TaskCrashes, ledgerVars, invoicesVars
<1> QED
  BY <1>2, <1>3, <1>4, <1>5 DEF InvoicesNext, TaskProceeds, TaskFault, Quiet

(* The invariant of the invoice path is about its own state, its own rows  *)
(* and tables that are well typed and in balance.                          *)
LEMMA InvoicesFrame ==
    ASSUME InvoicesInv, LedgerTypeOK', BalanceExact',
           InvoiceRowsKept, UNCHANGED invoicesOwn
    PROVE  InvoicesInv'
<1>1. /\ lndInv' = lndInv /\ phase' = phase /\ batch' = batch /\ stream' = stream
      /\ toSend' = toSend /\ events' = events /\ lost' = lost
  BY DEF invoicesOwn
<1>2. \A h \in Hashes : InvoiceStatus(h)' = InvoiceStatus(h)
  BY DEF InvoiceRowsKept, InvoiceStatus
<1>3. InvoicesTypeOK' /\ Staged'
  BY <1>1 DEF InvoicesInv, InvoicesTypeOK, Staged, Subscribed
<1>4. NeverAhead'
  BY <1>1, <1>2 DEF InvoicesInv, NeverAhead
<1>5. Said'
  <2>1. Said
    BY OutlookSays DEF InvoicesInv
  <2> QED
    BY <1>1, <1>2, <2>1 DEF Said, Says, Coming, Mirror
<1>6. \A e \in Reports : Sound(e) => Sound(e)'
  BY <1>1, <1>2 DEF Sound, Reports
<1>7. BatchSound'
  BY <1>1, <1>6 DEF InvoicesInv, InvoicesTypeOK, BatchSound
<1>8. StreamSound'
  BY <1>1, <1>6, QueueFacts DEF InvoicesInv, StreamSound, Sound
<1>9. ToSendSound'
  BY <1>1, <1>2 DEF InvoicesInv, InvoicesTypeOK, ToSendSound, Events
<1>10. EventsOrdered'
  BY <1>1 DEF InvoicesInv, EventsOrdered
<1>11. EventsRecorded'
  BY <1>1, QueueFacts DEF InvoicesInv, EventsRecorded, InvoiceRowsKept, InvoiceStatus,
                          HasRow, Events
<1> QED
  BY <1>3, <1>4, <1>5, <1>7, <1>8, <1>9, <1>10, <1>11, OutlookSaysNext DEF InvoicesInv

(* And that of the payment path likewise.                                  *)
LEMMA PaymentsFrame ==
    ASSUME PaymentsInv, LedgerTypeOK', BalanceExact',
           PaymentRowsKept, UNCHANGED paymentsOwn
    PROVE  PaymentsInv'
<1>1. /\ pc' = pc /\ kind' = kind /\ hash' = hash /\ maker' = maker
      /\ sendLock' = sendLock
      /\ lndPay' = lndPay /\ lndFee' = lndFee /\ calls' = calls /\ published' = published
  BY DEF paymentsOwn, requestVars, lndVars
<1>2. \A h \in Hashes : StatusOf(h)' = StatusOf(h) /\ (HasRow(Payment(h))' <=> HasRow(Payment(h)))
  BY DEF PaymentRowsKept, StatusOf, HasRow
<1>3. \A r \in Requests : hash[r] \in Hashes
  BY DEF PaymentsInv, PaymentsTypeOK
<1>4. PaymentsTypeOK' /\ LockHeld'
  BY <1>1 DEF PaymentsInv, PaymentsTypeOK, LockHeld
<1>5. Owned' /\ Published' /\ PublishedSound' /\ StatusTruthful'
  BY <1>1, <1>2, <1>3 DEF PaymentsInv, Owned, Published, PublishedSound, StatusTruthful
<1>6. NodeFollows'
  BY <1>1, <1>2, <1>3 DEF PaymentsInv, NodeFollows
<1>7. AnswerHonest'
  BY <1>1, <1>2, <1>3 DEF PaymentsInv, AnswerHonest, Row
<1>8. FeesBooked'
  BY <1>1, <1>2 DEF PaymentsInv, FeesBooked, PaymentRowsKept
<1> QED
  BY <1>4, <1>5, <1>6, <1>7, <1>8 DEF PaymentsInv

(* A step of the whole is a step of one path that leaves the other's state *)
(* alone, or leaves the tables alone and is a step of both, or none.       *)
LEMMA StepKinds ==
    ASSUME [Next]_vars
    PROVE  \/ [PaymentsNext]_paymentsVars /\ UNCHANGED invoicesOwn
           \/ [InvoicesNext]_invoicesVars /\ UNCHANGED paymentsOwn
           \/ [PaymentsNext]_paymentsVars /\ [InvoicesNext]_invoicesVars
<1>1. CASE PaymentStep
  BY <1>1 DEF PaymentStep, PaymentsNext
<1>2. CASE InvoiceStep
  BY <1>2 DEF InvoiceStep, InvoicesNext
<1>3. CASE Crash
  <2>1. UNCHANGED ledgerVars
    BY <1>3 DEF Crash, TaskCrashes
  <2> QED
    BY <1>3, <2>1 DEF Crash, PaymentsNext, InvoicesNext, paymentsVars, ledgerVars
<1>4. CASE Read \/ UNCHANGED vars
  BY <1>4 DEF Read, vars, paymentsVars, invoicesVars, ledgerVars
<1>5. CASE Finished /\ Quiet
  BY <1>5 DEF PaymentsNext, InvoicesNext
<1> QED
  BY <1>1, <1>2, <1>3, <1>4, <1>5 DEF Next

(* Together the paths keep both invariants, and rewrite no final row.      *)
LEMMA BothKeep == BothInv /\ [Next]_vars => BothInv' /\ TerminalFinal
<1> SUFFICES ASSUME BothInv, [Next]_vars
             PROVE  BothInv' /\ TerminalFinal
  OBVIOUS
<1>1. ASSUME [PaymentsNext]_paymentsVars PROVE PaymentsInv' /\ InvoiceRowsKept /\ TerminalFinal
  <2>1. UNCHANGED paymentsVars => TerminalFinal
    BY DEF TerminalFinal, paymentsVars
  <2> QED
    BY <1>1, <2>1, NextInv, PaymentWrites, FinalStep DEF BothInv
<1>2. ASSUME [InvoicesNext]_invoicesVars PROVE InvoicesInv' /\ PaymentRowsKept /\ TerminalFinal
  BY <1>2, NextKeeps, InvoiceWrites DEF BothInv
<1>3. CASE [PaymentsNext]_paymentsVars /\ UNCHANGED invoicesOwn
  <2>1. LedgerTypeOK' /\ BalanceExact'
    BY <1>1, <1>3 DEF PaymentsInv, PaymentsTypeOK
  <2> QED
    BY <1>1, <1>3, <2>1, InvoicesFrame DEF BothInv
<1>4. CASE [InvoicesNext]_invoicesVars /\ UNCHANGED paymentsOwn
  <2>1. LedgerTypeOK' /\ BalanceExact'
    BY <1>2, <1>4 DEF InvoicesInv, InvoicesTypeOK
  <2> QED
    BY <1>2, <1>4, <2>1, PaymentsFrame DEF BothInv
<1>5. CASE [PaymentsNext]_paymentsVars /\ [InvoicesNext]_invoicesVars
  BY <1>1, <1>2, <1>5 DEF BothInv
<1> QED
  BY <1>3, <1>4, <1>5, StepKinds

(* What each path keeps by itself it keeps in the server, where requests   *)
(* and the background task take turns on one ledger and die together.      *)
THEOREM BothInvariants == Spec => [](PaymentsInv /\ InvoicesInv)
<1>1. Init => BothInv
  BY InitInv, InvoicesInitially DEF Init, BothInv
<1>2. BothInv /\ [Next]_vars => BothInv'
  BY BothKeep
<1>3. BothInv => PaymentsInv /\ InvoicesInv
  BY DEF BothInv
<1> QED
  BY <1>1, <1>2, <1>3, PTL DEF Spec

-----------------------------------------------------------------------------
(***************************************************************************)
(* The refinement of Commits.                                              *)
(***************************************************************************)

Recorded == [k \in Keys |-> tx[k].status]

Sender(h) == \E r \in Requests : pc[r] = "publish" /\ hash[r] = h

(* The outbox of an invoice is in the task, that of a payment in a request.*)
LEMMA OutboxFacts ==
    /\ DOMAIN Outbox = Keys /\ Outbox = [k \in Keys |-> Outbox[k]]
    /\ \A h \in Hashes :
        /\ Outbox[Invoice(h)] =
            IF toSend # Null /\ toSend.hash = h THEN toSend.status ELSE "none"
        /\ Outbox[Payment(h)] = IF Sender(h) THEN "succeeded" ELSE "none"
<1>1. \A h \in Hashes : Invoice(h) \in Keys /\ Payment(h) \in Keys
  BY KeyFacts
<1> QED
  BY <1>1 DEF Outbox, Sender, Invoice, Payment

(* The keys are the transactions of Commits.                               *)
LEMMA TxsFacts ==
    /\ Committed!Txs = Keys
    /\ \A k \in Keys : \E h \in Hashes : k = Invoice(h) \/ k = Payment(h)
    /\ \A h \in Hashes :
        /\ Invoice(h) \in {Invoice(g) : g \in Hashes}
        /\ Invoice(h) \notin {Payment(g) : g \in Hashes}
        /\ Payment(h) \in {Payment(g) : g \in Hashes}
        /\ Payment(h) \notin {Invoice(g) : g \in Hashes}
<1>1. \A k \in Keys : \E h \in Hashes : k = Invoice(h) \/ k = Payment(h)
  BY DEF Keys, TxTypes, Invoice, Payment
<1> QED
  BY <1>1, KeyFacts DEF Committed!Txs

(* The statuses a row may get, in Commits.                                 *)
LEMMA NextFacts ==
    ASSUME NEW h \in Hashes
    PROVE  /\ tx[Invoice(h)].status = "none" =>
                Committed!NextStatuses(Invoice(h)) = {"pending", "succeeded", "expired"}
           /\ tx[Invoice(h)].status = "pending" =>
                Committed!NextStatuses(Invoice(h)) = {"succeeded", "expired"}
           /\ tx[Payment(h)].status = "none" =>
                Committed!NextStatuses(Payment(h)) = {"pending"}
           /\ tx[Payment(h)].status = "pending" =>
                Committed!NextStatuses(Payment(h)) = {"succeeded", "failed"}
BY TxsFacts, KeyFacts DEF Committed!NextStatuses

(* A row that is written changes its own record only.                      *)
LEMMA RecordedStore ==
    ASSUME LedgerTypeOK, NEW k \in Keys, NEW row, Store(k, row)
    PROVE  Recorded' = [Recorded EXCEPT ![k] = row.status]
BY DEF Recorded, Store, LedgerTypeOK

(* A step that writes nothing and takes no event along is a stutter.       *)
LEMMA CommitsStutter ==
    ASSUME tx' = tx, toSend' = toSend, \A h \in Hashes : Sender(h)' <=> Sender(h)
    PROVE  UNCHANGED Committed!commitVars
<1>1. Outbox' = Outbox
  <2> SUFFICES ASSUME NEW k \in Keys
               PROVE  Outbox'[k] = Outbox[k]
    BY DEF Outbox
  <2>1. k[2] \in Hashes
    BY KeyFacts
  <2> QED
    BY <2>1 DEF Outbox, Sender
<1> QED
  BY <1>1 DEF Committed!commitVars

(* The events of one payment come and go with its sender.                  *)
LEMMA SenderMoves ==
    ASSUME NEW h \in Hashes, toSend' = toSend,
           \A g \in Hashes \ {h} : Sender(g)' <=> Sender(g)
    PROVE  Outbox' = [Outbox EXCEPT ![Payment(h)] =
                        IF Sender(h)' THEN "succeeded" ELSE "none"]
<1>1. Outbox = [k \in Keys |-> Outbox[k]] /\ Outbox' = [k \in Keys |-> Outbox'[k]]
  BY DEF Outbox
<1>2. ASSUME NEW g \in Hashes
      PROVE  /\ Outbox'[Invoice(g)] = Outbox[Invoice(g)]
             /\ Outbox[Payment(g)] = IF Sender(g) THEN "succeeded" ELSE "none"
             /\ Outbox'[Payment(g)] = IF Sender(g)' THEN "succeeded" ELSE "none"
  BY KeyFacts DEF Outbox, Sender, Invoice, Payment
<1>3. ASSUME NEW k \in Keys
      PROVE  Outbox'[k] = [Outbox EXCEPT ![Payment(h)] =
                            IF Sender(h)' THEN "succeeded" ELSE "none"][k]
  <2>1. PICK g \in Hashes : k = Invoice(g) \/ k = Payment(g)
    BY TxsFacts
  <2>2. CASE k = Payment(h)
    BY <1>1, <1>2, <2>2, KeyFacts
  <2>3. CASE k = Payment(g) /\ g # h
    BY <1>1, <1>2, <2>3, KeyFacts
  <2>4. CASE k = Invoice(g)
    BY <1>1, <1>2, <2>4, KeyFacts
  <2> QED
    BY <2>1, <2>2, <2>3, <2>4
<1> QED
  BY <1>1, <1>3

(* The event of an invoice comes and goes with toSend.                     *)
LEMMA ToSendMoves ==
    ASSUME NEW h \in Hashes, NEW s,
           UNCHANGED paymentsOwn,
           \/ toSend = Null /\ toSend' # Null /\ toSend'.hash = h /\ toSend'.status = s
           \/ toSend # Null /\ toSend.hash = h /\ toSend' = Null /\ s = "none"
    PROVE  Outbox' = [Outbox EXCEPT ![Invoice(h)] = s]
<1>1. Outbox = [k \in Keys |-> Outbox[k]] /\ Outbox' = [k \in Keys |-> Outbox'[k]]
  BY DEF Outbox
<1>2. ASSUME NEW g \in Hashes
      PROVE  /\ Outbox'[Payment(g)] = Outbox[Payment(g)]
             /\ Outbox[Invoice(g)] =
                    IF toSend # Null /\ toSend.hash = g THEN toSend.status ELSE "none"
             /\ Outbox'[Invoice(g)] =
                    IF toSend' # Null /\ toSend'.hash = g THEN toSend'.status ELSE "none"
  BY KeyFacts DEF Outbox, Invoice, Payment, paymentsOwn, requestVars
<1>3. ASSUME NEW k \in Keys
      PROVE  Outbox'[k] = [Outbox EXCEPT ![Invoice(h)] = s][k]
  <2>1. PICK g \in Hashes : k = Invoice(g) \/ k = Payment(g)
    BY TxsFacts
  <2>2. CASE k = Invoice(h)
    BY <1>1, <1>2, <2>2, KeyFacts
  <2>3. CASE k = Invoice(g) /\ g # h
    BY <1>1, <1>2, <2>3, KeyFacts
  <2>4. CASE k = Payment(g)
    BY <1>1, <1>2, <2>4, KeyFacts
  <2> QED
    BY <2>1, <2>2, <2>3, <2>4
<1> QED
  BY <1>1, <1>3

(* When a row may be written in Commits: no event of it, or of any invoice *)
(* if it is one, is still on its way.                                      *)
LEMMA WritableFacts ==
    ASSUME NEW h \in Hashes
    PROVE  /\ ~ Sender(h) => Committed!Writable(Payment(h))
           /\ toSend = Null => Committed!Writable(Invoice(h))
BY OutboxFacts, TxsFacts DEF Committed!Writable

(* A request writes its row, or sends its event, or does neither.          *)
LEMMA PaymentCommits ==
    ASSUME PaymentsInv, UNCHANGED invoicesOwn, NEW r \in Requests,
           Arrive(r) \/ RequestProceeds(r) \/ RequestFault(r)
    PROVE  Committed!CommitsNext \/ UNCHANGED Committed!commitVars
<1>h. PICK h \in Hashes : h = hash[r]
  BY DEF PaymentsInv, PaymentsTypeOK
<1>1. /\ toSend' = toSend /\ hash' = hash
      /\ Row(r) = Payment(h) /\ Payment(h) \in Keys /\ Payment(h) \in Committed!Txs
      /\ LedgerTypeOK
      /\ pc \in [Requests -> {"idle"} \cup Steps \cup Outcomes]
      /\ \A q \in Requests : hash[q] \in Hashes
  BY <1>h, KeyFacts, TxsFacts
  DEF invoicesOwn, Row, PaymentsInv, PaymentsTypeOK, Arrive, Submit, RejectEmpty,
      RequestProceeds, DecodeLock, Decode, DecodeFail, Check, InsertPending, InsertRefused,
      Send, SendRefused, RecvSuccess, RecvFailure, SaveFailed, SaveSucceeded,
      PublishSuccess, RequestFault, AnswerLost, SaveFailedIgnored, DbError, Drop,
      requestVars
<1>2. ASSUME NEW to, pc' = [pc EXCEPT ![r] = to]
      PROVE  /\ \A g \in Hashes \ {h} : Sender(g)' <=> Sender(g)
             /\ pc[r] # "publish" /\ to # "publish" => (Sender(h)' <=> Sender(h))
             /\ to = "publish" => Sender(h)'
             /\ pc[r] = "publish" /\ to # "publish" => Sender(h) /\ ~ Sender(h)'
  BY <1>h, <1>1, <1>2 DEF Sender, PaymentsInv, Published
<1>3. ASSUME tx' = tx, NEW to, pc' = [pc EXCEPT ![r] = to], to # "publish"
      PROVE  Committed!CommitsNext \/ UNCHANGED Committed!commitVars
  <2>1. CASE pc[r] # "publish"
    BY <1>1, <1>2, <1>3, <2>1, CommitsStutter
  <2>2. CASE pc[r] = "publish"
    <3>1. Outbox' = [Outbox EXCEPT ![Payment(h)] = "none"]
      BY <1>1, <1>2, <1>3, <2>2, SenderMoves
    <3>2. Outbox[Payment(h)] # "none"
      BY <1>2, <1>3, <2>2, OutboxFacts
    <3> QED
      BY <1>1, <1>3, <3>1, <3>2 DEF Committed!CommitsNext, Committed!TakeEvent
  <2> QED
    BY <2>1, <2>2
<1>4. ASSUME NEW status \in {"pending", "failed"}, NEW row, row.status = status,
             Store(Payment(h), row), NEW to, pc' = [pc EXCEPT ![r] = to],
             to # "publish", pc[r] # "publish",
             \/ StatusOf(h) = "none" /\ status = "pending"
             \/ StatusOf(h) = "pending" /\ status = "failed"
      PROVE  Committed!CommitsNext
  <2>1. ~ Sender(h)
    BY <1>4 DEF Sender, PaymentsInv, Published
  <2>2. Outbox' = [Outbox EXCEPT ![Payment(h)] = "none"]
    BY <1>1, <1>2, <1>4, <2>1, SenderMoves
  <2>3. Outbox' = Outbox
    BY <2>1, <2>2, OutboxFacts, <1>1
  <2>4. Recorded' = [Recorded EXCEPT ![Payment(h)] = status]
    BY <1>1, <1>4, RecordedStore
  <2>5. status \in Committed!NextStatuses(Payment(h)) /\ ~ Committed!Announced(Payment(h), status)
    BY <1>4, NextFacts, TxsFacts DEF StatusOf, Committed!Announced
  <2>6. Committed!CommitSilent(Payment(h))
    BY <2>1, <2>3, <2>4, <2>5, WritableFacts DEF Committed!CommitSilent, Recorded
  <2> QED
    BY <1>1, <2>6 DEF Committed!CommitsNext
<1>5. CASE InsertPending(r)
  <2>1. StatusOf(h) = "none" /\ Store(Payment(h), [status |-> "pending", fee |-> Null])
    BY <1>1, <1>5, RowFacts DEF InsertPending, Insert, CanInsert, HasRow, StatusOf
  <2> QED
    BY <1>4, <1>5, <2>1 DEF InsertPending, Goto
<1>6. CASE SaveFailed(r)
  <2>1. StatusOf(h) = "pending" /\ pc[r] = "saveFailed"
    BY <1>h, <1>6 DEF SaveFailed, Goto, PaymentsInv, Owned, Owning
  <2> QED
    BY <1>1, <1>4, <1>6, <2>1 DEF SaveFailed, Goto, UpdateStatus
<1>7. CASE SaveSucceeded(r)
  <2>1. StatusOf(h) = "pending" /\ pc[r] = "saveSucceeded" /\ pc' = [pc EXCEPT ![r] = "publish"]
    BY <1>h, <1>7 DEF SaveSucceeded, Goto, PaymentsInv, Owned, Owning
  <2>2. PICK row : row.status = "succeeded" /\ Store(Payment(h), row)
    BY <1>1, <1>7 DEF SaveSucceeded, UpdateStatus
  <2>3. ~ Sender(h)
    BY <2>1 DEF Sender, PaymentsInv, Published
  <2>4. Outbox' = [Outbox EXCEPT ![Payment(h)] = "succeeded"]
    BY <1>1, <1>2, <2>1, SenderMoves
  <2>5. Recorded' = [Recorded EXCEPT ![Payment(h)] = "succeeded"]
    BY <1>1, <2>2, RecordedStore
  <2>6. "succeeded" \in Committed!NextStatuses(Payment(h)) /\ Committed!Announced(Payment(h), "succeeded")
    BY <2>1, NextFacts DEF StatusOf, Committed!Announced
  <2>7. Committed!CommitAnnounced(Payment(h))
    BY <2>3, <2>4, <2>5, <2>6, WritableFacts DEF Committed!CommitAnnounced, Recorded
  <2> QED
    BY <1>1, <2>7 DEF Committed!CommitsNext
<1>8. CASE \/ Arrive(r) \/ RequestFault(r) \/ Send(r) \/ PublishSuccess(r)
           \/ DecodeLock(r) \/ Decode(r) \/ DecodeFail(r) \/ Check(r)
           \/ InsertRefused(r) \/ SendRefused(r) \/ RecvSuccess(r) \/ RecvFailure(r)
  <2>1. tx' = tx
    BY <1>8 DEF Arrive, Submit, RejectEmpty,
                RequestFault, AnswerLost, SaveFailedIgnored, DbError, Drop,
                Send, PublishSuccess, DecodeLock, Decode, DecodeFail, Check,
                InsertRefused, SendRefused, RecvSuccess, RecvFailure, ledgerVars
  <2>2. \E to : pc' = [pc EXCEPT ![r] = to] /\ to # "publish"
    BY <1>8 DEF Arrive, Submit, RejectEmpty,
                RequestFault, AnswerLost, SaveFailedIgnored, DbError, Drop,
                Send, PublishSuccess, DecodeLock, Decode, DecodeFail, Check,
                InsertRefused, SendRefused, RecvSuccess, RecvFailure, Goto
  <2> QED
    BY <1>3, <2>1, <2>2
<1> QED
  BY <1>5, <1>6, <1>7, <1>8 DEF RequestProceeds

(* The task writes a row that it has no event of on its way: whether one   *)
(* is to follow, the caller says.                                          *)
LEMMA UpsertCommits ==
    ASSUME InvoicesInv, UNCHANGED paymentsOwn,
           NEW e \in Reports, Sound(e), toSend = Null,
           Upsert(Invoice(e.hash), StatusFor(e.state)),
           \/ toSend' = Null
           \/ /\ ~ UpToDate(Invoice(e.hash), StatusFor(e.state))
              /\ toSend' = [hash |-> e.hash, status |-> StatusFor(e.state)]
    PROVE  Committed!CommitsNext \/ UNCHANGED Committed!commitVars
<1> DEFINE h == e.hash
           k == Invoice(h)
           s == StatusFor(e.state)
<1>1. /\ h \in Hashes /\ k \in Keys /\ k \in Committed!Txs
      /\ LedgerTypeOK /\ e.state \in InvoiceStates
      /\ s \in {"pending", "succeeded", "expired"}
  BY KeyFacts, TxsFacts, StatusFacts DEF Reports, InvoicesInv, InvoicesTypeOK
<1>2. \A g \in Hashes : Sender(g)' <=> Sender(g)
  BY DEF Sender, paymentsOwn, requestVars
<1>3. CASE UpToDate(k, s)
  <2>1. tx' = tx
    BY <1>3 DEF Upsert, ledgerVars
  <2> QED
    BY <1>2, <1>3, <2>1, CommitsStutter
<1>4. CASE ~ UpToDate(k, s)
  <2>1. InvoiceStatus(h) # s /\ InvoiceStatus(h) \in {"none", "pending"}
    <3>1. InvoiceStatus(h) # s
      BY <1>1, <1>4, RowStatus DEF UpToDate, InvoiceStatus
    <3>2. InvoiceStatus(h) \notin Final
      BY <3>1 DEF Sound
    <3>3. InvoiceStatus(h) # "none" => InvoiceStatus(h) \in {"pending", StatusFor(lndInv[h])}
      BY <1>1 DEF InvoicesInv, NeverAhead
    <3>4. lndInv[h] \in InvoiceStates
      BY <1>1, StatusFacts DEF Sound, InvoicesInv, InvoicesTypeOK
    <3> QED
      BY <3>1, <3>2, <3>3, <3>4, StatusFacts DEF Final
  <2>2. s \in Committed!NextStatuses(k) /\ Committed!Announced(k, s)
    BY <1>1, <2>1, NextFacts, TxsFacts DEF InvoiceStatus, Committed!Announced
  <2>3. Store(k, [status |-> s, fee |-> tx[k].fee])
    BY <1>4 DEF Upsert
  <2>4. Recorded' = [Recorded EXCEPT ![k] = s]
    BY <1>1, <2>3, RecordedStore
  <2>5. Committed!Writable(k)
    BY <1>1, WritableFacts
  <2>6. CASE toSend' = Null
    <3>1. Outbox' = Outbox
      BY <2>6 DEF Outbox, paymentsOwn, requestVars
    <3>2. Committed!CommitUnheard(k)
      BY <2>2, <2>4, <2>5, <3>1 DEF Committed!CommitUnheard, Recorded
    <3> QED
      BY <1>1, <3>2 DEF Committed!CommitsNext
  <2>7. CASE toSend' = [hash |-> h, status |-> s]
    <3>1. toSend' \in Events
      BY <1>1, <2>7 DEF Events, TxStatuses
    <3>2. toSend' # Null /\ toSend'.hash = h /\ toSend'.status = s
      BY <2>7, <3>1, NoEventAssumption
    <3>3. Outbox' = [Outbox EXCEPT ![k] = s]
      BY <1>1, <3>2, ToSendMoves
    <3>4. Committed!CommitAnnounced(k)
      BY <2>2, <2>4, <2>5, <3>3 DEF Committed!CommitAnnounced, Recorded
    <3> QED
      BY <1>1, <3>4 DEF Committed!CommitsNext
  <2> QED
    BY <2>6, <2>7
<1> QED
  BY <1>3, <1>4

(* The task writes a row, or sends its event, or does neither.             *)
LEMMA InvoiceCommits ==
    ASSUME InvoicesInv, UNCHANGED paymentsOwn,
           (\E h \in Hashes : Node(h)) \/ TaskProceeds \/ TaskFault
    PROVE  Committed!CommitsNext \/ UNCHANGED Committed!commitVars
<1>1. \A g \in Hashes : Sender(g)' <=> Sender(g)
  BY DEF Sender, paymentsOwn, requestVars
<1>2. tx' = tx /\ toSend' = toSend => UNCHANGED Committed!commitVars
  BY <1>1, CommitsStutter
<1>3. CASE \/ \E h \in Hashes : Node(h)
           \/ Boot \/ ListInvoices \/ SyncDone \/ Subscribe \/ Retry
           \/ ListFails \/ SubscribeFails \/ StreamEnds
  <2>1. tx' = tx /\ toSend' = toSend
    BY <1>3 DEF Node, CreateInvoice, Accept, Settle, Cancel, Change, Boot, ListInvoices,
                SyncDone, Subscribe, Retry, ListFails, SubscribeFails, StreamEnds, ledgerVars
  <2> QED
    BY <1>2, <2>1
<1>4. ASSUME NEW e \in batch, SyncOne(e)
      PROVE  Committed!CommitsNext \/ UNCHANGED Committed!commitVars
  <2>1. e \in Reports /\ Sound(e) /\ toSend = Null /\ toSend' = Null
    BY <1>4 DEF SyncOne, InvoicesInv, InvoicesTypeOK, BatchSound, Staged
  <2>2. CASE Upsert(Invoice(e.hash), StatusFor(e.state))
    BY <2>1, <2>2, UpsertCommits
  <2>3. CASE UNCHANGED ledgerVars
    BY <1>2, <2>1, <2>3 DEF ledgerVars
  <2> QED
    BY <1>4, <2>2, <2>3 DEF SyncOne
<1>5. CASE HandleEvent \/ HandleFails
  <2>1. phase = "stream" /\ stream # <<>> /\ toSend = Null
    BY <1>5 DEF HandleEvent, HandleFails, InvoicesInv, Staged
  <2>2. PICK e \in Reports : e = Head(stream) /\ Sound(e)
    BY <2>1, HeadFacts
  <2>3. \/ tx' = tx /\ toSend' = Null
        \/ /\ Upsert(Invoice(e.hash), StatusFor(e.state))
           /\ \/ toSend' = Null
              \/ /\ ~ UpToDate(Invoice(e.hash), StatusFor(e.state))
                 /\ toSend' = [hash |-> e.hash, status |-> StatusFor(e.state)]
    BY <1>5, <2>1, <2>2 DEF HandleEvent, HandleFails, ledgerVars
  <2> QED
    BY <1>2, <2>1, <2>2, <2>3, UpsertCommits
<1>6. CASE PublishChange
  <2>1. /\ toSend # Null /\ toSend \in Events /\ toSend' = Null /\ tx' = tx
    BY <1>6 DEF PublishChange, InvoicesInv, InvoicesTypeOK, Staged, ledgerVars
  <2>2. PICK h \in Hashes : h = toSend.hash
    BY <2>1 DEF Events
  <2>3. Outbox' = [Outbox EXCEPT ![Invoice(h)] = "none"]
    BY <2>1, <2>2, ToSendMoves
  <2>4. Outbox[Invoice(h)] # "none"
    BY <2>1, <2>2, OutboxFacts DEF Events, TxStatuses
  <2>5. Committed!TakeEvent(Invoice(h))
    BY <2>1, <2>3, <2>4 DEF Committed!TakeEvent
  <2>6. Invoice(h) \in Committed!Txs
    BY KeyFacts, TxsFacts
  <2> QED
    BY <2>5, <2>6 DEF Committed!CommitsNext
<1> QED
  BY <1>3, <1>4, <1>5, <1>6 DEF TaskProceeds, TaskFault

(* The death of the process takes every event that is on its way.          *)
LEMMA CrashCommits ==
    ASSUME Crash
    PROVE  Committed!CommitsNext
<1>1. tx' = tx /\ toSend' = Null
  BY DEF Crash, TaskCrashes, ledgerVars
<1>2. \A r \in Requests : pc'[r] # "publish"
  BY DEF Crash, RequestsCrash, Steps, paymentsOwn
<1>3. Outbox' = [k \in Keys |-> "none"]
  BY <1>1, <1>2 DEF Outbox
<1>4. Committed!LoseAll
  BY <1>1, <1>3, TxsFacts DEF Committed!LoseAll, Committed!Nothing
<1> QED
  BY <1>4 DEF Committed!CommitsNext

(* Every step of the server is a step of Commits, or none.                 *)
LEMMA CommitsStep ==
    BothInv /\ [Next]_vars => [Committed!CommitsNext]_(Committed!commitVars)
<1> SUFFICES ASSUME BothInv, [Next]_vars
             PROVE  Committed!CommitsNext \/ UNCHANGED Committed!commitVars
  OBVIOUS
<1>1. CASE PaymentStep
  <2>1. ASSUME NEW h \in Hashes, Resolve(h), UNCHANGED invoicesOwn
        PROVE  UNCHANGED Committed!commitVars
    <3>1. tx' = tx /\ toSend' = toSend /\ pc' = pc /\ hash' = hash
      BY <2>1 DEF Resolve, LndSucceed, LndFail, ledgerVars, requestVars, invoicesOwn
    <3> QED
      BY <3>1, CommitsStutter DEF Sender
  <2> QED
    BY <1>1, <2>1, PaymentCommits DEF PaymentStep, BothInv
<1>2. CASE InvoiceStep
  BY <1>2, InvoiceCommits DEF InvoiceStep, BothInv
<1>3. CASE Crash
  BY <1>3, CrashCommits
<1>4. CASE Read \/ UNCHANGED vars \/ (Finished /\ Quiet)
  <2>1. tx' = tx /\ toSend' = toSend /\ pc' = pc /\ hash' = hash
    BY <1>4 DEF Read, vars, ledgerVars, paymentsOwn, requestVars, invoicesOwn,
                Finished, Quiet, paymentsVars, invoicesVars
  <2> QED
    BY <2>1, CommitsStutter DEF Sender
<1> QED
  BY <1>1, <1>2, <1>3, <1>4 DEF Next

(* To the readers of the table and of the channel the server is what       *)
(* Commits takes it for, for any requests, invoices, fees and faults.      *)
THEOREM CommitsRefinement == Spec => ImplementsCommits
<1>1. Init => Committed!CommitsInit
  <2> SUFFICES ASSUME Init
               PROVE  Committed!CommitsInit
    OBVIOUS
  <2>1. Outbox = [k \in Keys |-> "none"]
    BY DEF Init, PaymentsInit, InvoicesInit, Outbox
  <2>2. Recorded = [k \in Keys |-> "none"]
    BY DEF Init, PaymentsInit, LedgerInit, NoRow, Recorded
  <2> QED
    BY <2>1, <2>2, TxsFacts DEF Committed!CommitsInit, Committed!Nothing, Recorded
<1>2. Spec => []BothInv
  BY BothInvariants, PTL DEF BothInv
<1> QED
  BY <1>1, <1>2, CommitsStep, PTL DEF Spec, ImplementsCommits, Committed!CommitsSpec

-----------------------------------------------------------------------------
(***************************************************************************)
(* The listing, over what the two paths write.                             *)
(***************************************************************************)

(* To the listing, a step of the server stores a row, or is one of its own.*)
LEMMA ListingMoves ==
    ASSUME [Next]_vars
    PROVE  UNCHANGED listingVars \/ (\E k \in Keys : Stored(k)) \/ Begin \/ NextPage
<1>1. CASE Listed
  BY <1>1 DEF Listed
<1>2. CASE Crash \/ Read \/ UNCHANGED vars
  BY <1>2 DEF Crash, Read, vars
<1> QED
  BY <1>1, <1>2 DEF Next

(* A client that pages through the transactions, while requests and the    *)
(* background task write to them and the process dies and comes back,      *)
(* misses none there was when it began, unless a page parted it from       *)
(* others of the same created_at; and it gets one twice only in the place  *)
(* of one that was so parted or has come since.                            *)
THEOREM CompleteWalk == Spec => []NoneSkipped
<1>1. Init => ListingInv
  BY ListingInitially DEF Init
<1>2. ListingInv /\ [Next]_vars => ListingInv'
  BY ListingMoves, ListingStutters, StoredKeeps, BeginKeeps, NextPageKeeps
<1> QED
  BY <1>1, <1>2, NoneSkippedHolds, PTL DEF Spec

(* A status that is final is final, whichever path, retry or restart of    *)
(* the server writes next.                                                 *)
THEOREM FinalStatuses == Spec => [][TerminalFinal]_vars
<1>1. Init => BothInv
  BY InitInv, InvoicesInitially DEF Init, BothInv
<1>2. BothInv /\ [Next]_vars => BothInv'
  BY BothKeep
<1>3. BothInv /\ [Next]_vars => TerminalFinal
  BY BothKeep
<1> QED
  BY <1>1, <1>2, <1>3, PTL DEF Spec
=============================================================================
