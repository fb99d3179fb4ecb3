------------------------------ MODULE Payments ------------------------------
(***************************************************************************)
(* The payment path: concurrent requests to pay a BOLT#11 invoice, through *)
(* POST /api/payment (pay_invoice, "rest") or through the Leptos server    *)
(* function of the web page (pay_invoice_fn, "fn").  Each request is one   *)
(* tokio task; a step is the code between two awaits.  The tasks share the *)
(* database (Ledger), the tokio Mutex around the client of the sending LND *)
(* node, and the broadcast channel.                                        *)
(***************************************************************************)
EXTENDS Ledger

CONSTANTS
    Requests,   \* the requests that may arrive, each handled once
    Kinds,      \* the entry points in use, a subset of {"rest", "fn"}
    FeesMsat    \* routing fees LND may charge; Null: an answer with no route

PaymentsFaultKinds ==
    {"db",      \* a database statement, or the wait for a connection, fails
     "rpc",     \* LND refuses a call, or its answer is lost
     "drop",    \* the HTTP client goes away, which drops the task
     "crash"}   \* the process dies; docker restarts it

ASSUME RequestsAssumption == Null \notin Requests

ASSUME KindsAssumption == Kinds \subseteq {"rest", "fn"}

ASSUME FeesAssumption == FeesMsat \subseteq Nat \cup {Null}

VARIABLES
    pc,         \* where each request stands: the step it runs next, or the
                \* answer it ended with
    kind,       \* the entry point each request comes through
    hash,       \* the payment hash of the invoice each request asks to pay
    sendLock,   \* the request that holds the Mutex of lnd_send, or Null
    lndPay,     \* the sending node: what it does about each payment
    lndFee,     \* the sending node: the fee in msat of each payment made
    calls,      \* SendPaymentSync calls made for each hash
    published,  \* PaymentSucceeded events broadcast for each hash
    maker       \* the request whose INSERT put the payment of each hash on
                \* record, or Null (history: only properties read it)

requestVars == <<kind, hash, maker>>
lndVars == <<lndPay, lndFee, calls>>
paymentsOwn == <<pc, requestVars, sendLock, lndVars, published>>
paymentsVars == <<tx, balance, paymentsOwn>>

(* Steps at which a request has a task that is waiting or about to run.    *)
Steps == {"decode", "decoding", "check", "insert", "send", "sending",
          "saveFailed", "saveSucceeded", "publish"}

(* How a request ends: the answer of the handler, or none.  "unmarked" is  *)
(* the answer "paymentFailed" over a row that could not be marked.         *)
Outcomes == {"ok", "badRequest", "duplicate", "uniqueViolation",
             "paymentFailed", "unmarked", "lndError", "dbError", "dropped"}

NodeStates == {"none", "inflight", "succeeded", "failed"}

PaymentsTypeOK ==
    /\ LedgerTypeOK
    /\ pc \in [Requests -> {"idle"} \cup Steps \cup Outcomes]
    /\ kind \in [Requests -> Kinds]
    /\ hash \in [Requests -> Hashes]
    /\ sendLock \in Requests \cup {Null}
    /\ lndPay \in [Hashes -> NodeStates]
    /\ lndFee \in [Hashes -> FeesMsat \cup {Null}]
    /\ calls \in [Hashes -> Nat]
    /\ published \in [Hashes -> Nat]
    /\ maker \in [Hashes -> Requests \cup {Null}]

PaymentsInit ==
    /\ LedgerInit
    /\ pc = [r \in Requests |-> "idle"]
    /\ kind \in [Requests -> Kinds]
    /\ hash \in [Requests -> Hashes]
    /\ sendLock = Null
    /\ lndPay = [h \in Hashes |-> "none"]
    /\ lndFee = [h \in Hashes |-> Null]
    /\ calls = [h \in Hashes |-> 0]
    /\ published = [h \in Hashes |-> 0]
    /\ maker = [h \in Hashes |-> Null]

-----------------------------------------------------------------------------

Row(r) == Payment(hash[r])

Goto(r, from, to) == pc[r] = from /\ pc' = [pc EXCEPT ![r] = to]

(* Mutant of ReleaseIfHeld: a dropped task keeps the Mutex.                *)
KeepIfHeld(r) == UNCHANGED sendLock

(* The guard of `client.lock().await` and the drop of its guard.  Every    *)
(* way out of the locked section drops it, the cancelled task included.    *)
Acquire(r) == sendLock = Null /\ sendLock' = r

Release == sendLock' = Null

ReleaseIfHeld(r) == sendLock' = IF sendLock = r THEN Null ELSE sendLock

(* Mutant of FeeSats: msat stored as sats.                                 *)
FeeSatsRaw(msat) == msat

(* total_fees_msat / 1000, and None when the answer has no route.          *)
FeeSats(msat) == IF msat = Null THEN Null ELSE msat \div 1000

Submit(r) ==
    /\ Goto(r, "idle", "decode")
    /\ UNCHANGED <<ledgerVars, requestVars, sendLock, lndVars, published>>

(* Only pay_invoice looks at an empty payment request itself.              *)
RejectEmpty(r) ==
    /\ kind[r] = "rest"
    /\ Goto(r, "idle", "badRequest")
    /\ UNCHANGED <<ledgerVars, requestVars, sendLock, lndVars, published>>

DecodeLock(r) ==
    /\ Goto(r, "decode", "decoding")
    /\ Acquire(r)
    /\ UNCHANGED <<ledgerVars, requestVars, lndVars, published>>

(* Mutant of Decode: pay_invoice_fn sends without an INSERT.               *)
DecodeThenSend(r) ==
    /\ Goto(r, "decoding", IF kind[r] = "rest" THEN "check" ELSE "send")
    /\ Release
    /\ UNCHANGED <<ledgerVars, requestVars, lndVars, published>>

(* pay_invoice goes on to look for a row, pay_invoice_fn inserts one.      *)
Decode(r) ==
    /\ Goto(r, "decoding", IF kind[r] = "rest" THEN "check" ELSE "insert")
    /\ Release
    /\ UNCHANGED <<ledgerVars, requestVars, lndVars, published>>

(* A malformed request, or a failed call.                                  *)
DecodeFail(r) ==
    /\ Goto(r, "decoding", "lndError")
    /\ Release
    /\ UNCHANGED <<ledgerVars, requestVars, lndVars, published>>

Check(r) ==
    /\ Goto(r, "check", IF HasRow(Row(r)) THEN "duplicate" ELSE "insert")
    /\ UNCHANGED <<ledgerVars, requestVars, sendLock, lndVars, published>>

InsertPending(r) ==
    /\ Goto(r, "insert", "send")
    /\ Insert(Row(r), "pending")
    /\ maker' = [maker EXCEPT ![hash[r]] = r]
    /\ UNCHANGED <<kind, hash, sendLock, lndVars, published>>

InsertRefused(r) ==
    /\ Goto(r, "insert", "uniqueViolation")
    /\ ~CanInsert(Row(r))
    /\ UNCHANGED <<ledgerVars, requestVars, sendLock, lndVars, published>>

(* The lock and the call: LND takes the payment on, or refuses it.         *)
Send(r) ==
    /\ Goto(r, "send", "sending")
    /\ Acquire(r)
    /\ calls' = [calls EXCEPT ![hash[r]] = @ + 1]
    /\ \/ lndPay' = [lndPay EXCEPT ![hash[r]] = "inflight"]
       \/ "rpc" \in Faults /\ lndPay' = lndPay
    /\ UNCHANGED <<ledgerVars, requestVars, lndFee, published>>

(* A gRPC error from a node that did not take the payment on.              *)
SendRefused(r) ==
    /\ lndPay[hash[r]] = "none"
    /\ Goto(r, "sending", "lndError")
    /\ Release
    /\ UNCHANGED <<ledgerVars, requestVars, lndVars, published>>

(* Mutants of AnswerLost: the payment is marked failed; the client is told *)
(* that it failed; the call is made again; the Mutex is kept.              *)
LostTo(r, to) ==
    /\ "rpc" \in Faults
    /\ lndPay[hash[r]] # "none"
    /\ Goto(r, "sending", to)
    /\ UNCHANGED <<ledgerVars, requestVars, lndVars, published>>

LostMarksFailed(r) == LostTo(r, "saveFailed") /\ Release

LostSaysFailed(r) == LostTo(r, "paymentFailed") /\ Release

LostRetries(r) == LostTo(r, "send") /\ Release

LostKeepsLock(r) == LostTo(r, "lndError") /\ UNCHANGED sendLock

(* A gRPC error while the node works on the payment or after it has.       *)
AnswerLost(r) ==
    /\ "rpc" \in Faults
    /\ lndPay[hash[r]] # "none"
    /\ Goto(r, "sending", "lndError")
    /\ Release
    /\ UNCHANGED <<ledgerVars, requestVars, lndVars, published>>

RecvSuccess(r) ==
    /\ lndPay[hash[r]] = "succeeded"
    /\ Goto(r, "sending", "saveSucceeded")
    /\ Release
    /\ UNCHANGED <<ledgerVars, requestVars, lndVars, published>>

(* Mutant of RecvFailure: pay_invoice returns without marking the row too. *)
RecvFailureUnmarked(r) ==
    /\ lndPay[hash[r]] = "failed"
    /\ Goto(r, "sending", "paymentFailed")
    /\ Release
    /\ UNCHANGED <<ledgerVars, requestVars, lndVars, published>>

(* payment_error is set: pay_invoice goes on to mark the row, and          *)
(* pay_invoice_fn returns.                                                 *)
RecvFailure(r) ==
    /\ lndPay[hash[r]] = "failed"
    /\ Goto(r, "sending", IF kind[r] = "rest" THEN "saveFailed" ELSE "paymentFailed")
    /\ Release
    /\ UNCHANGED <<ledgerVars, requestVars, lndVars, published>>

SaveFailed(r) ==
    /\ Goto(r, "saveFailed", "paymentFailed")
    /\ UpdateStatus(Row(r), "failed", Null)
    /\ UNCHANGED <<requestVars, sendLock, lndVars, published>>

(* The update fails, and its error is ignored.                             *)
SaveFailedIgnored(r) ==
    /\ "db" \in Faults
    /\ Goto(r, "saveFailed", "unmarked")
    /\ UNCHANGED <<ledgerVars, requestVars, sendLock, lndVars, published>>

(* Mutants of SaveSucceeded: the error of the update is ignored; the       *)
(* answer comes before the broadcast, which never runs.                    *)
SaveSucceededMaybe(r) ==
    /\ Goto(r, "saveSucceeded", "publish")
    /\ \/ UpdateStatus(Row(r), "succeeded", FeeSats(lndFee[hash[r]]))
       \/ "db" \in Faults /\ UNCHANGED ledgerVars
    /\ UNCHANGED <<requestVars, sendLock, lndVars, published>>

SaveSucceededSilently(r) ==
    /\ Goto(r, "saveSucceeded", "ok")
    /\ UpdateStatus(Row(r), "succeeded", FeeSats(lndFee[hash[r]]))
    /\ UNCHANGED <<requestVars, sendLock, lndVars, published>>

SaveSucceeded(r) ==
    /\ Goto(r, "saveSucceeded", "publish")
    /\ UpdateStatus(Row(r), "succeeded", FeeSats(lndFee[hash[r]]))
    /\ UNCHANGED <<requestVars, sendLock, lndVars, published>>

(* broadcast_tx.send, whose error is ignored, and the answer.              *)
PublishSuccess(r) ==
    /\ Goto(r, "publish", "ok")
    /\ published' = [published EXCEPT ![hash[r]] = @ + 1]
    /\ UNCHANGED <<ledgerVars, requestVars, sendLock, lndVars>>

-----------------------------------------------------------------------------
(***************************************************************************)
(* Faults.                                                                 *)
(***************************************************************************)

(* A statement fails: before it took effect, at "check", "insert" and      *)
(* "saveSucceeded", or after, its answer lost, at "send" and "publish".    *)
DbError(r) ==
    /\ "db" \in Faults
    /\ pc[r] \in {"check", "insert", "send", "saveSucceeded", "publish"}
    /\ pc' = [pc EXCEPT ![r] = "dbError"]
    /\ UNCHANGED <<ledgerVars, requestVars, sendLock, lndVars, published>>

(* The client goes away: axum drops the task at the await it is in.        *)
Drop(r) ==
    /\ "drop" \in Faults
    /\ pc[r] \in Steps
    /\ pc' = [pc EXCEPT ![r] = "dropped"]
    /\ ReleaseIfHeld(r)
    /\ UNCHANGED <<ledgerVars, requestVars, lndVars, published>>

(* The process dies and is restarted.  main does nothing about payments    *)
(* that were under way.                                                    *)
RequestsCrash ==
    /\ "crash" \in Faults
    /\ \E r \in Requests : pc[r] \in Steps
    /\ pc' = [r \in Requests |-> IF pc[r] \in Steps THEN "dropped" ELSE pc[r]]
    /\ Release
    /\ UNCHANGED <<ledgerVars, requestVars, lndVars, published>>

(***************************************************************************)
(* The sending node resolves a payment it took on, whether or not anybody  *)
(* still waits for the answer.                                             *)
(***************************************************************************)
LndSucceed(h) ==
    /\ lndPay[h] = "inflight"
    /\ lndPay' = [lndPay EXCEPT ![h] = "succeeded"]
    /\ \E msat \in FeesMsat : lndFee' = [lndFee EXCEPT ![h] = msat]
    /\ UNCHANGED <<ledgerVars, pc, requestVars, sendLock, calls, published>>

LndFail(h) ==
    /\ lndPay[h] = "inflight"
    /\ lndPay' = [lndPay EXCEPT ![h] = "failed"]
    /\ UNCHANGED <<ledgerVars, pc, requestVars, sendLock, lndFee, calls, published>>

(* No request is left and the node has nothing to resolve.                 *)
Finished ==
    /\ \A r \in Requests : pc[r] \in Outcomes
    /\ \A h \in Hashes : lndPay[h] # "inflight"
    /\ UNCHANGED paymentsVars

(* What the task of a request does when nothing goes wrong.                *)
RequestProceeds(r) ==
    \/ DecodeLock(r) \/ Decode(r) \/ DecodeFail(r) \/ Check(r)
    \/ InsertPending(r) \/ InsertRefused(r)
    \/ Send(r) \/ SendRefused(r) \/ RecvSuccess(r) \/ RecvFailure(r)
    \/ SaveFailed(r) \/ SaveSucceeded(r) \/ PublishSuccess(r)

Arrive(r) == Submit(r) \/ RejectEmpty(r)

RequestFault(r) == AnswerLost(r) \/ SaveFailedIgnored(r) \/ DbError(r) \/ Drop(r)

Resolve(h) == LndSucceed(h) \/ LndFail(h)

PaymentsNext ==
    \/ \E r \in Requests : Arrive(r) \/ RequestProceeds(r) \/ RequestFault(r)
    \/ \E h \in Hashes : Resolve(h)
    \/ RequestsCrash
    \/ Finished

(* tokio polls every ready task and its Mutex is granted in order of       *)
(* arrival; PostgreSQL answers; LND resolves every payment it takes on.    *)
(* Requests need not arrive and faults need not happen.                    *)
Fairness ==
    /\ \A r \in Requests : WF_paymentsVars(RequestProceeds(r))
    /\ \A h \in Hashes : WF_paymentsVars(Resolve(h))

PaymentsSpec == PaymentsInit /\ [][PaymentsNext]_paymentsVars

PaymentsFairSpec == PaymentsSpec /\ Fairness

-----------------------------------------------------------------------------
(***************************************************************************)
(* Safety.  These hold under every fault.                                  *)
(***************************************************************************)

Owning == {"send", "sending", "saveFailed", "saveSucceeded"}

StatusOf(h) == tx[Payment(h)].status

(* LND is never called twice for one invoice, although two requests may    *)
(* both find no row (api.rs:117) and pay_invoice_fn does not look, and     *)
(* although a request may die anywhere: the unique key lets one of them    *)
(* past the INSERT and no failure path gives the invoice back.             *)
NoDoublePay == \A h \in Hashes : calls[h] <= 1

(* No payment is under way that the database does not know of: the row is  *)
(* committed before LND is called, so a crash leaves a trace of it.        *)
RecordBeforeSend ==
    \A h \in Hashes : calls[h] > 0 \/ lndPay[h] # "none" => HasRow(Payment(h))

(* A row never says more than the node: it is marked succeeded or failed   *)
(* only when LND has said so of that very payment.                         *)
StatusTruthful ==
    \A h \in Hashes :
        /\ StatusOf(h) = "succeeded" => lndPay[h] = "succeeded"
        /\ StatusOf(h) = "failed" => lndPay[h] = "failed"
        /\ StatusOf(h) # "expired"

(* What a client is told is true of the node and the database, and of all  *)
(* the clients that ask to pay one invoice at most one is told it did.     *)
AnswerHonest ==
    /\ \A r \in Requests :
        /\ pc[r] = "ok" => StatusOf(hash[r]) = "succeeded" /\ published[hash[r]] = 1
        /\ pc[r] \in {"paymentFailed", "unmarked"} => lndPay[hash[r]] = "failed"
        /\ pc[r] \in {"duplicate", "uniqueViolation"} => HasRow(Row(r))
    /\ \A q, r \in Requests :
        q # r /\ pc[q] = "ok" /\ pc[r] = "ok" => hash[q] # hash[r]

(* The page hears of a payment at most once, and only when the row it will *)
(* fetch already says succeeded.                                           *)
PublishedSound ==
    \A h \in Hashes :
        /\ published[h] <= 1
        /\ published[h] = 1 => StatusOf(h) = "succeeded"

(* The Mutex of the sending client is held by the request that is inside a *)
(* call and by no other: no error, dropped task or crash leaks it.         *)
LockHeld ==
    \A r \in Requests : pc[r] \in {"decoding", "sending"} <=> sendLock = r

(* For each payment on record as succeeded, paid_sats has what LND charged *)
(* but for less than two sats, and never more: the amount is cut to whole  *)
(* sats, and so is the fee (api.rs:129,167).                               *)
BooksMatchNode ==
    \A h \in Hashes :
        StatusOf(h) = "succeeded" /\ lndFee[h] # Null =>
            LET charged == AmountMsat[h] + lndFee[h]
                booked  == 1000 * balance[Payment(h)]
            IN  booked <= charged /\ charged < booked + 2000

(* No step of the payment path touches a final row.                        *)
PaymentRowsFinal == [][TerminalFinal]_paymentsVars

(* The payment path implements PayOnce.                                    *)
Abstract == INSTANCE PayOnce WITH
    record <- [h \in Hashes |-> StatusOf(h)],
    node <- lndPay,
    asked <- calls,
    announced <- published

ImplementsPayOnce == Abstract!Spec

(***************************************************************************)
(* The inductive invariant.  A request between its INSERT and its UPDATE   *)
(* owns its invoice: the row is pending, no other request is there for the *)
(* same invoice, and LND has been called exactly when the request is past  *)
(* the call.                                                               *)
(***************************************************************************)
Owned ==
    \A r \in Requests :
        pc[r] \in Owning =>
            /\ StatusOf(hash[r]) = "pending"
            /\ calls[hash[r]] = IF pc[r] = "send" THEN 0 ELSE 1
            /\ \A q \in Requests :
                    q # r /\ pc[q] \in Owning => hash[q] # hash[r]

NodeFollows ==
    /\ \A h \in Hashes :
        /\ calls[h] \in {0, 1}
        /\ calls[h] = 0 => lndPay[h] = "none"
        /\ calls[h] = 1 => HasRow(Payment(h))
    /\ \A r \in Requests :
        /\ pc[r] = "saveSucceeded" => lndPay[hash[r]] = "succeeded"
        /\ pc[r] = "saveFailed" => lndPay[hash[r]] = "failed"

Published ==
    /\ \A r \in Requests :
        pc[r] = "publish" => StatusOf(hash[r]) = "succeeded" /\ published[hash[r]] = 0
    /\ \A q, r \in Requests :
        q # r /\ pc[q] \in {"publish", "ok"} /\ pc[r] \in {"publish", "ok"}
            => hash[q] # hash[r]

FeesBooked ==
    \A h \in Hashes :
        LET fee == tx[Payment(h)].fee
        IN  /\ StatusOf(h) = "pending" => fee = Null
            /\ StatusOf(h) = "succeeded" => fee = FeeSats(lndFee[h])

PaymentsInv ==
    /\ PaymentsTypeOK
    /\ Owned
    /\ NodeFollows
    /\ StatusTruthful
    /\ Published
    /\ PublishedSound
    /\ AnswerHonest
    /\ LockHeld
    /\ BalanceExact
    /\ FeesBooked

(***************************************************************************)
(* Liveness.                                                               *)
(***************************************************************************)

(* Every request that is taken up is answered, or its task is gone, under  *)
(* every fault: a request that dies in a call does not keep the Mutex from *)
(* the requests that wait for it.                                          *)
Answered == \A r \in Requests : pc[r] = "decode" ~> pc[r] \in Outcomes

(* The request that put h on record ended in one of these ways.            *)
MakerEnded(h, ways) == maker[h] # Null /\ pc[maker[h]] \in ways

(* It died on the way: LND's answer or a statement was lost, or the task.  *)
Broken(h) == MakerEnded(h, {"lndError", "dbError", "dropped"})

(* A payment that went through ends on record and announced, through       *)
(* either entry point, unless the request that made it broke.              *)
PaidIsAnnounced ==
    \A h \in Hashes :
        lndPay[h] = "succeeded" ~>
            \/ StatusOf(h) = "succeeded" /\ published[h] = 1
            \/ Broken(h)

(* A row does not stay pending, unless the request that made it broke, or  *)
(* its payment failed and either the update that marks the row failed too  *)
(* (api.rs:149), or it came through pay_invoice_fn, which makes none (see  *)
(* ResultSaved).  That another request for the invoice broke is no excuse. *)
PendingResolves ==
    \A h \in Hashes :
        StatusOf(h) = "pending" ~>
            \/ StatusOf(h) \in {"succeeded", "failed"}
            \/ Broken(h)
            \/ MakerEnded(h, {"unmarked"})
            \/ MakerEnded(h, {"paymentFailed"}) /\ kind[maker[h]] = "fn"

(***************************************************************************)
(* What README.md and test_api.sh say and the code does not do.            *)
(***************************************************************************)

(* README.md:87: LND Bob sends the payment, and the result is saved to     *)
(* PostgreSQL.  pay_invoice_fn returns before it saves a failure.          *)
ResultSaved ==
    \A r \in Requests :
        pc[r] = "paymentFailed" => StatusOf(hash[r]) # "pending"

(* README.md:460: paying the same invoice twice is answered with 400.  Two *)
(* requests that both pass the check get past it, and the INSERT of the    *)
(* second fails with a database error, which ApiError answers with 500.    *)
DuplicateAnswered400 ==
    \A r \in Requests : kind[r] = "rest" => pc[r] # "uniqueViolation"

=============================================================================
