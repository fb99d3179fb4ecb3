------------------------------ MODULE Invoices ------------------------------
(***************************************************************************)
(* The invoice path: invoices are created at and settled by the receiving  *)
(* LND node, and one background task of THOrs mirrors them in the database *)
(* and broadcasts the changes.  At start-up the task lists what the node   *)
(* has (sync_invoices_from_lnd); then it follows the node's stream of      *)
(* changes (subscribe_to_invoices), and subscribes anew when it ends.  The *)
(* task is the only writer of invoice rows.                                *)
(***************************************************************************)
EXTENDS Ledger, Sequences

InvoicesFaultKinds ==
    {"db",      \* a statement fails, before or after it took effect
     "rpc",     \* a call to LND fails, or the stream ends
     "silent",  \* LND does not report a change to its subscriber
     "crash"}   \* the process dies; docker restarts it

VARIABLES
    lndInv,     \* the receiving node: the state of each invoice
    phase,      \* where the background task stands
    batch,      \* the listed invoices the task has still to upsert
    stream,     \* the reported changes the task has still to handle
    toSend,     \* the event of the row just written, or Null
    events,     \* every event broadcast so far, in order
    lost        \* the invoices whose last change will not reach the task
                \* before it lists them again

invoicesOwn == <<lndInv, phase, batch, stream, toSend, events, lost>>
invoicesVars == <<tx, balance, invoicesOwn>>

InvoiceStates == {"open", "accepted", "settled", "canceled"}

Reports == [hash : Hashes, state : InvoiceStates]

Events == [hash : Hashes, status : TxStatuses]

ASSUME NoEventAssumption == Null \notin Events

Phases == {"down", "list", "sync", "subscribe", "stream", "publish", "backoff"}

InvoicesTypeOK ==
    /\ LedgerTypeOK
    /\ lndInv \in [Hashes -> InvoiceStates \cup {"none"}]
    /\ phase \in Phases
    /\ batch \subseteq Reports
    /\ stream \in Seq(Reports)
    /\ toSend \in Events \cup {Null}
    /\ events \in Seq(Events)
    /\ lost \subseteq Hashes

(* Mutants of StatusFor: an accepted payment taken for a settled one; the  *)
(* node's name for a canceled invoice kept.                                *)
StatusForEager(state) ==
    CASE state \in {"settled", "accepted"} -> "succeeded"
      [] state = "canceled"                -> "expired"
      [] OTHER                             -> "pending"

StatusForRaw(state) ==
    CASE state = "settled" -> "succeeded"
      [] state = "open"    -> "pending"
      [] OTHER             -> state

(* lnd_state_to_tx_status                                                  *)
StatusFor(state) ==
    CASE state = "settled"  -> "succeeded"
      [] state = "canceled" -> "expired"
      [] OTHER              -> "pending"

(* Where the reports of an invoice are in the stream.                      *)
Coming(h) == {i \in DOMAIN stream : stream[i].hash = h}

StreamedHashes == {stream[i].hash : i \in DOMAIN stream}

InvoicesInit ==
    /\ LedgerInit
    /\ lndInv = [h \in Hashes |-> "none"]
    /\ phase = "down"
    /\ batch = {}
    /\ stream = <<>>
    /\ toSend = Null
    /\ events = <<>>
    /\ lost = {}

-----------------------------------------------------------------------------
(***************************************************************************)
(* The receiving node.  create_invoice only asks it to add an invoice; the *)
(* row comes from the report.  A subscriber has the change in its stream;  *)
(* without one, nobody keeps it (add_index and settle_index are 0).        *)
(***************************************************************************)
Subscribed == phase \in {"stream", "publish"}

Change(h, state) ==
    /\ lndInv' = [lndInv EXCEPT ![h] = state]
    /\ \/ /\ Subscribed
          /\ stream' = Append(stream, [hash |-> h, state |-> state])
          /\ lost' = lost \ {h}
       \/ /\ ~Subscribed \/ "silent" \in Faults
          /\ lost' = lost \cup {h}
          /\ UNCHANGED stream
    /\ UNCHANGED <<ledgerVars, phase, batch, toSend, events>>

CreateInvoice(h) == lndInv[h] = "none" /\ Change(h, "open")

(* A payer's HTLC arrives; it is claimed or given back; the invoice        *)
(* expires.                                                                *)
Accept(h) == lndInv[h] = "open" /\ Change(h, "accepted")

Settle(h) == lndInv[h] \in {"open", "accepted"} /\ Change(h, "settled")

Cancel(h) == lndInv[h] \in {"open", "accepted"} /\ Change(h, "canceled")

-----------------------------------------------------------------------------
(***************************************************************************)
(* The background task.                                                    *)
(***************************************************************************)
Boot ==
    /\ phase = "down"
    /\ phase' = "list"
    /\ UNCHANGED <<ledgerVars, lndInv, batch, stream, toSend, events, lost>>

(* list_invoices answers with every invoice the node has at that moment.   *)
ListInvoices ==
    /\ phase = "list"
    /\ phase' = "sync"
    /\ batch' = {[hash |-> h, state |-> lndInv[h]] :
                    h \in {g \in Hashes : lndInv[g] # "none"}}
    /\ lost' = {}
    /\ UNCHANGED <<ledgerVars, lndInv, stream, toSend, events>>

(* The error is logged, and start-up goes on without the sync.             *)
ListFails ==
    /\ "rpc" \in Faults
    /\ phase = "list"
    /\ phase' = "subscribe"
    /\ UNCHANGED <<ledgerVars, lndInv, batch, stream, toSend, events, lost>>

(* One upsert of the sync.  It broadcasts nothing; an error is logged and  *)
(* the invoice left as it is, whether or not the statement took effect.    *)
SyncOne(e) ==
    /\ phase = "sync"
    /\ e \in batch
    /\ batch' = batch \ {e}
    /\ \/ Upsert(Invoice(e.hash), StatusFor(e.state)) /\ UNCHANGED lost
       \/ "db" \in Faults /\ UNCHANGED ledgerVars /\ lost' = lost \cup {e.hash}
    /\ UNCHANGED <<lndInv, phase, stream, toSend, events>>

SyncDone ==
    /\ phase = "sync"
    /\ batch = {}
    /\ phase' = "subscribe"
    /\ UNCHANGED <<ledgerVars, lndInv, batch, stream, toSend, events, lost>>

Subscribe ==
    /\ phase = "subscribe"
    /\ phase' = "stream"
    /\ stream' = <<>>
    /\ UNCHANGED <<ledgerVars, lndInv, batch, toSend, events, lost>>

SubscribeFails ==
    /\ "rpc" \in Faults
    /\ phase = "subscribe"
    /\ phase' = "backoff"
    /\ UNCHANGED <<ledgerVars, lndInv, batch, stream, toSend, events, lost>>

(* Mutant of HandleEvent: every report is broadcast.                       *)
HandleEventAloud ==
    /\ phase = "stream"
    /\ stream # <<>>
    /\ LET e == Head(stream)
       IN  /\ Upsert(Invoice(e.hash), StatusFor(e.state))
           /\ toSend' = [hash |-> e.hash, status |-> StatusFor(e.state)]
    /\ phase' = "publish"
    /\ stream' = Tail(stream)
    /\ UNCHANGED <<lndInv, batch, events, lost>>

(* handle_invoice_event up to the commit of its upsert.  A change of the   *)
(* row is broadcast next; none is not.                                     *)
HandleEvent ==
    /\ phase = "stream"
    /\ stream # <<>>
    /\ LET e == Head(stream)
           k == Invoice(e.hash)
           status == StatusFor(e.state)
       IN  /\ Upsert(k, status)
           /\ IF UpToDate(k, status)
              THEN UNCHANGED <<phase, toSend>>
              ELSE /\ phase' = "publish"
                   /\ toSend' = [hash |-> e.hash, status |-> status]
    /\ stream' = Tail(stream)
    /\ UNCHANGED <<lndInv, batch, events, lost>>

(* Mutants of HandleFails: the event is broadcast all the same; the report *)
(* is put back to be handled later.                                        *)
HandleFailsAloud ==
    /\ "db" \in Faults
    /\ phase = "stream"
    /\ stream # <<>>
    /\ LET e == Head(stream)
       IN  toSend' = [hash |-> e.hash, status |-> StatusFor(e.state)]
    /\ phase' = "publish"
    /\ stream' = Tail(stream)
    /\ UNCHANGED <<ledgerVars, lndInv, batch, events, lost>>

HandleFailsRequeues ==
    /\ "db" \in Faults
    /\ phase = "stream"
    /\ stream # <<>>
    /\ stream' = Append(Tail(stream), Head(stream))
    /\ UNCHANGED <<ledgerVars, lndInv, phase, batch, toSend, events, lost>>

(* The upsert answers with an error: it is logged and the report is gone,  *)
(* with the row written or not, and no event.                              *)
HandleFails ==
    /\ "db" \in Faults
    /\ phase = "stream"
    /\ stream # <<>>
    /\ LET e == Head(stream)
       IN  \/ /\ Upsert(Invoice(e.hash), StatusFor(e.state))
              /\ UNCHANGED lost
           \/ /\ UNCHANGED ledgerVars
              /\ lost' = IF Coming(e.hash) = {1} THEN lost \cup {e.hash} ELSE lost
    /\ stream' = Tail(stream)
    /\ UNCHANGED <<lndInv, phase, batch, toSend, events>>

PublishChange ==
    /\ phase = "publish"
    /\ events' = Append(events, toSend)
    /\ toSend' = Null
    /\ phase' = "stream"
    /\ UNCHANGED <<ledgerVars, lndInv, batch, stream, lost>>

(* The stream breaks or ends; what LND had sent and the task had not read  *)
(* goes with it.                                                           *)
StreamEnds ==
    /\ "rpc" \in Faults
    /\ phase = "stream"
    /\ phase' = "backoff"
    /\ lost' = lost \cup StreamedHashes
    /\ stream' = <<>>
    /\ UNCHANGED <<ledgerVars, lndInv, batch, toSend, events>>

(* Mutant of Retry: the task waits for good.                               *)
RetryNever == phase = "backoff" /\ UNCHANGED invoicesVars

(* Five seconds later the loop subscribes again; it does not list.         *)
Retry ==
    /\ phase = "backoff"
    /\ phase' = "subscribe"
    /\ UNCHANGED <<ledgerVars, lndInv, batch, stream, toSend, events, lost>>

TaskCrashes ==
    /\ "crash" \in Faults
    /\ phase # "down"
    /\ phase' = "down"
    /\ lost' = lost \cup StreamedHashes \cup {e.hash : e \in batch}
    /\ batch' = {}
    /\ stream' = <<>>
    /\ toSend' = Null
    /\ UNCHANGED <<ledgerVars, lndInv, events>>

Node(h) == CreateInvoice(h) \/ Accept(h) \/ Settle(h) \/ Cancel(h)

(* What the task does when nothing goes wrong.                             *)
TaskProceeds ==
    \/ Boot
    \/ ListInvoices \/ (\E e \in batch : SyncOne(e)) \/ SyncDone
    \/ Subscribe \/ HandleEvent \/ PublishChange \/ Retry

(* What goes wrong without taking the process along.                       *)
TaskFault == ListFails \/ SubscribeFails \/ HandleFails \/ StreamEnds

(* Every invoice is settled or canceled and the task waits for more.       *)
Quiet ==
    /\ \A h \in Hashes : lndInv[h] \in {"settled", "canceled"}
    /\ phase = "stream"
    /\ stream = <<>>
    /\ UNCHANGED invoicesVars

InvoicesNext ==
    \/ \E h \in Hashes : Node(h)
    \/ TaskProceeds \/ TaskFault \/ TaskCrashes
    \/ Quiet

InvoicesSpec == InvoicesInit /\ [][InvoicesNext]_invoicesVars

(* The runtime polls the task and PostgreSQL answers; LND, when it is      *)
(* asked again and again, accepts a subscription at last.  Nobody has to   *)
(* create or pay an invoice.                                               *)
InvoicesFairSpec ==
    InvoicesSpec /\ WF_invoicesVars(TaskProceeds) /\ SF_invoicesVars(Subscribe)

-----------------------------------------------------------------------------
(***************************************************************************)
(* Safety.                                                                 *)
(***************************************************************************)

InvoiceStatus(h) == tx[Invoice(h)].status

(* The database never runs ahead of the node: a row is there only for an   *)
(* invoice of the node, and it says paid or expired only if the node does. *)
NeverAhead ==
    \A h \in Hashes :
        InvoiceStatus(h) # "none" =>
            /\ lndInv[h] # "none"
            /\ InvoiceStatus(h) \in {"pending", StatusFor(lndInv[h])}

(* What the row should say.                                                *)
Mirror(h) == IF lndInv[h] = "none" THEN "none" ELSE StatusFor(lndInv[h])

(* The last word the task has on h: the last report in the stream, else    *)
(* what it has listed and not upserted, else the row.                      *)
Outlook(h) ==
    LET last   == {i \in Coming(h) : \A j \in Coming(h) : j <= i}
        listed == {e \in batch : e.hash = h}
    IN  CASE Coming(h) # {}                -> {StatusFor(stream[i].state) : i \in last}
          [] Coming(h) = {} /\ listed # {} -> {StatusFor(e.state) : e \in listed}
          [] OTHER                         -> {InvoiceStatus(h)}

(* The mirror is complete: a row stays behind the node for no reason but   *)
(* the known ones, a change nobody reported to the task, a report that was *)
(* lost with the stream or the process, and a failed statement; and a      *)
(* listing at start-up makes up for all of them.                           *)
CaughtUp == \A h \in Hashes \ lost : Outlook(h) = {Mirror(h)}

(* Over the whole history, restarts included, the browser hears of an      *)
(* invoice in the order of its life and of each change at most once:       *)
(* created, then settled or expired, and nothing after that.               *)
EventsOrdered ==
    \A i, j \in DOMAIN events :
        i < j /\ events[i].hash = events[j].hash =>
            events[i].status = "pending" /\ events[j].status # "pending"

(* An event tells of a row that was written before it, and the row still   *)
(* says so or has moved on.                                                *)
EventsRecorded ==
    \A i \in DOMAIN events :
        LET e == events[i]
        IN  \/ InvoiceStatus(e.hash) = e.status
            \/ e.status = "pending" /\ HasRow(Invoice(e.hash))

(* No step of the invoice path rewrites a final row, although the upsert   *)
(* writes any status over any other: reports of one invoice are handled in *)
(* the order of its life, and a listing is over before a report comes.     *)
InvoiceRowsFinal == [][TerminalFinal]_invoicesVars

(***************************************************************************)
(* The inductive invariant.  What is listed or in the stream was true of   *)
(* the node and comes in the order of an invoice's life, and a final row   *)
(* has nothing else to come; the event on its way is of the last write.    *)
(***************************************************************************)
Final == {"succeeded", "expired"}

(* An invoice in state s is, or may have got, in state t.                  *)
Leads(s, t) ==
    \/ s = t
    \/ s = "open" /\ t \in {"accepted", "settled", "canceled"}
    \/ s = "accepted" /\ t \in {"settled", "canceled"}

Staged ==
    /\ ~Subscribed => stream = <<>>
    /\ phase # "sync" => batch = {}
    /\ phase = "publish" <=> toSend # Null

(* A report that is not handled yet.                                       *)
Sound(e) ==
    /\ Leads(e.state, lndInv[e.hash])
    /\ InvoiceStatus(e.hash) \in Final => InvoiceStatus(e.hash) = StatusFor(e.state)

BatchSound ==
    /\ \A e \in batch : Sound(e)
    /\ \A e, f \in batch : e.hash = f.hash => e = f

StreamSound ==
    /\ \A i \in DOMAIN stream : Sound(stream[i])
    /\ \A i, j \in DOMAIN stream :
        i < j /\ stream[i].hash = stream[j].hash
            => Leads(stream[i].state, stream[j].state)

ToSendSound ==
    toSend # Null =>
        /\ InvoiceStatus(toSend.hash) = toSend.status
        /\ \A i \in DOMAIN events :
            events[i].hash = toSend.hash =>
                events[i].status = "pending" /\ toSend.status # "pending"

InvoicesInv ==
    /\ InvoicesTypeOK
    /\ BalanceExact
    /\ Staged
    /\ NeverAhead
    /\ BatchSound
    /\ StreamSound
    /\ CaughtUp
    /\ ToSendSound
    /\ EventsOrdered
    /\ EventsRecorded

-----------------------------------------------------------------------------
(***************************************************************************)
(* Liveness.                                                               *)
(***************************************************************************)

(* An invoice gets on record, where GET /api/invoice finds it, and so does *)
(* the payment received for it, unless its report is lost.                 *)
RecordedOrLost ==
    \A h \in Hashes :
        /\ lndInv[h] # "none" ~> HasRow(Invoice(h)) \/ h \in lost
        /\ lndInv[h] = "settled" ~> InvoiceStatus(h) = "succeeded" \/ h \in lost

(* The task gets back to following the node, however often the node turns  *)
(* it away: the reconnection README.md:497 asks for.  Only the death of    *)
(* the process keeps it from that.                                         *)
Reconnects == phase = "backoff" ~> phase \in {"stream", "down"}

(***************************************************************************)
(* What background.rs:77 says: when an invoice changes state, it is        *)
(* upserted into the DB.  Nothing has to fail for this to be wrong: an     *)
(* invoice settled after the listing and before the subscription is        *)
(* reported to nobody, and the subscription does not replay it.            *)
(***************************************************************************)
SettledIsRecorded ==
    \A h \in Hashes : lndInv[h] = "settled" ~> InvoiceStatus(h) = "succeeded"

=============================================================================
