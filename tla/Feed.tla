-------------------------------- MODULE Feed --------------------------------
(***************************************************************************)
(* From the database to the screen: the tokio broadcast channel, the SSE   *)
(* endpoint, and the transaction list of each open page, which loads once  *)
(* and then applies the events it receives.                                *)
(***************************************************************************)
EXTENDS Commits, ByDate

CONSTANTS
    Pages,      \* open pages, each of which loads its list once
    LoadLimit,  \* the rows it asks for, the newest
    Capacity,   \* events the channel keeps for a receiver that is behind
    Faults      \* the faults that may happen, a subset of FaultKinds

FaultKinds ==
    {"rpc",     \* get_transactions_fn fails
     "net",     \* the event stream of a page is cut
     "commit",  \* the writer's task is dropped, or its database connection
                \* lost, when the row is committed and the reply still awaited
     "crash"}   \* the server dies; docker restarts it

ASSUME LoadLimitAssumption == LoadLimit \in Nat \ {0}

ASSUME CapacityAssumption == Capacity \in Nat \ {0}

VARIABLES
    online,     \* the pages whose event source is connected
    chan,       \* the events each connected page has still to receive
    load,       \* what has become of each page's one load
    answer,     \* the answer to the load, as the SELECT found it
    list,       \* the list on each page
    early,      \* transactions whose events a page applied to its list after
                \* the SELECT and before the answer
    stale       \* transactions whose last change a page has not got and will
                \* not hear of

(* early and stale are history: nothing but the properties reads them.     *)
tableVars == <<commitVars, created>>
pageVars == <<load, answer, list, early>>
vars == <<tableVars, online, chan, pageVars, stale>>

HasRow(k) == status[k] # "none"

Events == [tx : Txs, status : Statuses \ {"none"}]

(* A page has a snapshot, on the way or on the screen: from then on it     *)
(* learns of a change from an event or not at all.                         *)
Served(p) == load[p] \in {"answered", "done"}

TypeOK ==
    /\ CommitsTypeOK
    /\ created \in [{k \in Txs : HasRow(k)} -> Times]
    /\ online \subseteq Pages
    /\ chan \in [Pages -> Seq(Events)]
    /\ \A p \in Pages : Len(chan[p]) <= Capacity
    /\ load \in [Pages -> {"closed", "asked", "answered", "done"}]
    /\ answer \in [Pages -> [Txs -> Statuses]]
    /\ list \in [Pages -> [Txs -> Statuses]]
    /\ early \in [Pages -> SUBSET Txs]
    /\ stale \in [Pages -> SUBSET Txs]

Init ==
    /\ CommitsInit
    /\ created = <<>>
    /\ online = {}
    /\ chan = [p \in Pages |-> <<>>]
    /\ load = [p \in Pages |-> "closed"]
    /\ answer = [p \in Pages |-> Nothing]
    /\ list = [p \in Pages |-> Nothing]
    /\ early = [p \in Pages |-> {}]
    /\ stale = [p \in Pages |-> {}]

Coming(queue, k) == {i \in DOMAIN queue : queue[i].tx = k}

Comes(queue, k) == Coming(queue, k) # {}

(* The pages in S will not hear of the last change of the transactions in  *)
(* K.  That leaves behind a page with its snapshot, and one that has not   *)
(* got it but an older event on the way, which will be applied after it.   *)
Missed(S, K) ==
    [p \in Pages |-> stale[p] \cup
        {k \in K : p \in S /\ (Served(p) \/ Comes(chan[p], k))}]

-----------------------------------------------------------------------------
Write(k) ==
    /\ \/ CommitAnnounced(k) /\ UNCHANGED stale
       \/ CommitSilent(k) /\ stale' = Missed(Pages, {k})
       \/ "commit" \in Faults /\ CommitUnheard(k) /\ stale' = Missed(Pages, {k})
    /\ Stamp(k)
    /\ UNCHANGED <<online, chan, pageVars>>

(* Mutant of Push: a channel without a bound.                              *)
PushAll(queue, e) == Append(queue, e)

(* A receiver that is Capacity events behind loses the oldest; the Lagged  *)
(* error that tells of it is dropped by the SSE handler.                   *)
Push(queue, e) ==
    IF Len(queue) < Capacity THEN Append(queue, e) ELSE Append(Tail(queue), e)

Dropped(queue) == IF Len(queue) < Capacity THEN {} ELSE {Head(queue).tx}

(* broadcast_tx.send                                                       *)
Broadcast(k) ==
    /\ TakeEvent(k)
    /\ LET e == [tx |-> k, status |-> outbox[k]]
           pushed == [p \in Pages |->
                        IF p \in online THEN Push(chan[p], e) ELSE chan[p]]
       IN  /\ chan' = pushed
           /\ stale' = [p \in Pages |->
                IF p \in online
                THEN (stale[p] \ {k}) \cup
                     {j \in Dropped(chan[p]) : Served(p) /\ ~Comes(pushed[p], j)}
                ELSE IF Served(p) THEN stale[p] \cup {k} ELSE stale[p]]
    /\ UNCHANGED <<created, online, pageVars>>

(* The row is committed, but its writer never gets to the broadcast.       *)
Forget(k) ==
    /\ "commit" \in Faults
    /\ TakeEvent(k)
    /\ stale' = Missed(Pages, {k})
    /\ UNCHANGED <<created, online, chan, pageVars>>

-----------------------------------------------------------------------------
(***************************************************************************)
(* A page.                                                                 *)
(***************************************************************************)
Open(p) ==
    /\ load[p] = "closed"
    /\ load' = [load EXCEPT ![p] = "asked"]
    /\ UNCHANGED <<tableVars, online, chan, answer, list, early, stale>>

(* sse_handler subscribes to the channel: nothing sent before is received. *)
(* The event source of the page does this again, without end, when it is   *)
(* cut off; the page does not load again.                                  *)
Connect(p) ==
    /\ load[p] # "closed"
    /\ p \notin online
    /\ online' = online \cup {p}
    /\ chan' = [chan EXCEPT ![p] = <<>>]
    /\ UNCHANGED <<tableVars, pageVars, stale>>

(* list_transactions runs its SELECT.  A row beyond the limit is not in    *)
(* the answer, and unless an event of it is to come, the page will not     *)
(* hear of it.                                                             *)
AnswerLoad(p) ==
    /\ load[p] = "asked"
    /\ load' = [load EXCEPT ![p] = "answered"]
    /\ \E page \in ListTransactions(LoadLimit, 0) :
        LET rows == ToSet(page)
        IN  /\ answer' = [answer EXCEPT ![p] =
                    [k \in Txs |-> IF k \in rows THEN status[k] ELSE "none"]]
            /\ stale' = [stale EXCEPT ![p] =
                    {k \in @ : Comes(chan[p], k)} \cup
                    {k \in Txs \ rows :
                        HasRow(k) /\ outbox[k] = "none" /\ ~Comes(chan[p], k)}]
    /\ early' = [early EXCEPT ![p] = {}]
    /\ UNCHANGED <<tableVars, online, chan, list>>

(* The answer replaces the list, and with it what events have put there.   *)
ReceiveLoad(p) ==
    /\ load[p] = "answered"
    /\ load' = [load EXCEPT ![p] = "done"]
    /\ list' = [list EXCEPT ![p] = answer[p]]
    /\ stale' = [stale EXCEPT ![p] = @ \cup early[p]]
    /\ UNCHANGED <<tableVars, online, chan, answer, early>>

(* A failed load leaves an empty list.                                     *)
LoadFails(p) ==
    /\ "rpc" \in Faults
    /\ load[p] \in {"asked", "answered"}
    /\ load' = [load EXCEPT ![p] = "done"]
    /\ list' = [list EXCEPT ![p] = Nothing]
    /\ stale' = [stale EXCEPT ![p] = {k \in Txs : HasRow(k)}]
    /\ UNCHANGED <<tableVars, online, chan, answer, early>>

(* Mutant of Apply: an event only adds an entry.                           *)
ApplyNew(entries, e) ==
    IF entries[e.tx] = "none" THEN [entries EXCEPT ![e.tx] = e.status] ELSE entries

(* The entry of the event's transaction is replaced, or put on top.        *)
Apply(entries, e) == [entries EXCEPT ![e.tx] = e.status]

(* Mutant of Receive: the message signal is read without the effect that   *)
(* hands it on.                                                            *)
ReceiveUnheard(p) ==
    /\ p \in online
    /\ chan[p] # <<>>
    /\ chan' = [chan EXCEPT ![p] = Tail(@)]
    /\ UNCHANGED <<tableVars, online, pageVars, stale>>

Receive(p) ==
    /\ p \in online
    /\ chan[p] # <<>>
    /\ LET e == Head(chan[p])
       IN  /\ list' = [list EXCEPT ![p] = Apply(@, e)]
           /\ early' = IF load[p] = "answered"
                       THEN [early EXCEPT ![p] = @ \cup {e.tx}] ELSE early
    /\ chan' = [chan EXCEPT ![p] = Tail(@)]
    /\ UNCHANGED <<tableVars, online, load, answer, stale>>

Queued(p) == {chan[p][i].tx : i \in DOMAIN chan[p]}

Disconnect(p) ==
    /\ "net" \in Faults
    /\ p \in online
    /\ online' = online \ {p}
    /\ chan' = [chan EXCEPT ![p] = <<>>]
    /\ stale' = Missed({p}, Queued(p))
    /\ UNCHANGED <<tableVars, pageVars>>

(* Streams are cut, and events that were to follow a commit never do.      *)
Crash ==
    /\ "crash" \in Faults
    /\ online # {} \/ outbox # Nothing
    /\ online' = {}
    /\ chan' = [p \in Pages |-> <<>>]
    /\ outbox' = Nothing
    /\ stale' = [p \in Pages |->
            IF Served(p)
            THEN stale[p] \cup Queued(p) \cup {k \in Txs : outbox[k] # "none"}
            ELSE stale[p]]
    /\ UNCHANGED <<status, created, pageVars>>

Proceed(p) == Connect(p) \/ AnswerLoad(p) \/ ReceiveLoad(p) \/ Receive(p)

Fault(p) == LoadFails(p) \/ Disconnect(p)

(* Every transaction is final and every page has what it gets.             *)
Settled ==
    /\ \A k \in Txs : status[k] \in Final /\ outbox[k] = "none"
    /\ \A p \in Pages : load[p] = "done" /\ p \in online /\ chan[p] = <<>>
    /\ UNCHANGED vars

Next ==
    \/ \E k \in Txs : Write(k) \/ Broadcast(k) \/ Forget(k)
    \/ \E p \in Pages : Open(p) \/ Proceed(p) \/ Fault(p)
    \/ Crash
    \/ Settled

Spec == Init /\ [][Next]_vars

(* The runtime polls every task; the network carries what it is given as   *)
(* long as the connection stands.  Nobody has to pay or to open a page.    *)
FairSpec ==
    /\ Spec
    /\ \A k \in Txs : WF_vars(Broadcast(k) \/ Forget(k))
    /\ \A p \in Pages : WF_vars(Connect(p)) /\ WF_vars(Receive(p))
    /\ \A p \in Pages : WF_vars(AnswerLoad(p) \/ ReceiveLoad(p))

-----------------------------------------------------------------------------
(***************************************************************************)
(* Properties.                                                             *)
(***************************************************************************)

(* No page shows what the database does not have: an event follows its     *)
(* commit, and a final status is never taken back.                         *)
NeverAhead ==
    \A p \in Pages, k \in Txs :
        list[p][k] \in {"none", "pending", status[k]}
            /\ (list[p][k] # "none" => HasRow(k))

(* What a page will show of k once it has received what is under way.      *)
Outlook(p, k) ==
    LET coming == Coming(chan[p], k)
        last   == {i \in coming : \A j \in coming : j <= i}
    IN  CASE outbox[k] # "none" -> {outbox[k]}
          [] outbox[k] = "none" /\ coming # {} -> {chan[p][i].status : i \in last}
          [] outbox[k] = "none" /\ coming = {} /\ load[p] = "answered" -> {answer[p][k]}
          [] OTHER -> {list[p][k]}

(* A page that has its list shows the database, or will, except for the    *)
(* transactions that were beyond the limit of its load and have had no     *)
(* event since, and those it lost an event of: to a full channel, a cut    *)
(* stream, a crash, its own late load, or because a change has no event.   *)
(* An event older than the snapshot has the last word only if a newer one  *)
(* was lost.                                                               *)
PageCaughtUp ==
    \A p \in Pages : Served(p) =>
        \A k \in Txs \ (stale[p] \cup (IF load[p] = "answered" THEN early[p] ELSE {})) :
            Outlook(p, k) = {status[k]}

(* A success reaches the screen of every page that has loaded, unless the  *)
(* page lost the event, or its load came after the success and stopped at  *)
(* newer rows.                                                             *)
SuccessShows ==
    \A p \in Pages, k \in Txs :
        load[p] = "done" /\ status[k] = "succeeded" ~>
            list[p][k] = "succeeded" \/ k \in stale[p]

(***************************************************************************)
(* What transaction_list.rs:11-13 says: loaded once on mount, the list is  *)
(* then updated by the events, no full refetch needed.  With nothing       *)
(* failing, an event that is broadcast after the SELECT of the load and    *)
(* before the page subscribes reaches the page neither way, and nothing    *)
(* makes up for it.                                                        *)
(***************************************************************************)
NoRefetchNeeded ==
    \A p \in Pages :
        load[p] = "done" /\ p \in online /\ chan[p] = <<>> =>
            \A k \in Invoices : outbox[k] = "none" => list[p][k] = status[k]

-----------------------------------------------------------------------------
(***************************************************************************)
(* The inductive invariant of the two safety properties.                   *)
(***************************************************************************)

(* t is what s was, or what became of it.                                  *)
Leads(s, t) == s = t \/ s = "none" \/ (s = "pending" /\ t \in Final)

(* No event outlives the status it tells of.                               *)
OutboxCurrent == \A k \in Txs : outbox[k] \in {"none", status[k]}

OfflineEmpty == \A p \in Pages : p \notin online => chan[p] = <<>>

(* Nothing on the way to a page is ahead of the database.                  *)
AnswerBehind == \A p \in Pages, k \in Txs : Leads(answer[p][k], status[k])

ChanBehind ==
    \A p \in Pages : \A i \in DOMAIN chan[p] :
        Leads(chan[p][i].status, status[chan[p][i].tx])

(* The last event on the way to a page is up to date.                      *)
Ends(queue, k, s) ==
    \E i \in Coming(queue, k) :
        queue[i].status = s /\ \A j \in Coming(queue, k) : j <= i

LastWord ==
    \A p \in Pages : \A k \in Txs \ stale[p] :
        outbox[k] = "none" /\ Comes(chan[p], k) => Ends(chan[p], k, status[k])

(* Where no event is on the way, the snapshot or the list is.              *)
SnapshotCurrent ==
    \A p \in Pages : \A k \in Txs \ stale[p] :
        outbox[k] = "none" /\ ~Comes(chan[p], k) =>
            /\ load[p] = "answered" => k \in early[p] \/ answer[p][k] = status[k]
            /\ load[p] = "done" => list[p][k] = status[k]

FeedInv ==
    /\ TypeOK /\ NeverAhead
    /\ OutboxCurrent /\ OfflineEmpty
    /\ AnswerBehind /\ ChanBehind
    /\ LastWord /\ SnapshotCurrent
=============================================================================
