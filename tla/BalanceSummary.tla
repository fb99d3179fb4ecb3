--------------------------- MODULE BalanceSummary ---------------------------
(***************************************************************************)
(* The balance: GET /api/balance and get_balance_fn read the table         *)
(* `transactions` in six statements outside a transaction, while payments  *)
(* and invoices change status; the balance panel of a page calls the       *)
(* second when it is mounted and again upon every event.  A sum of         *)
(* amounts is modelled as the set of the transactions it adds up; the two  *)
(* statements that find the time of the last update are left out.          *)
(***************************************************************************)
EXTENDS Commits, Sequences

CONSTANTS
    Capacity,   \* events the channel keeps for a receiver that is behind
    Faults      \* the faults that may happen, a subset of FaultKinds

FaultKinds ==
    {"db",      \* a statement of the summary fails
     "net",     \* the event stream of the page is cut
     "commit",  \* a writer does not get from its commit to the broadcast
     "crash"}   \* the server dies; docker restarts it

ASSUME CapacityAssumption == Capacity \in Nat \ {0}

VARIABLES
    online,     \* the event source of the panel is connected
    ticks,      \* how many events it has still to receive
    step,       \* the next statement of the call under way, or 0
    sums,       \* the sums the call has read
    panel,      \* "closed", "loading", "shown" or "error"
    shown,      \* the sums on the panel
    due,        \* history: transactions whose events the panel was sent since
                \* its last call began
    unheard     \* history: transactions whose last change came after that,
                \* and no event will tell of

callVars == <<step, sums>>
panelVars == <<panel, shown>>
history == <<due, unheard>>
vars == <<status, outbox, online, ticks, step, sums, panel, shown, due, unheard>>

Fields == {"received", "paid", "pendingReceived", "pendingPaid"}

NoSums == [f \in Fields |-> {}]

(* Mutant of Reads: pending payments first.                                *)
ReadsPendingFirst == <<"received", "pendingPaid", "pendingReceived", "paid">>

(* The statements of get_balance_summary, in their order.                  *)
Reads == <<"received", "paid", "pendingReceived", "pendingPaid">>

Done == 5

(* Mutant of Counted: what is paid counted as what is received is.         *)
CountedAlike(f) ==
    CASE f = "received"        -> {k \in Invoices : status[k] \in {"pending", "succeeded"}}
      [] f = "paid"            -> {k \in Payments : status[k] \in {"pending", "succeeded"}}
      [] f = "pendingReceived" -> {k \in Invoices : status[k] = "pending"}
      [] f = "pendingPaid"     -> {k \in Payments : status[k] = "pending"}

(* What each statement adds up.                                            *)
Counted(f) ==
    CASE f = "received"        -> {k \in Invoices : status[k] \in {"pending", "succeeded"}}
      [] f = "paid"            -> {k \in Payments : status[k] = "succeeded"}
      [] f = "pendingReceived" -> {k \in Invoices : status[k] = "pending"}
      [] f = "pendingPaid"     -> {k \in Payments : status[k] = "pending"}

TypeOK ==
    /\ CommitsTypeOK
    /\ online \in BOOLEAN
    /\ ticks \in 0 .. Capacity
    /\ step \in 0 .. Done
    /\ sums \in [Fields -> SUBSET Txs]
    /\ panel \in {"closed", "loading", "shown", "error"}
    /\ shown \in [Fields -> SUBSET Txs]
    /\ due \subseteq Txs
    /\ unheard \subseteq Txs

Init ==
    /\ CommitsInit
    /\ online = FALSE
    /\ ticks = 0
    /\ step = 0
    /\ sums = NoSums
    /\ panel = "closed"
    /\ shown = NoSums
    /\ due = {}
    /\ unheard = {}

-----------------------------------------------------------------------------
(***************************************************************************)
(* The writers and the channel.                                            *)
(***************************************************************************)
Write(k) ==
    /\ \/ CommitAnnounced(k) /\ unheard' = unheard \ {k}
       \/ CommitSilent(k) /\ unheard' = unheard \cup {k}
       \/ "commit" \in Faults /\ CommitUnheard(k) /\ unheard' = unheard \cup {k}
    /\ UNCHANGED <<online, ticks, due, callVars, panelVars>>

(* Mutants of Push: a channel without a bound; a full one is emptied.      *)
PushAll(waiting) == waiting + 1

PushOver(waiting) == IF waiting < Capacity THEN waiting + 1 ELSE 0

(* A full channel drops its oldest event for the new one.                  *)
Push(waiting) == IF waiting < Capacity THEN waiting + 1 ELSE waiting

Broadcast(k) ==
    /\ TakeEvent(k)
    /\ IF online
       THEN ticks' = Push(ticks) /\ due' = due \cup {k} /\ UNCHANGED unheard
       ELSE unheard' = unheard \cup {k} /\ UNCHANGED <<ticks, due>>
    /\ UNCHANGED <<online, callVars, panelVars>>

Forget(k) ==
    /\ "commit" \in Faults
    /\ TakeEvent(k)
    /\ unheard' = unheard \cup {k}
    /\ UNCHANGED <<online, ticks, due, callVars, panelVars>>

-----------------------------------------------------------------------------
(***************************************************************************)
(* The panel.                                                              *)
(***************************************************************************)
Call == step' = 1 /\ sums' = NoSums /\ due' = {} /\ unheard' = {}

Mount ==
    /\ panel = "closed"
    /\ panel' = "loading"
    /\ Call
    /\ UNCHANGED <<commitVars, online, ticks, shown>>

Connect ==
    /\ panel # "closed"
    /\ ~online
    /\ online' = TRUE
    /\ ticks' = 0
    /\ UNCHANGED <<commitVars, callVars, panelVars, history>>

(* Mutant of Trigger: no call while one is under way.                      *)
TriggerIdle ==
    /\ ticks > 0
    /\ ticks' = ticks - 1
    /\ IF step = 0 THEN Call ELSE UNCHANGED <<callVars, history>>
    /\ UNCHANGED <<commitVars, online, panelVars>>

(* An event, whatever it says, calls again; the answer to an earlier call  *)
(* is not shown any more.  What is on the panel stays until then.          *)
Trigger ==
    /\ ticks > 0
    /\ ticks' = ticks - 1
    /\ Call
    /\ UNCHANGED <<commitVars, online, panelVars>>

Read ==
    /\ step \in 1 .. 4
    /\ sums' = [sums EXCEPT ![Reads[step]] = Counted(Reads[step])]
    /\ step' = step + 1
    /\ UNCHANGED <<commitVars, online, ticks, panelVars, history>>

Answer ==
    /\ step = Done
    /\ panel' = "shown"
    /\ shown' = sums
    /\ step' = 0
    /\ UNCHANGED <<commitVars, online, ticks, sums, history>>

(* Any error becomes None, and the panel says that loading failed.         *)
CallFails ==
    /\ "db" \in Faults
    /\ step # 0
    /\ step' = 0
    /\ panel' = "error"
    /\ unheard' = {k \in Txs \ due : status[k] # "none" /\ outbox[k] = "none"}
    /\ UNCHANGED <<commitVars, online, ticks, sums, shown, due>>

Disconnect ==
    /\ "net" \in Faults
    /\ online
    /\ online' = FALSE
    /\ ticks' = 0
    /\ due' = {}
    /\ unheard' = unheard \cup due
    /\ UNCHANGED <<commitVars, callVars, panelVars>>

Crash ==
    /\ "crash" \in Faults
    /\ online \/ outbox # Nothing \/ step # 0
    /\ online' = FALSE
    /\ ticks' = 0
    /\ due' = {}
    /\ outbox' = Nothing
    /\ step' = 0
    /\ panel' = IF step # 0 THEN "error" ELSE panel
    /\ unheard' = IF step # 0
                  THEN {k \in Txs : status[k] # "none"}
                  ELSE unheard \cup due \cup {k \in Txs : outbox[k] # "none"}
    /\ UNCHANGED <<status, sums, shown>>

Proceed == Connect \/ Trigger \/ Read \/ Answer

Fault == CallFails \/ Disconnect \/ Crash

(* Every transaction is final and the panel has nothing to wait for.       *)
Settled ==
    /\ \A k \in Txs : status[k] \in Final /\ outbox[k] = "none"
    /\ panel # "closed" /\ online /\ ticks = 0 /\ step = 0
    /\ UNCHANGED vars

Next ==
    \/ \E k \in Txs : Write(k) \/ Broadcast(k) \/ Forget(k)
    \/ Mount \/ Proceed \/ Fault
    \/ Settled

Spec == Init /\ [][Next]_vars

(* Tasks are polled, statements are answered, and the event source goes on *)
(* trying.  Nobody has to pay or to open the page.                         *)
FairSpec ==
    /\ Spec
    /\ \A k \in Txs : WF_vars(Broadcast(k) \/ Forget(k))
    /\ WF_vars(Connect) /\ WF_vars(Trigger) /\ WF_vars(Read \/ Answer \/ CallFails)

-----------------------------------------------------------------------------
(***************************************************************************)
(* Properties.                                                             *)
(***************************************************************************)

(* A payment that changes status between the statements may be missing     *)
(* from the summary but is never in it twice: what is paid is read before  *)
(* what is about to be.                                                    *)
NothingCountedTwice ==
    /\ step = Done => sums.paid \cap sums.pendingPaid = {}
    /\ shown.paid \cap shown.pendingPaid = {}

(* No sat is said to be paid that was not.                                 *)
PaidIsPaid == \A k \in sums.paid \cup shown.paid : status[k] = "succeeded"

(* The inductive invariant: what a call has found paid stays paid, and     *)
(* what it then finds pending is not.                                      *)
IInv ==
    /\ TypeOK
    /\ NothingCountedTwice
    /\ PaidIsPaid

(* The statements of a call may see different moments, but a panel that    *)
(* has nothing to wait for shows each transaction as the database has it,  *)
(* unless its last change had no event or lost it: a change that could     *)
(* have torn the sums brings another call.                                 *)
PanelExact ==
    panel = "shown" /\ step = 0 /\ ticks = 0 /\ outbox = Nothing =>
        \A k \in Txs \ unheard, f \in Fields : k \in shown[f] <=> k \in Counted(f)

(* Why that is so: what a call has read of a transaction, and what is on   *)
(* the panel, is what the database has, unless an event of it is still to  *)
(* come or lost; and an event that has been sent is still to be received.  *)
Unchanged(k) == k \notin due \cup unheard /\ outbox[k] = "none"

ReadExact ==
    \A k \in Txs : Unchanged(k) =>
        \A i \in 1 .. 4 : i < step => (k \in sums[Reads[i]] <=> k \in Counted(Reads[i]))

ShownExact ==
    panel = "shown" /\ step = 0 =>
        \A k \in Txs, f \in Fields : Unchanged(k) => (k \in shown[f] <=> k \in Counted(f))

DueArrives == due # {} => ticks > 0 /\ online

ExactInv == ReadExact /\ ShownExact /\ DueArrives

(* A payment that goes through is on the panel at last, unless its event   *)
(* was lost or the call it made failed.                                    *)
PaidShows ==
    \A k \in Payments :
        status[k] = "succeeded" /\ panel # "closed" ~>
            (panel = "shown" /\ k \in shown.paid) \/ k \in unheard

=============================================================================
