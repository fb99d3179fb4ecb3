------------------------------ MODULE Commits -------------------------------
(***************************************************************************)
(* What the database and the broadcast channel see of the two paths that   *)
(* write: the payment path (Payments) and the invoice path (Invoices),     *)
(* reduced to the statuses they commit and the events that follow.  The    *)
(* modules of the readers EXTEND this one.                                 *)
(***************************************************************************)
EXTENDS Integers

CONSTANTS
    Invoices,   \* transactions of type invoice
    Payments    \* transactions of type payment

ASSUME DisjointAssumption == Invoices \cap Payments = {}

Txs == Invoices \cup Payments

Statuses == {"none", "pending", "succeeded", "failed", "expired"}

Final == {"succeeded", "failed", "expired"}

VARIABLES
    status,     \* the database: the status of each transaction, or "none"
    outbox      \* the event that follows each row's last commit, or "none"

commitVars == <<status, outbox>>

Nothing == [k \in Txs |-> "none"]

CommitsTypeOK ==
    /\ status \in [Txs -> Statuses]
    /\ outbox \in [Txs -> Statuses]

CommitsInit == status = Nothing /\ outbox = Nothing

(* One task writes all invoice rows and broadcasts each change before the  *)
(* next; a request writes its payment row and broadcasts a success only.   *)
Writable(k) ==
    /\ outbox[k] = "none"
    /\ k \in Invoices => \A i \in Invoices : outbox[i] = "none"

NextStatuses(k) ==
    CASE status[k] = "none" /\ k \in Invoices    -> {"pending", "succeeded", "expired"}
      [] status[k] = "none" /\ k \in Payments    -> {"pending"}
      [] status[k] = "pending" /\ k \in Invoices -> {"succeeded", "expired"}
      [] status[k] = "pending" /\ k \in Payments -> {"succeeded", "failed"}
      [] OTHER                                   -> {}

Announced(k, s) == k \in Invoices \/ s = "succeeded"

(* Mutant of CommitAnnounced: the event of a statement that is rolled back. *)
AnnounceOnly(k) ==
    /\ Writable(k)
    /\ \E s \in NextStatuses(k) : outbox' = [outbox EXCEPT ![k] = s]
    /\ UNCHANGED status

(* A change that an event is to follow.                                    *)
CommitAnnounced(k) ==
    /\ Writable(k)
    /\ \E s \in NextStatuses(k) :
        /\ Announced(k, s)
        /\ status' = [status EXCEPT ![k] = s]
        /\ outbox' = [outbox EXCEPT ![k] = s]

(* A change that nobody is told of: a payment is new, or has failed.       *)
CommitSilent(k) ==
    /\ Writable(k)
    /\ \E s \in NextStatuses(k) :
        /\ ~Announced(k, s)
        /\ status' = [status EXCEPT ![k] = s]
    /\ UNCHANGED outbox

(* A change that an event should follow, and none does: the start-up sync  *)
(* broadcasts nothing, nor does a task that gets an error for a statement  *)
(* that took effect.                                                       *)
CommitUnheard(k) ==
    /\ Writable(k)
    /\ \E s \in NextStatuses(k) :
        /\ Announced(k, s)
        /\ status' = [status EXCEPT ![k] = s]
    /\ UNCHANGED outbox

(* The event leaves the writer, for the channel or for nowhere.            *)
TakeEvent(k) ==
    /\ outbox[k] # "none"
    /\ outbox' = [outbox EXCEPT ![k] = "none"]
    /\ UNCHANGED status

(* The process dies between commits and their events.                      *)
LoseAll == outbox' = Nothing /\ UNCHANGED status

CommitsNext ==
    \/ \E k \in Txs :
            CommitAnnounced(k) \/ CommitSilent(k) \/ CommitUnheard(k) \/ TakeEvent(k)
    \/ LoseAll

(* What the readers take the writers for; Thors shows that the two paths   *)
(* together are no worse.                                                  *)
CommitsSpec == CommitsInit /\ [][CommitsNext]_commitVars
=============================================================================
