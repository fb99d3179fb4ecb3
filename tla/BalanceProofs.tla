--------------------------- MODULE BalanceProofs ----------------------------
(***************************************************************************)
(* What is proved of BalanceSummary for any transactions, any channel and  *)
(* any faults: the six statements outside a transaction count no payment   *)
(* twice.                                                                  *)
(***************************************************************************)
EXTENDS BalanceSummary, TLAPS

(* A transaction that has succeeded stays so: no commit starts from there. *)
LEMMA SuccessStays ==
    ASSUME CommitsTypeOK, NEW k \in Txs, CommitAnnounced(k) \/ CommitSilent(k) \/ CommitUnheard(k)
    PROVE  /\ CommitsTypeOK'
           /\ \A j \in Txs : status[j] = "succeeded" => status'[j] = "succeeded"
<1>1. PICK s \in NextStatuses(k) :
        /\ status' = [status EXCEPT ![k] = s]
        /\ outbox' \in {outbox, [outbox EXCEPT ![k] = s]}
  BY DEF CommitAnnounced, CommitSilent, CommitUnheard
<1>2. status[k] # "succeeded" /\ s \in Statuses
  BY <1>1 DEF NextStatuses, Statuses
<1> QED
  BY <1>1, <1>2 DEF CommitsTypeOK

(* An event taken away changes no status.                                  *)
LEMMA TakingKeepsType ==
    ASSUME CommitsTypeOK, NEW k \in Txs, TakeEvent(k)
    PROVE  CommitsTypeOK' /\ status' = status
BY DEF CommitsTypeOK, TakeEvent, Statuses

(* The sums have their types: each is a set of transactions.               *)
LEMMA CountedType ==
    ASSUME NEW f \in Fields
    PROVE  Counted(f) \subseteq Txs
BY DEF Fields, Counted, Txs

(* A call starts with empty sums.                                          *)
LEMMA NoSumsEmpty ==
    /\ NoSums \in [Fields -> SUBSET Txs]
    /\ NoSums.paid = {} /\ NoSums.pendingPaid = {}
BY DEF NoSums, Fields

(* Nothing has been read or shown at first.                                *)
LEMMA InitHolds == Init => IInv
<1> SUFFICES ASSUME Init PROVE IInv
  OBVIOUS
<1>1. CommitsTypeOK
  BY DEF Init, CommitsInit, CommitsTypeOK, Nothing, Statuses
<1>2. TypeOK
  <2>1. online \in BOOLEAN
    BY Zenon DEF Init
  <2>2. ticks \in 0 .. Capacity /\ step \in 0 .. Done
    BY CapacityAssumption DEF Init, Done
  <2> QED
    BY <1>1, <2>1, <2>2, NoSumsEmpty DEF Init, TypeOK
<1> QED
  BY <1>2, NoSumsEmpty DEF Init, IInv, NothingCountedTwice, PaidIsPaid, Done

(* Only a commit changes a status and only a statement a sum; the other     *)
(* actions move the sums to the panel or throw them away.                  *)
LEMMA NextKeeps == IInv /\ [Next]_vars => IInv'
<1> SUFFICES ASSUME IInv, [Next]_vars PROVE IInv'
  OBVIOUS
<1> USE CapacityAssumption
<1>1. ASSUME NEW k \in Txs, Write(k) PROVE IInv'
  <2>1. CommitsTypeOK' /\ \A j \in Txs : status[j] = "succeeded" => status'[j] = "succeeded"
    BY <1>1, SuccessStays DEF Write, IInv, TypeOK
  <2>2. PaidIsPaid'
    BY <1>1, <2>1 DEF Write, callVars, panelVars, IInv, PaidIsPaid, TypeOK, Fields
  <2> QED
    BY <1>1, <2>1, <2>2 DEF Write, callVars, panelVars, IInv, TypeOK, NothingCountedTwice
<1>2. ASSUME NEW k \in Txs, Broadcast(k) PROVE IInv'
  <2>1. CommitsTypeOK' /\ status' = status
    BY <1>2, TakingKeepsType DEF Broadcast, IInv, TypeOK
  <2> QED
    BY <1>2, <2>1 DEF Broadcast, Push, callVars, panelVars, IInv, TypeOK,
                      NothingCountedTwice, PaidIsPaid
<1>3. ASSUME NEW k \in Txs, Forget(k) PROVE IInv'
  <2>1. CommitsTypeOK' /\ status' = status
    BY <1>3, TakingKeepsType DEF Forget, IInv, TypeOK
  <2> QED
    BY <1>3, <2>1 DEF Forget, callVars, panelVars, IInv, TypeOK,
                      NothingCountedTwice, PaidIsPaid
<1>4. CASE Mount
  BY <1>4 DEF Mount, Call, commitVars, NoSums, Fields, Done, IInv, TypeOK,
              CommitsTypeOK, NothingCountedTwice, PaidIsPaid
<1>5. CASE Connect
  BY <1>5 DEF Connect, commitVars, callVars, panelVars, history, IInv, TypeOK,
              CommitsTypeOK, NothingCountedTwice, PaidIsPaid
<1>6. CASE Trigger
  BY <1>6 DEF Trigger, Call, commitVars, panelVars, NoSums, Fields, Done, IInv, TypeOK,
              CommitsTypeOK, NothingCountedTwice, PaidIsPaid
<1>7. CASE Read
  <2>1. Reads[step] \in Fields /\ step \in 1 .. 4
    BY <1>7 DEF Read, Reads, Fields
  <2>2. TypeOK'
    BY <1>7, <2>1, CountedType DEF Read, Done, Reads, commitVars, panelVars, history, IInv,
                                   TypeOK, CommitsTypeOK
  <2>3. \A k \in sums'.paid : status[k] = "succeeded"
    <3>1. sums'.paid = sums.paid \/ sums'.paid = Counted("paid")
      BY <1>7, <2>1 DEF Read, IInv, TypeOK, Fields
    <3> QED
      BY <3>1 DEF Counted, IInv, PaidIsPaid
  <2>4. step' = Done => sums'.pendingPaid = Counted("pendingPaid")
    BY <1>7, <2>1 DEF Read, Done, Reads, Fields, IInv, TypeOK
  <2> QED
    BY <1>7, <2>2, <2>3, <2>4 DEF Read, Counted, commitVars, panelVars, IInv,
                                  NothingCountedTwice, PaidIsPaid
<1>8. CASE Answer
  <2>1. TypeOK'
    BY <1>8 DEF Answer, commitVars, history, Done, IInv, TypeOK, CommitsTypeOK
  <2> QED
    BY <1>8, <2>1 DEF Answer, commitVars, Done, IInv, NothingCountedTwice, PaidIsPaid
<1>9. CASE CallFails
  <2>1. TypeOK'
    BY <1>9 DEF CallFails, commitVars, Done, IInv, TypeOK, CommitsTypeOK
  <2> QED
    BY <1>9, <2>1 DEF CallFails, commitVars, Done, IInv, NothingCountedTwice, PaidIsPaid
<1>10. CASE Disconnect
  <2>1. online' \in BOOLEAN
    BY <1>10, Zenon DEF Disconnect
  <2>2. CommitsTypeOK' /\ ticks' \in 0 .. Capacity /\ due' \subseteq Txs /\ unheard' \subseteq Txs
    BY <1>10 DEF Disconnect, commitVars, IInv, TypeOK, CommitsTypeOK
  <2> QED
    BY <1>10, <2>1, <2>2 DEF Disconnect, commitVars, callVars, panelVars, IInv, TypeOK,
                             NothingCountedTwice, PaidIsPaid
<1>11. CASE Crash
  <2>1. online' \in BOOLEAN
    BY <1>11, Zenon DEF Crash
  <2>2. CommitsTypeOK'
    BY <1>11 DEF Crash, Nothing, Statuses, IInv, TypeOK, CommitsTypeOK
  <2>3. /\ ticks' \in 0 .. Capacity /\ step' \in 0 .. Done
        /\ due' \subseteq Txs /\ unheard' \subseteq Txs
        /\ panel' \in {"closed", "loading", "shown", "error"}
    BY <1>11 DEF Crash, Done, IInv, TypeOK
  <2> QED
    BY <1>11, <2>1, <2>2, <2>3 DEF Crash, Done, IInv, TypeOK, NothingCountedTwice, PaidIsPaid
<1>12. CASE UNCHANGED vars
  BY <1>12 DEF vars, IInv, TypeOK, CommitsTypeOK, NothingCountedTwice, PaidIsPaid, Counted
<1> QED
  BY <1>1, <1>2, <1>3, <1>4, <1>5, <1>6, <1>7, <1>8, <1>9, <1>10, <1>11, <1>12
     DEF Next, Proceed, Fault, Settled

(* The inductive invariant holds throughout.                               *)
THEOREM BalanceInvariance == Spec => []IInv
<1>1. Init => IInv
  BY InitHolds
<1>2. IInv /\ [Next]_vars => IInv'
  BY NextKeeps
<1> QED
  BY <1>1, <1>2, PTL DEF Spec

(* The channel of a panel stays within its capacity, and a sum is a set of *)
(* transactions.                                                           *)
THEOREM BalanceTypes == Spec => []TypeOK
<1>1. IInv => TypeOK
  BY DEF IInv
<1> QED
  BY <1>1, BalanceInvariance, PTL

(* A summary never has a payment both as paid and as pending, whatever is  *)
(* committed between its statements (db.rs:174-213).                       *)
THEOREM CountsOnce == Spec => []NothingCountedTwice
<1>1. IInv => NothingCountedTwice
  BY DEF IInv
<1> QED
  BY <1>1, BalanceInvariance, PTL

(* A summary never says that a payment is paid that has not succeeded.     *)
THEOREM PaidOnRecord == Spec => []PaidIsPaid
<1>1. IInv => PaidIsPaid
  BY DEF IInv
<1> QED
  BY <1>1, BalanceInvariance, PTL

-----------------------------------------------------------------------------
(***************************************************************************)
(* The panel.                                                              *)
(***************************************************************************)

(* The statements read each sum once.                                      *)
LEMMA ReadsFacts ==
    /\ \A i \in 1 .. 4 : Reads[i] \in Fields
    /\ \A i, j \in 1 .. 4 : Reads[i] = Reads[j] => i = j
    /\ \A f \in Fields : \E i \in 1 .. 4 : f = Reads[i]
BY DEF Reads, Fields

(* What the sums count depends on the status alone.                        *)
LEMMA CountedSame ==
    ASSUME NEW f \in Fields, NEW k \in Txs, status'[k] = status[k]
    PROVE  k \in Counted(f)' <=> k \in Counted(f)
BY DEF Fields, Counted

(* While no call is read or shown, what has been stays right for what has  *)
(* not changed.                                                            *)
LEMMA SameCalls ==
    ASSUME ExactInv, UNCHANGED <<callVars, panelVars>>,
           \A k \in Txs : Unchanged(k)' => Unchanged(k) /\ status'[k] = status[k]
    PROVE  ReadExact' /\ ShownExact'
<1>1. sums' = sums /\ step' = step /\ panel' = panel /\ shown' = shown
  BY DEF callVars, panelVars
<1>2. ReadExact'
  <2> SUFFICES ASSUME NEW k \in Txs, Unchanged(k)', NEW i \in 1 .. 4, i < step
               PROVE  k \in sums[Reads[i]] <=> k \in Counted(Reads[i])'
    BY <1>1 DEF ReadExact
  <2> QED
    BY CountedSame, ReadsFacts DEF ExactInv, ReadExact
<1>3. ShownExact'
  <2> SUFFICES ASSUME panel = "shown", step = 0, NEW k \in Txs, NEW f \in Fields, Unchanged(k)'
               PROVE  k \in shown[f] <=> k \in Counted(f)'
    BY <1>1 DEF ShownExact
  <2> QED
    BY CountedSame DEF ExactInv, ShownExact
<1> QED
  BY <1>2, <1>3

(* A change takes its transaction out of what has not changed.             *)
LEMMA WritersExact ==
    ASSUME TypeOK, ExactInv, NEW k \in Txs, Write(k) \/ Broadcast(k) \/ Forget(k)
    PROVE  ExactInv'
<1>1. UNCHANGED <<callVars, panelVars>>
  BY DEF Write, Broadcast, Forget
<1>2. CASE Write(k)
  <2>1. PICK s \in NextStatuses(k) :
          /\ status' = [status EXCEPT ![k] = s]
          /\ \/ outbox' = [outbox EXCEPT ![k] = s] /\ unheard' = unheard \ {k}
             \/ outbox' = outbox /\ unheard' = unheard \cup {k}
          /\ due' = due /\ ticks' = ticks /\ online' = online
    BY <1>2 DEF Write, CommitAnnounced, CommitSilent, CommitUnheard
  <2>2. s # "none"
    BY <2>1 DEF NextStatuses
  <2>3. \A j \in Txs : Unchanged(j)' => Unchanged(j) /\ status'[j] = status[j]
    BY <2>1, <2>2 DEF Unchanged, TypeOK, CommitsTypeOK
  <2> QED
    BY <1>1, <2>1, <2>3, SameCalls DEF ExactInv, DueArrives
<1>3. CASE Broadcast(k) \/ Forget(k)
  <2>1. /\ status' = status /\ outbox' = [outbox EXCEPT ![k] = "none"]
        /\ due \subseteq due' /\ unheard \subseteq unheard' /\ k \in due' \cup unheard'
    BY <1>3 DEF Broadcast, Forget, TakeEvent
  <2>2. \A j \in Txs : Unchanged(j)' => Unchanged(j) /\ status'[j] = status[j]
    BY <2>1 DEF Unchanged, TypeOK, CommitsTypeOK
  <2>3. DueArrives'
    BY <1>3, CapacityAssumption DEF Broadcast, Forget, Push, ExactInv, DueArrives, TypeOK
  <2> QED
    BY <1>1, <2>2, <2>3, SameCalls DEF ExactInv
<1> QED
  BY <1>2, <1>3

(* The panel: a call reads what there is, and is shown when it is complete.*)
LEMMA PanelExactKeeps ==
    ASSUME TypeOK, ExactInv, Mount \/ Proceed \/ Fault
    PROVE  ExactInv'
<1>1. CASE Mount \/ Trigger
  <2>1. step' = 1 /\ due' = {}
    BY <1>1 DEF Mount, Trigger, Call
  <2>2. \A i \in 1 .. 4 : ~(i < step')
    BY <2>1
  <2> QED
    BY <2>1, <2>2 DEF ExactInv, ReadExact, ShownExact, DueArrives
<1>2. CASE Connect
  <2>1. UNCHANGED <<callVars, panelVars>> /\ UNCHANGED <<status, outbox, due, unheard>>
    BY <1>2 DEF Connect, commitVars, history
  <2>2. ReadExact' /\ ShownExact'
    BY <2>1, SameCalls DEF Unchanged
  <2>3. due' = {}
    BY <1>2, <2>1 DEF Connect, ExactInv, DueArrives
  <2> QED
    BY <2>2, <2>3 DEF ExactInv, DueArrives
<1>3. CASE Read
  <2>1. /\ step \in 1 .. 4 /\ step' = step + 1
        /\ sums' = [sums EXCEPT ![Reads[step]] = Counted(Reads[step])]
        /\ UNCHANGED <<status, outbox, online, ticks, due, unheard>>
    BY <1>3 DEF Read, commitVars, history
  <2>2. \A i \in 1 .. 4 :
          sums'[Reads[i]] = IF i = step THEN Counted(Reads[i]) ELSE sums[Reads[i]]
    BY <2>1, ReadsFacts DEF TypeOK
  <2>3. \A k \in Txs, f \in Fields : k \in Counted(f)' <=> k \in Counted(f)
    BY <2>1, CountedSame
  <2>4. ReadExact'
    <3> SUFFICES ASSUME NEW k \in Txs, Unchanged(k), NEW i \in 1 .. 4, i < step + 1
                 PROVE  k \in sums'[Reads[i]] <=> k \in Counted(Reads[i])'
      BY <2>1 DEF ReadExact, Unchanged
    <3>1. CASE i = step
      BY <2>2, <2>3, <3>1, ReadsFacts
    <3>2. CASE i # step
      <4>1. i < step
        BY <2>1, <3>2
      <4>2. k \in sums[Reads[i]] <=> k \in Counted(Reads[i])
        BY <4>1 DEF ExactInv, ReadExact
      <4> QED
        BY <2>2, <2>3, <3>2, <4>2, ReadsFacts
    <3> QED
      BY <3>1, <3>2
  <2> QED
    BY <2>1, <2>4 DEF ExactInv, ShownExact, DueArrives
<1>4. CASE Answer
  <2>1. /\ step = 5 /\ step' = 0 /\ shown' = sums
        /\ UNCHANGED <<status, outbox, online, ticks, due, unheard>>
    BY <1>4 DEF Answer, Done, commitVars, history
  <2>2. ShownExact'
    <3> SUFFICES ASSUME NEW k \in Txs, NEW f \in Fields, Unchanged(k)
                 PROVE  k \in sums[f] <=> k \in Counted(f)'
      BY <2>1 DEF ShownExact, Unchanged
    <3>1. PICK i \in 1 .. 4 : f = Reads[i]
      BY ReadsFacts
    <3>2. i < step
      BY <2>1
    <3> QED
      BY <2>1, <3>1, <3>2, CountedSame DEF ExactInv, ReadExact
  <2>3. ReadExact'
    <3>1. \A i \in 1 .. 4 : ~(i < step')
      BY <2>1
    <3> QED
      BY <3>1 DEF ReadExact
  <2> QED
    BY <2>1, <2>2, <2>3 DEF ExactInv, DueArrives
<1>5. CASE CallFails
  <2>1. step' = 0 /\ panel' = "error" /\ UNCHANGED <<online, ticks, due>>
    BY <1>5 DEF CallFails
  <2>2. \A i \in 1 .. 4 : ~(i < step')
    BY <2>1
  <2> QED
    BY <2>1, <2>2 DEF ExactInv, ReadExact, ShownExact, DueArrives
<1>6. CASE Disconnect
  <2>1. /\ UNCHANGED <<callVars, panelVars>> /\ UNCHANGED <<status, outbox>>
        /\ due' = {} /\ unheard' = unheard \cup due
    BY <1>6 DEF Disconnect, commitVars
  <2>2. \A k \in Txs : Unchanged(k)' => Unchanged(k) /\ status'[k] = status[k]
    BY <2>1 DEF Unchanged
  <2> QED
    BY <2>1, <2>2, SameCalls DEF ExactInv, DueArrives
<1>7. CASE Crash
  <2>1. /\ step' = 0 /\ due' = {} /\ status' = status /\ shown' = shown
        /\ step # 0 => panel' = "error"
        /\ step = 0 => panel' = panel /\
                       unheard' = unheard \cup due \cup {k \in Txs : outbox[k] # "none"}
    BY <1>7 DEF Crash
  <2>2. ShownExact'
    <3> SUFFICES ASSUME panel = "shown", step = 0, NEW k \in Txs, NEW f \in Fields,
                        Unchanged(k)'
                 PROVE  k \in shown[f] <=> k \in Counted(f)'
      BY <2>1 DEF ShownExact
    <3>1. Unchanged(k)
      BY <2>1 DEF Unchanged
    <3> QED
      BY <2>1, <3>1, CountedSame DEF ExactInv, ShownExact
  <2>3. ReadExact'
    <3>1. \A i \in 1 .. 4 : ~(i < step')
      BY <2>1
    <3> QED
      BY <3>1 DEF ReadExact
  <2> QED
    BY <2>1, <2>2, <2>3 DEF ExactInv, DueArrives
<1> QED
  BY <1>1, <1>2, <1>3, <1>4, <1>5, <1>6, <1>7 DEF Proceed, Fault

(* A panel that has nothing to wait for shows each transaction as the      *)
(* database has it, unless its last change had no event or lost it,        *)
(* although a call reads it in statements of different moments.            *)
THEOREM PanelTrue == Spec => []PanelExact
<1>1. Init => ExactInv
  <2> SUFFICES ASSUME Init PROVE ExactInv
    OBVIOUS
  <2>1. step = 0 /\ panel = "closed" /\ due = {}
    BY DEF Init
  <2>2. \A i \in 1 .. 4 : ~(i < step)
    BY <2>1
  <2> QED
    BY <2>1, <2>2 DEF ExactInv, ReadExact, ShownExact, DueArrives
<1>2. TypeOK /\ ExactInv /\ [Next]_vars => ExactInv'
  <2> SUFFICES ASSUME TypeOK, ExactInv, [Next]_vars PROVE ExactInv'
    OBVIOUS
  <2>1. CASE UNCHANGED vars
    <3>1. UNCHANGED <<callVars, panelVars>> /\ UNCHANGED <<status, outbox, due, unheard>>
      BY <2>1 DEF vars, callVars, panelVars
    <3>2. ReadExact' /\ ShownExact'
      BY <3>1, SameCalls DEF Unchanged
    <3> QED
      BY <2>1, <3>2 DEF vars, ExactInv, DueArrives
  <2> QED
    BY <2>1, WritersExact, PanelExactKeeps DEF Next, Settled
<1>3. TypeOK /\ ExactInv => PanelExact
  <2> SUFFICES ASSUME TypeOK, ExactInv, panel = "shown", step = 0, ticks = 0, outbox = Nothing,
                      NEW k \in Txs \ unheard, NEW f \in Fields
               PROVE  k \in shown[f] <=> k \in Counted(f)
    BY DEF PanelExact
  <2>1. due = {}
    BY DEF ExactInv, DueArrives
  <2>2. Unchanged(k)
    BY <2>1 DEF Unchanged, Nothing
  <2> QED
    BY <2>2 DEF ExactInv, ShownExact
<1> QED
  BY <1>1, <1>2, <1>3, BalanceTypes, PTL DEF Spec
=============================================================================
