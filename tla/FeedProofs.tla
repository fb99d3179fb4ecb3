----------------------------- MODULE FeedProofs -----------------------------
(***************************************************************************)
(* What a page shows of the database, for any number of pages and          *)
(* transactions, any limit of the load, any capacity of the channel and    *)
(* all the faults.                                                         *)
(***************************************************************************)
EXTENDS Feed, SequenceTheorems, TLAPS

(* A status leads to itself and on.                                        *)
LEMMA LeadsFacts ==
    /\ \A s : Leads(s, s) /\ Leads("none", s)
    /\ \A s, t \in Statuses, u \in Statuses : Leads(s, t) /\ Leads(t, u) => Leads(s, u)
    /\ \A s, t \in Statuses :
        Leads(s, t) <=> s \in {"none", "pending", t} /\ (s # "none" => t # "none")
BY DEF Leads, Statuses, Final

(* A row moves on to a status of its own, which its old one leads to.      *)
LEMMA NextFacts ==
    ASSUME CommitsTypeOK, NEW k \in Txs, NEW s \in NextStatuses(k)
    PROVE  s \in Statuses \ {"none"} /\ Leads(status[k], s)
<1>1. status[k] \in Statuses /\ (k \in Invoices \/ k \in Payments)
  BY DEF CommitsTypeOK, Txs
<1>2. CASE status[k] = "none"
  <2>1. k \in Invoices \/ (k \in Payments /\ k \notin Invoices)
    BY <1>1
  <2> QED
    BY <1>2, <2>1, DisjointAssumption DEF NextStatuses, Statuses, Leads
<1>3. CASE status[k] = "pending"
  BY <1>1, <1>3, DisjointAssumption DEF NextStatuses, Statuses, Leads, Final
<1>4. CASE status[k] \notin {"none", "pending"}
  BY <1>4 DEF NextStatuses
<1> QED
  BY <1>2, <1>3, <1>4

(* Of events, and where the last one on a transaction is.                  *)
LEMMA QueueFacts ==
    ASSUME NEW q \in Seq(Events)
    PROVE  /\ Len(q) \in Nat /\ DOMAIN q = 1 .. Len(q)
           /\ \A i \in DOMAIN q :
                q[i] \in Events /\ q[i].tx \in Txs /\ q[i].status \in Statuses \ {"none"}
           /\ q = <<>> <=> Len(q) = 0
<1>1. Len(q) \in Nat /\ DOMAIN q = 1 .. Len(q) /\ \A i \in DOMAIN q : q[i] \in Events
  BY LenProperties, ElementOfSeq
<1>2. q = <<>> <=> Len(q) = 0
  BY EmptySeq
<1> QED
  BY <1>1, <1>2 DEF Events

(* An event that comes last has the last word.                             *)
LEMMA AppendFacts ==
    ASSUME NEW q \in Seq(Events), NEW e \in Events
    PROVE  LET a == Append(q, e)
           IN  /\ a \in Seq(Events) /\ Len(a) = Len(q) + 1
               /\ Comes(a, e.tx) /\ Ends(a, e.tx, e.status)
               /\ \A i \in DOMAIN a : a[i] = e \/ \E j \in DOMAIN q : a[i] = q[j]
               /\ \A k : k # e.tx => (Comes(a, k) <=> Comes(q, k))
               /\ \A k, s : k # e.tx /\ Ends(q, k, s) => Ends(a, k, s)
<1> DEFINE a == Append(q, e)
           n == Len(q)
<1>1. /\ a \in Seq(Events) /\ Len(a) = n + 1
      /\ \A i \in 1 .. n : a[i] = q[i]
      /\ a[n + 1] = e
  BY AppendProperties
<1>2. n \in Nat /\ DOMAIN q = 1 .. n /\ DOMAIN a = 1 .. n + 1
  BY <1>1, QueueFacts, LenProperties
<1> HIDE DEF a, n
<1>3. \A i \in DOMAIN a : i = n + 1 \/ i \in DOMAIN q
  BY <1>2
<1>4. Coming(a, e.tx) = Coming(q, e.tx) \cup {n + 1}
  BY <1>1, <1>2, <1>3 DEF Coming
<1>5. \A k : k # e.tx => Coming(a, k) = Coming(q, k)
  BY <1>1, <1>2, <1>3 DEF Coming
<1>6. Comes(a, e.tx) /\ Ends(a, e.tx, e.status)
  <2>1. \A j \in Coming(a, e.tx) : j <= n + 1
    BY <1>2 DEF Coming
  <2> QED
    BY <1>1, <1>4, <2>1 DEF Comes, Ends
<1>7. \A i \in DOMAIN a : a[i] = e \/ \E j \in DOMAIN q : a[i] = q[j]
  BY <1>1, <1>2, <1>3
<1>8. \A k : k # e.tx => (Comes(a, k) <=> Comes(q, k))
  BY <1>5 DEF Comes
<1>9. \A k, s : k # e.tx /\ Ends(q, k, s) => Ends(a, k, s)
  <2> SUFFICES ASSUME NEW k, NEW s, k # e.tx, Ends(q, k, s) PROVE Ends(a, k, s)
    OBVIOUS
  <2>1. PICK i \in Coming(q, k) : q[i].status = s /\ \A j \in Coming(q, k) : j <= i
    BY DEF Ends
  <2>2. a[i] = q[i]
    BY <1>1, <1>2, <2>1 DEF Coming
  <2> QED
    BY <1>5, <2>1, <2>2 DEF Ends
<1> QED
  BY <1>1, <1>6, <1>7, <1>8, <1>9 DEF a, n

(* When the first event is gone, the last word on a transaction stands, or *)
(* has been the first event.                                               *)
LEMMA TailFacts ==
    ASSUME NEW q \in Seq(Events), q # <<>>
    PROVE  LET t == Tail(q)
           IN  /\ t \in Seq(Events) /\ Len(t) = Len(q) - 1
               /\ Head(q) \in Events /\ 1 \in DOMAIN q /\ Head(q) = q[1]
               /\ \A i \in DOMAIN t : \E j \in DOMAIN q : t[i] = q[j]
               /\ \A k : Comes(t, k) => Comes(q, k)
               /\ \A k : Comes(q, k) /\ ~Comes(t, k) => Head(q).tx = k
               /\ \A k, s : Comes(t, k) /\ Ends(q, k, s) => Ends(t, k, s)
               /\ \A k, s : ~Comes(t, k) /\ Ends(q, k, s) => Head(q).status = s
<1> DEFINE t == Tail(q)
           n == Len(q)
<1>1. /\ t \in Seq(Events) /\ Len(t) = n - 1 /\ Head(q) \in Events
      /\ \A i \in 1 .. Len(t) : t[i] = q[i + 1]
  BY HeadTailProperties
<1>2. n \in Nat \ {0} /\ DOMAIN q = 1 .. n /\ DOMAIN t = 1 .. n - 1
  BY <1>1, QueueFacts, LenProperties
<1>3. Head(q) = q[1] /\ 1 \in DOMAIN q
  BY <1>2
<1> HIDE DEF t, n
<1>4. \A i \in DOMAIN t : i + 1 \in DOMAIN q /\ t[i] = q[i + 1]
  BY <1>1, <1>2
<1>5. \A i \in DOMAIN q : i = 1 \/ (i - 1 \in DOMAIN t /\ q[i] = t[i - 1])
  <2> SUFFICES ASSUME NEW i \in DOMAIN q, i # 1 PROVE i - 1 \in DOMAIN t /\ q[i] = t[i - 1]
    OBVIOUS
  <2>1. i - 1 \in DOMAIN t /\ (i - 1) + 1 = i
    BY <1>2
  <2> QED
    BY <1>4, <2>1
<1>6. \A k : \A i \in Coming(t, k) : i + 1 \in Coming(q, k) /\ i \in Int
  BY <1>2, <1>4 DEF Coming
<1>7. \A k : \A i \in Coming(q, k) : i \in Int /\ (i = 1 \/ i - 1 \in Coming(t, k))
  BY <1>2, <1>5 DEF Coming
<1>8. ASSUME NEW k, Comes(t, k) PROVE Comes(q, k)
  BY <1>6, <1>8 DEF Comes
<1>9. ASSUME NEW k, Comes(q, k), ~Comes(t, k) PROVE Head(q).tx = k /\ Coming(q, k) = {1}
  <2>1. Coming(q, k) = {1}
    BY <1>7, <1>9 DEF Comes
  <2> QED
    BY <1>3, <2>1 DEF Coming
<1>10. ASSUME NEW k, NEW s, Comes(t, k), Ends(q, k, s) PROVE Ends(t, k, s)
  <2>1. PICK i \in Coming(q, k) : q[i].status = s /\ \A j \in Coming(q, k) : j <= i
    BY <1>10 DEF Ends
  <2>2. PICK j \in Coming(t, k) : TRUE
    BY <1>10 DEF Comes
  <2>3. j + 1 <= i /\ j \in 1 .. n - 1 /\ i \in 1 .. n
    BY <1>2, <1>6, <2>1, <2>2 DEF Coming
  <2>4. i - 1 \in Coming(t, k) /\ q[i] = t[i - 1]
    BY <1>2, <1>5, <1>7, <2>3 DEF Coming
  <2>5. \A m \in Coming(t, k) : m <= i - 1
    BY <1>6, <2>1, <2>3
  <2> QED
    BY <2>1, <2>4, <2>5 DEF Ends
<1>11. ASSUME NEW k, NEW s, ~Comes(t, k), Ends(q, k, s) PROVE Head(q).status = s
  <2>1. Comes(q, k)
    BY <1>11 DEF Ends, Comes
  <2>2. Coming(q, k) = {1}
    BY <1>9, <1>11, <2>1
  <2> QED
    BY <1>3, <1>11, <2>2 DEF Ends
<1>12. \A i \in DOMAIN t : \E j \in DOMAIN q : t[i] = q[j]
  BY <1>4
<1> QED
  BY <1>1, <1>3, <1>8, <1>9, <1>10, <1>11, <1>12 DEF t, n

(* What goes through a channel, full or not: the new event has the last    *)
(* word, and the last word on the others stands unless it is dropped.      *)
LEMMA PushFacts ==
    ASSUME NEW q \in Seq(Events), Len(q) <= Capacity, NEW e \in Events
    PROVE  LET a == Push(q, e)
           IN  /\ a \in Seq(Events) /\ Len(a) <= Capacity
               /\ Comes(a, e.tx) /\ Ends(a, e.tx, e.status)
               /\ \A i \in DOMAIN a : a[i] = e \/ \E j \in DOMAIN q : a[i] = q[j]
               /\ \A k : k # e.tx /\ Comes(a, k) => Comes(q, k)
               /\ \A k : Comes(q, k) /\ ~Comes(a, k) => k \in Dropped(q)
               /\ \A k, s : k # e.tx /\ Comes(a, k) /\ Ends(q, k, s) => Ends(a, k, s)
<1>1. Len(q) \in Nat /\ Capacity \in Nat \ {0}
  BY QueueFacts, CapacityAssumption
<1>2. CASE Len(q) < Capacity
  <2>1. Push(q, e) = Append(q, e)
    BY <1>2 DEF Push
  <2>2. Len(Append(q, e)) <= Capacity
    BY <1>1, <1>2, AppendFacts
  <2> QED
    BY <2>1, <2>2, AppendFacts
<1>3. CASE ~(Len(q) < Capacity)
  <2> DEFINE t == Tail(q)
  <2>1. q # <<>> /\ Push(q, e) = Append(t, e) /\ Dropped(q) = {Head(q).tx}
    BY <1>1, <1>3, QueueFacts DEF Push, Dropped
  <2>2. /\ t \in Seq(Events) /\ Len(t) = Len(q) - 1
        /\ \A i \in DOMAIN t : \E j \in DOMAIN q : t[i] = q[j]
        /\ \A k : Comes(t, k) => Comes(q, k)
        /\ \A k : Comes(q, k) /\ ~Comes(t, k) => Head(q).tx = k
        /\ \A k, s : Comes(t, k) /\ Ends(q, k, s) => Ends(t, k, s)
    BY <2>1, TailFacts
  <2> HIDE DEF t
  <2>3. LET a == Append(t, e)
        IN  /\ a \in Seq(Events) /\ Len(a) = Len(t) + 1
            /\ Comes(a, e.tx) /\ Ends(a, e.tx, e.status)
            /\ \A i \in DOMAIN a : a[i] = e \/ \E j \in DOMAIN t : a[i] = t[j]
            /\ \A k : k # e.tx => (Comes(a, k) <=> Comes(t, k))
            /\ \A k, s : k # e.tx /\ Ends(t, k, s) => Ends(a, k, s)
    BY <2>2, AppendFacts
  <2>4. Len(Append(t, e)) <= Capacity
    BY <1>1, <2>2, <2>3
  <2>5. \A i \in DOMAIN Append(t, e) :
            Append(t, e)[i] = e \/ \E j \in DOMAIN q : Append(t, e)[i] = q[j]
    BY <2>2, <2>3
  <2> QED
    BY <2>1, <2>2, <2>3, <2>4, <2>5
<1> QED
  BY <1>2, <1>3

-----------------------------------------------------------------------------
(***************************************************************************)
(* The inductive invariant.                                                *)
(***************************************************************************)

(* What the proofs of the steps take from it.                              *)
LEMMA InvFacts ==
    ASSUME FeedInv
    PROVE  /\ \A p \in Pages : chan[p] \in Seq(Events) /\ Len(chan[p]) <= Capacity
           /\ \A k \in Txs : status[k] \in Statuses /\ outbox[k] \in {"none", status[k]}
           /\ \A p \in Pages, k \in Txs :
                /\ Leads(list[p][k], status[k]) /\ list[p][k] \in Statuses
                /\ Leads(answer[p][k], status[k]) /\ answer[p][k] \in Statuses
           /\ \A p \in Pages : \A i \in DOMAIN chan[p] :
                /\ chan[p][i].tx \in Txs /\ chan[p][i].status \in Statuses \ {"none"}
                /\ Leads(chan[p][i].status, status[chan[p][i].tx])
<1>1. \A p \in Pages : chan[p] \in Seq(Events) /\ Len(chan[p]) <= Capacity
  BY DEF FeedInv, TypeOK
<1>2. \A k \in Txs : status[k] \in Statuses /\ outbox[k] \in {"none", status[k]}
  BY DEF FeedInv, TypeOK, CommitsTypeOK, OutboxCurrent
<1>3. \A p \in Pages, k \in Txs :
        /\ list[p][k] \in Statuses /\ answer[p][k] \in Statuses
        /\ Leads(answer[p][k], status[k])
  BY DEF FeedInv, TypeOK, AnswerBehind
<1>4. \A p \in Pages, k \in Txs : Leads(list[p][k], status[k])
  BY <1>2, <1>3, LeadsFacts DEF FeedInv, NeverAhead, HasRow
<1>5. \A p \in Pages : \A i \in DOMAIN chan[p] :
        /\ chan[p][i].tx \in Txs /\ chan[p][i].status \in Statuses \ {"none"}
        /\ Leads(chan[p][i].status, status[chan[p][i].tx])
  BY <1>1, QueueFacts DEF FeedInv, ChanBehind
<1> QED
  BY <1>1, <1>2, <1>3, <1>4, <1>5

(* Nothing is stored, shown or under way at first.                         *)
LEMMA FeedInitially == Init => FeedInv
<1> SUFFICES ASSUME Init PROVE FeedInv
  OBVIOUS
<1> USE DEF Init, CommitsInit, Nothing
<1>1. TypeOK
  <2>1. <<>> \in Seq(Events) /\ Len(<<>>) = 0
    BY EmptySeq
  <2>2. created \in [{k \in Txs : HasRow(k)} -> Times]
    <3>1. {k \in Txs : HasRow(k)} = {}
      BY DEF HasRow
    <3> QED
      BY <3>1
  <2> QED
    BY <2>1, <2>2, CapacityAssumption DEF TypeOK, CommitsTypeOK, Statuses
<1>2. \A p \in Pages : DOMAIN chan[p] = {}
  <2>1. \A p \in Pages : Len(chan[p]) = 0 /\ chan[p] \in Seq(Events)
    BY EmptySeq
  <2> HIDE DEF Init
  <2> QED
    BY <2>1, QueueFacts
<1>3. NeverAhead /\ OutboxCurrent /\ OfflineEmpty /\ AnswerBehind
  BY DEF NeverAhead, HasRow, OutboxCurrent, OfflineEmpty, AnswerBehind, Leads
<1>4. ChanBehind /\ LastWord
  BY <1>2 DEF ChanBehind, LastWord, Comes, Coming
<1>5. SnapshotCurrent
  BY DEF SnapshotCurrent
<1> QED
  BY <1>1, <1>3, <1>4, <1>5 DEF FeedInv

(* A row moves on: a page that hears of it later will, and the others are  *)
(* told apart.                                                             *)
LEMMA WriteKeeps == ASSUME FeedInv, NEW k \in Txs, Write(k) PROVE FeedInv'
<1>1. PICK s \in NextStatuses(k) :
        /\ status' = [status EXCEPT ![k] = s]
        /\ \/ outbox' = [outbox EXCEPT ![k] = s] /\ stale' = stale
           \/ outbox' = outbox /\ stale' = Missed(Pages, {k})
  BY DEF Write, CommitAnnounced, CommitSilent, CommitUnheard
<1>2. /\ online' = online /\ chan' = chan /\ load' = load /\ answer' = answer
      /\ list' = list /\ early' = early /\ outbox[k] = "none"
  BY DEF Write, CommitAnnounced, CommitSilent, CommitUnheard, Writable, pageVars
<1>3. s \in Statuses \ {"none"} /\ Leads(status[k], s)
  BY NextFacts DEF FeedInv, TypeOK
<1>4. \A j \in Txs : status'[j] = (IF j = k THEN s ELSE status[j])
  BY <1>1 DEF FeedInv, TypeOK, CommitsTypeOK, HasRow
<1>5. \A j \in Txs : status'[j] \in Statuses /\ Leads(status[j], status'[j])
  BY <1>3, <1>4, LeadsFacts, InvFacts
<1>6. \A j \in Txs : \/ outbox'[j] = outbox[j] /\ (j = k => stale' = Missed(Pages, {k}))
                     \/ j = k /\ outbox'[j] = s
  BY <1>1 DEF FeedInv, TypeOK, CommitsTypeOK, HasRow
<1>7. \A p \in Pages : \A j \in Txs \ stale'[p] :
        /\ j \notin stale[p]
        /\ j = k /\ outbox'[j] = "none" => ~Served(p) /\ ~Comes(chan[p], k)
  BY <1>1, <1>3, <1>6 DEF Missed
<1>8. stale' \in [Pages -> SUBSET Txs]
  BY <1>1 DEF Missed, FeedInv, TypeOK
<1>9. TypeOK'
  <2>1. created' \in [{j \in Txs : HasRow(j)'} -> Times]
    <3>1. {j \in Txs : HasRow(j)'} = {j \in Txs : HasRow(j)} \cup {k}
      BY <1>3, <1>4 DEF HasRow
    <3>2. created \in [{j \in Txs : HasRow(j)} -> Times]
      BY DEF FeedInv, TypeOK
    <3>3. Stamp(k)
      BY DEF Write
    <3> QED
      BY <3>1, <3>2, <3>3 DEF Stamp
  <2> QED
    BY <1>1, <1>2, <1>3, <1>8, <2>1 DEF FeedInv, TypeOK, CommitsTypeOK
<1>10. OutboxCurrent'
  BY <1>2, <1>4, <1>6, InvFacts DEF OutboxCurrent
<1>11. OfflineEmpty'
  BY <1>2 DEF FeedInv, OfflineEmpty
<1>12. \A p \in Pages, j \in Txs :
        Leads(list[p][j], status'[j]) /\ Leads(answer[p][j], status'[j])
  BY <1>5, LeadsFacts, InvFacts
<1>13. NeverAhead'
  <2>1. \A p \in Pages, j \in Txs : list[p][j] \in Statuses /\ status'[j] \in Statuses
    BY <1>5, InvFacts
  <2> QED
    BY <1>2, <1>12, <2>1, LeadsFacts DEF NeverAhead, HasRow
<1>14. AnswerBehind'
  BY <1>2, <1>12 DEF AnswerBehind
<1>15. ChanBehind'
  <2> SUFFICES ASSUME NEW p \in Pages, NEW i \in DOMAIN chan[p]
               PROVE  Leads(chan[p][i].status, status'[chan[p][i].tx])
    BY <1>2 DEF ChanBehind
  <2> QED
    BY <1>5, LeadsFacts, InvFacts
<1>16. LastWord'
  <2> SUFFICES ASSUME NEW p \in Pages, NEW j \in Txs \ stale'[p],
                      outbox'[j] = "none", Comes(chan[p], j)
               PROVE  Ends(chan[p], j, status'[j])
    BY <1>2 DEF LastWord
  <2>1. j # k /\ j \notin stale[p]
    BY <1>7
  <2>2. outbox[j] = "none" /\ status'[j] = status[j]
    BY <1>4, <1>6, <2>1
  <2> QED
    BY <2>1, <2>2 DEF FeedInv, LastWord
<1>17. SnapshotCurrent'
  <2> SUFFICES ASSUME NEW p \in Pages, NEW j \in Txs \ stale'[p],
                      outbox'[j] = "none", ~Comes(chan[p], j), Served(p)
               PROVE  /\ load[p] = "answered" => j \in early[p] \/ answer[p][j] = status'[j]
                      /\ load[p] = "done" => list[p][j] = status'[j]
    BY <1>2 DEF SnapshotCurrent, Served
  <2>1. j # k /\ j \notin stale[p]
    BY <1>7
  <2>2. outbox[j] = "none" /\ status'[j] = status[j]
    BY <1>4, <1>6, <2>1
  <2> QED
    BY <2>1, <2>2 DEF FeedInv, SnapshotCurrent
<1> QED
  BY <1>9, <1>10, <1>11, <1>13, <1>14, <1>15, <1>16, <1>17 DEF FeedInv

(* The event goes to the pages that listen, and has the last word there;   *)
(* those that do not, or lose another event by it, are told apart.         *)
LEMMA BroadcastKeeps == ASSUME FeedInv, NEW k \in Txs, Broadcast(k) PROVE FeedInv'
<1> DEFINE e == [tx |-> k, status |-> outbox[k]]
           pushed == [p \in Pages |-> IF p \in online THEN Push(chan[p], e) ELSE chan[p]]
<1>1. /\ outbox[k] # "none" /\ outbox' = [outbox EXCEPT ![k] = "none"] /\ status' = status
      /\ created' = created
      /\ online' = online /\ load' = load /\ answer' = answer /\ list' = list /\ early' = early
  BY DEF Broadcast, TakeEvent, pageVars
<1>2. /\ chan' = pushed
      /\ stale' = [p \in Pages |->
            IF p \in online
            THEN (stale[p] \ {k}) \cup
                 {j \in Dropped(chan[p]) : Served(p) /\ ~Comes(pushed[p], j)}
            ELSE IF Served(p) THEN stale[p] \cup {k} ELSE stale[p]]
  BY DEF Broadcast
<1>3. /\ e \in Events /\ e.tx = k /\ e.status = status[k]
      /\ \A j \in Txs : outbox'[j] = IF j = k THEN "none" ELSE outbox[j]
  BY <1>1, InvFacts DEF FeedInv, TypeOK, CommitsTypeOK, HasRow, Events
<1> HIDE DEF e
<1>4. ASSUME NEW p \in Pages, p \in online
      PROVE  /\ chan'[p] = Push(chan[p], e)
             /\ stale'[p] = (stale[p] \ {k}) \cup
                            {j \in Dropped(chan[p]) : Served(p) /\ ~Comes(chan'[p], j)}
  BY <1>2, <1>4
<1>5. ASSUME NEW p \in Pages, p \notin online
      PROVE  /\ chan'[p] = chan[p]
             /\ stale'[p] = IF Served(p) THEN stale[p] \cup {k} ELSE stale[p]
  BY <1>2, <1>5
<1>6. ASSUME NEW p \in Pages, p \in online
      PROVE  /\ chan'[p] \in Seq(Events) /\ Len(chan'[p]) <= Capacity
             /\ Comes(chan'[p], k) /\ Ends(chan'[p], k, status[k])
             /\ \A i \in DOMAIN chan'[p] :
                    chan'[p][i] = e \/ \E j \in DOMAIN chan[p] : chan'[p][i] = chan[p][j]
             /\ \A j : j # k /\ Comes(chan'[p], j) => Comes(chan[p], j)
             /\ \A j : Comes(chan[p], j) /\ ~Comes(chan'[p], j) => j \in Dropped(chan[p])
             /\ \A j, s : j # k /\ Comes(chan'[p], j) /\ Ends(chan[p], j, s) =>
                    Ends(chan'[p], j, s)
  <2>1. chan[p] \in Seq(Events) /\ Len(chan[p]) <= Capacity /\ e \in Events
    BY <1>3, InvFacts
  <2>2. LET a == Push(chan[p], e)
        IN  /\ a \in Seq(Events) /\ Len(a) <= Capacity
            /\ Comes(a, e.tx) /\ Ends(a, e.tx, e.status)
            /\ \A i \in DOMAIN a : a[i] = e \/ \E j \in DOMAIN chan[p] : a[i] = chan[p][j]
            /\ \A j : j # e.tx /\ Comes(a, j) => Comes(chan[p], j)
            /\ \A j : Comes(chan[p], j) /\ ~Comes(a, j) => j \in Dropped(chan[p])
            /\ \A j, s : j # e.tx /\ Comes(a, j) /\ Ends(chan[p], j, s) => Ends(a, j, s)
    BY <2>1, PushFacts
  <2>3. chan'[p] = Push(chan[p], e) /\ e.tx = k /\ e.status = status[k]
    BY <1>3, <1>4, <1>6
  <2> QED
    BY <2>2, <2>3
<1>7. TypeOK'
  <2>1. chan' \in [Pages -> Seq(Events)] /\ \A p \in Pages : Len(chan'[p]) <= Capacity
    BY <1>2, <1>5, <1>6, InvFacts
  <2>2. \A p \in Pages : Dropped(chan[p]) \subseteq Txs
    <3> SUFFICES ASSUME NEW p \in Pages, ~(Len(chan[p]) < Capacity)
                 PROVE  Head(chan[p]).tx \in Txs
      BY DEF Dropped
    <3>1. chan[p] \in Seq(Events) /\ chan[p] # <<>>
      BY InvFacts, EmptySeq, CapacityAssumption
    <3>2. Head(chan[p]) \in Events
      BY <3>1, TailFacts
    <3> QED
      BY <3>2 DEF Events
  <2>3. stale \in [Pages -> SUBSET Txs]
    BY DEF FeedInv, TypeOK
  <2>4. stale' \in [Pages -> SUBSET Txs]
    <3>1. \A p \in Pages : stale'[p] \subseteq Txs
      BY <1>4, <1>5, <2>2, <2>3
    <3> QED
      BY <1>2, <3>1
  <2> QED
    BY <1>1, <2>1, <2>4 DEF FeedInv, TypeOK, CommitsTypeOK, HasRow, Statuses
<1>8. OutboxCurrent' /\ AnswerBehind' /\ NeverAhead'
  BY <1>1, <1>3 DEF FeedInv, OutboxCurrent, AnswerBehind, NeverAhead, HasRow
<1>9. OfflineEmpty'
  BY <1>1, <1>5 DEF FeedInv, OfflineEmpty
<1>10. ChanBehind'
  <2> SUFFICES ASSUME NEW p \in Pages, NEW i \in DOMAIN chan'[p]
               PROVE  Leads(chan'[p][i].status, status[chan'[p][i].tx])
    BY <1>1 DEF ChanBehind
  <2>1. CASE chan'[p][i] = e
    BY <1>3, <2>1, LeadsFacts
  <2>2. CASE \E j \in DOMAIN chan[p] : chan'[p][i] = chan[p][j]
    BY <2>2, InvFacts
  <2> QED
    BY <1>5, <1>6, <2>1, <2>2
<1>11. LastWord'
  <2> SUFFICES ASSUME NEW p \in Pages, NEW j \in Txs \ stale'[p],
                      outbox'[j] = "none", Comes(chan'[p], j)
               PROVE  Ends(chan'[p], j, status[j])
    BY <1>1 DEF LastWord
  <2>1. CASE p \in online /\ j = k
    BY <1>6, <2>1
  <2>2. CASE p \in online /\ j # k
    <3>1. j \notin stale[p] /\ outbox[j] = "none" /\ Comes(chan[p], j)
      BY <1>3, <1>4, <1>6, <2>2
    <3>2. Ends(chan[p], j, status[j])
      BY <3>1 DEF FeedInv, LastWord
    <3> QED
      BY <1>6, <2>2, <3>2
  <2>3. CASE p \notin online
    <3>1. chan[p] = <<>>
      BY <2>3 DEF FeedInv, OfflineEmpty
    <3>2. DOMAIN chan[p] = {}
      <4>1. chan[p] \in Seq(Events) /\ Len(chan[p]) = 0
        BY <3>1, EmptySeq, InvFacts
      <4> QED
        BY <4>1, QueueFacts
    <3>3. ~Comes(chan[p], j)
      BY <3>2 DEF Comes, Coming
    <3> QED
      BY <1>5, <2>3, <3>3
  <2> QED
    BY <2>1, <2>2, <2>3
<1>12. SnapshotCurrent'
  <2> SUFFICES ASSUME NEW p \in Pages, NEW j \in Txs \ stale'[p],
                      outbox'[j] = "none", ~Comes(chan'[p], j), Served(p)
               PROVE  /\ load[p] = "answered" => j \in early[p] \/ answer[p][j] = status[j]
                      /\ load[p] = "done" => list[p][j] = status[j]
    BY <1>1 DEF SnapshotCurrent, Served
  <2>1. j # k
    BY <1>5, <1>6
  <2>2. outbox[j] = "none" /\ j \notin stale[p]
    BY <1>3, <1>4, <1>5, <2>1
  <2>3. ~Comes(chan[p], j)
    BY <1>4, <1>5, <1>6
  <2> QED
    BY <2>2, <2>3 DEF FeedInv, SnapshotCurrent
<1> QED
  BY <1>7, <1>8, <1>9, <1>10, <1>11, <1>12 DEF FeedInv

(* The writer's event is lost on the way: every page that will not learn   *)
(* of the change is told apart.                                            *)
LEMMA ForgetKeeps == ASSUME FeedInv, NEW k \in Txs, Forget(k) PROVE FeedInv'
<1>1. /\ outbox' = [outbox EXCEPT ![k] = "none"] /\ status' = status
      /\ created' = created
      /\ online' = online /\ chan' = chan /\ load' = load /\ answer' = answer
      /\ list' = list /\ early' = early
      /\ stale' = Missed(Pages, {k})
  BY DEF Forget, TakeEvent, pageVars
<1>2. \A j \in Txs : outbox'[j] = IF j = k THEN "none" ELSE outbox[j]
  BY <1>1 DEF FeedInv, TypeOK, CommitsTypeOK, HasRow
<1>3. \A p \in Pages : \A j \in Txs \ stale'[p] :
        j \notin stale[p] /\ (j = k => ~Served(p) /\ ~Comes(chan[p], k))
  BY <1>1 DEF Missed
<1>4. TypeOK'
  <2>1. stale' \in [Pages -> SUBSET Txs]
    BY <1>1 DEF Missed, FeedInv, TypeOK
  <2> QED
    BY <1>1, <2>1 DEF FeedInv, TypeOK, CommitsTypeOK, HasRow, Statuses
<1>5. NeverAhead' /\ OutboxCurrent' /\ OfflineEmpty' /\ AnswerBehind' /\ ChanBehind'
  BY <1>1, <1>2 DEF FeedInv, NeverAhead, HasRow, OutboxCurrent, OfflineEmpty, AnswerBehind, ChanBehind
<1>6. LastWord'
  BY <1>1, <1>2, <1>3 DEF FeedInv, LastWord
<1>7. SnapshotCurrent'
  <2> SUFFICES ASSUME NEW p \in Pages, NEW j \in Txs \ stale'[p],
                      outbox'[j] = "none", ~Comes(chan[p], j), Served(p)
               PROVE  /\ load[p] = "answered" => j \in early[p] \/ answer[p][j] = status[j]
                      /\ load[p] = "done" => list[p][j] = status[j]
    BY <1>1 DEF SnapshotCurrent, Served
  <2>1. j # k /\ j \notin stale[p] /\ outbox[j] = "none"
    BY <1>2, <1>3
  <2> QED
    BY <2>1 DEF FeedInv, SnapshotCurrent
<1> QED
  BY <1>4, <1>5, <1>6, <1>7 DEF FeedInv

(* A page that is opened, or connects, has nothing to be told yet.         *)
LEMMA OpenKeeps == ASSUME FeedInv, NEW p \in Pages, Open(p) \/ Connect(p) PROVE FeedInv'
<1>1. /\ status' = status /\ created' = created /\ outbox' = outbox /\ answer' = answer /\ list' = list
      /\ early' = early /\ stale' = stale
  BY DEF Open, Connect, tableVars, commitVars, pageVars
<1>2. chan' = chan
  BY DEF Open, Connect, FeedInv, TypeOK, OfflineEmpty
<1>3. /\ online' \subseteq Pages /\ online \subseteq online'
      /\ load' \in [Pages -> {"closed", "asked", "answered", "done"}]
      /\ \A q \in Pages : load'[q] = load[q] \/ load'[q] = "asked"
  BY DEF Open, Connect, FeedInv, TypeOK, pageVars
<1>4. TypeOK'
  BY <1>1, <1>2, <1>3 DEF FeedInv, TypeOK, CommitsTypeOK, HasRow
<1>5. NeverAhead' /\ OutboxCurrent' /\ OfflineEmpty' /\ AnswerBehind' /\ ChanBehind' /\ LastWord'
  BY <1>1, <1>2, <1>3 DEF FeedInv, NeverAhead, HasRow, OutboxCurrent, OfflineEmpty, AnswerBehind,
                          ChanBehind, LastWord
<1>6. SnapshotCurrent'
  BY <1>1, <1>2, <1>3 DEF FeedInv, SnapshotCurrent
<1> QED
  BY <1>4, <1>5, <1>6 DEF FeedInv

(* The SELECT finds what is stored, and only an older event on the way can *)
(* spoil it; the rows beyond the limit are told apart.                     *)
LEMMA AnswerLoadKeeps == ASSUME FeedInv, NEW p \in Pages, AnswerLoad(p) PROVE FeedInv'
<1>1. PICK page \in ListTransactions(LoadLimit, 0) :
        /\ answer' = [answer EXCEPT ![p] =
                [k \in Txs |-> IF k \in ToSet(page) THEN status[k] ELSE "none"]]
        /\ stale' = [stale EXCEPT ![p] =
                {k \in stale[p] : Comes(chan[p], k)} \cup
                {k \in Txs \ ToSet(page) :
                    HasRow(k) /\ outbox[k] = "none" /\ ~Comes(chan[p], k)}]
  BY DEF AnswerLoad
<1> DEFINE rows == ToSet(page)
<1>2. /\ status' = status /\ created' = created /\ outbox' = outbox /\ online' = online
      /\ chan' = chan /\ list' = list
      /\ load' = [load EXCEPT ![p] = "answered"]
      /\ answer' = [answer EXCEPT ![p] =
                [k \in Txs |-> IF k \in rows THEN status[k] ELSE "none"]]
      /\ early' = [early EXCEPT ![p] = {}]
      /\ stale' = [stale EXCEPT ![p] =
                {k \in stale[p] : Comes(chan[p], k)} \cup
                {k \in Txs \ rows :
                    HasRow(k) /\ outbox[k] = "none" /\ ~Comes(chan[p], k)}]
  BY <1>1 DEF AnswerLoad, tableVars, commitVars
<1> HIDE DEF rows
<1>3. TypeOK'
  <2>1. answer' \in [Pages -> [Txs -> Statuses]]
    BY <1>2 DEF FeedInv, TypeOK, CommitsTypeOK, Statuses
  <2> QED
    BY <1>2, <2>1 DEF FeedInv, TypeOK, CommitsTypeOK, HasRow
<1>4. \A q \in Pages :
        \/ /\ q = p /\ load'[q] = "answered"
           /\ \A k \in Txs : answer'[q][k] = IF k \in rows THEN status[k] ELSE "none"
           /\ \A k \in Txs : Comes(chan[p], k) /\ k \notin stale'[q] => k \notin stale[q]
           /\ \A k \in Txs : outbox[k] = "none" /\ ~Comes(chan[p], k) /\ k \notin stale'[q] =>
                    k \in rows \/ ~HasRow(k)
        \/ /\ q # p /\ load'[q] = load[q] /\ answer'[q] = answer[q]
           /\ early'[q] = early[q] /\ stale'[q] = stale[q]
  BY <1>2 DEF FeedInv, TypeOK
<1>5. NeverAhead' /\ OutboxCurrent' /\ OfflineEmpty' /\ ChanBehind'
  BY <1>2 DEF FeedInv, NeverAhead, HasRow, OutboxCurrent, OfflineEmpty, ChanBehind
<1>6. AnswerBehind'
  BY <1>2, <1>4, LeadsFacts DEF FeedInv, AnswerBehind
<1>7. LastWord'
  BY <1>2, <1>4 DEF FeedInv, LastWord
<1>8. SnapshotCurrent'
  <2> SUFFICES ASSUME NEW q \in Pages, NEW k \in Txs \ stale'[q],
                      outbox[k] = "none", ~Comes(chan[q], k)
               PROVE  /\ load'[q] = "answered" => k \in early'[q] \/ answer'[q][k] = status[k]
                      /\ load'[q] = "done" => list'[q][k] = status[k]
    BY <1>2 DEF SnapshotCurrent
  <2>1. CASE q = p
    <3>1. load'[q] = "answered" /\ (k \in rows \/ status[k] = "none")
      BY <1>4, <2>1 DEF HasRow
    <3>2. answer'[q][k] = status[k]
      BY <1>4, <2>1, <3>1
    <3> QED
      BY <3>1, <3>2
  <2>2. CASE q # p
    BY <1>2, <1>4, <2>2 DEF FeedInv, SnapshotCurrent
  <2> QED
    BY <2>1, <2>2
<1> QED
  BY <1>3, <1>5, <1>6, <1>7, <1>8 DEF FeedInv

(* The answer is put on the screen; what it overwrites is told apart.      *)
LEMMA ReceiveLoadKeeps == ASSUME FeedInv, NEW p \in Pages, ReceiveLoad(p) PROVE FeedInv'
<1>1. /\ status' = status /\ created' = created /\ outbox' = outbox /\ online' = online /\ chan' = chan
      /\ answer' = answer /\ early' = early /\ load[p] = "answered"
      /\ load' = [load EXCEPT ![p] = "done"]
      /\ list' = [list EXCEPT ![p] = answer[p]]
      /\ stale' = [stale EXCEPT ![p] = stale[p] \cup early[p]]
  BY DEF ReceiveLoad, tableVars, commitVars
<1>2. TypeOK'
  BY <1>1 DEF FeedInv, TypeOK, CommitsTypeOK, HasRow
<1>3. \A q \in Pages :
        \/ q = p /\ load'[q] = "done" /\ list'[q] = answer[q]
                 /\ stale'[q] = stale[q] \cup early[q]
        \/ q # p /\ load'[q] = load[q] /\ list'[q] = list[q] /\ stale'[q] = stale[q]
  BY <1>1 DEF FeedInv, TypeOK
<1>4. OutboxCurrent' /\ OfflineEmpty' /\ AnswerBehind' /\ ChanBehind'
  BY <1>1 DEF FeedInv, OutboxCurrent, OfflineEmpty, AnswerBehind, ChanBehind
<1>5. NeverAhead'
  <2>1. \A q \in Pages, k \in Txs :
            /\ answer[q][k] \in {"none", "pending", status[k]}
            /\ answer[q][k] # "none" => status[k] # "none"
    BY LeadsFacts, InvFacts
  <2> QED
    BY <1>1, <1>3, <2>1 DEF FeedInv, NeverAhead, HasRow
<1>6. LastWord'
  BY <1>1, <1>3 DEF FeedInv, LastWord
<1>7. SnapshotCurrent'
  BY <1>1, <1>3 DEF FeedInv, SnapshotCurrent
<1> QED
  BY <1>2, <1>4, <1>5, <1>6, <1>7 DEF FeedInv

(* A page without an answer lacks every row there is.                      *)
LEMMA LoadFailsKeeps == ASSUME FeedInv, NEW p \in Pages, LoadFails(p) PROVE FeedInv'
<1>1. /\ status' = status /\ created' = created /\ outbox' = outbox /\ online' = online /\ chan' = chan
      /\ answer' = answer /\ early' = early
      /\ load' = [load EXCEPT ![p] = "done"]
      /\ list' = [list EXCEPT ![p] = Nothing]
      /\ stale' = [stale EXCEPT ![p] = {k \in Txs : status[k] # "none"}]
  BY DEF LoadFails, HasRow, tableVars, commitVars
<1>2. TypeOK'
  <2>1. Nothing \in [Txs -> Statuses]
    BY DEF Nothing, Statuses
  <2> QED
    BY <1>1, <2>1 DEF FeedInv, TypeOK, CommitsTypeOK, HasRow
<1>3. \A q \in Pages :
        \/ q = p /\ load'[q] = "done" /\ list'[q] = Nothing
                 /\ stale'[q] = {k \in Txs : status[k] # "none"}
        \/ q # p /\ load'[q] = load[q] /\ list'[q] = list[q] /\ stale'[q] = stale[q]
  BY <1>1 DEF FeedInv, TypeOK
<1>4. OutboxCurrent' /\ OfflineEmpty' /\ AnswerBehind' /\ ChanBehind'
  BY <1>1 DEF FeedInv, OutboxCurrent, OfflineEmpty, AnswerBehind, ChanBehind
<1>5. NeverAhead'
  BY <1>1, <1>3 DEF FeedInv, NeverAhead, HasRow, Nothing
<1>6. \A k \in Txs : Comes(chan[p], k) => status[k] # "none"
  <2> SUFFICES ASSUME NEW k \in Txs, NEW i \in DOMAIN chan[p], chan[p][i].tx = k
               PROVE  status[k] # "none"
    BY DEF Comes, Coming
  <2>1. Leads(chan[p][i].status, status[k]) /\ chan[p][i].status \in Statuses \ {"none"}
    BY InvFacts
  <2> QED
    BY <2>1, LeadsFacts, InvFacts
<1>7. LastWord'
  BY <1>1, <1>3, <1>6 DEF FeedInv, LastWord
<1>8. SnapshotCurrent'
  <2> SUFFICES ASSUME NEW q \in Pages, NEW k \in Txs \ stale'[q],
                      outbox[k] = "none", ~Comes(chan[q], k)
               PROVE  /\ load'[q] = "answered" => k \in early'[q] \/ answer'[q][k] = status[k]
                      /\ load'[q] = "done" => list'[q][k] = status[k]
    BY <1>1 DEF SnapshotCurrent
  <2>1. CASE q = p
    <3>1. load'[q] = "done" /\ list'[q][k] = "none" /\ status[k] = "none"
      BY <1>3, <2>1 DEF Nothing
    <3> QED
      BY <3>1
  <2>2. CASE q # p
    BY <1>1, <1>3, <2>2 DEF FeedInv, SnapshotCurrent
  <2> QED
    BY <2>1, <2>2
<1> QED
  BY <1>2, <1>4, <1>5, <1>7, <1>8 DEF FeedInv

(* The page applies an event: if it was the last one on its transaction,   *)
(* the list is now up to date, or will be overwritten and is told apart.   *)
LEMMA ReceiveKeeps == ASSUME FeedInv, NEW p \in Pages, Receive(p) PROVE FeedInv'
<1> DEFINE q == chan[p]
           t == Tail(chan[p])
           e == Head(chan[p])
<1>1. /\ status' = status /\ created' = created /\ outbox' = outbox /\ online' = online /\ load' = load
      /\ answer' = answer /\ stale' = stale /\ q # <<>> /\ p \in online
      /\ chan' = [chan EXCEPT ![p] = t]
      /\ list' = [list EXCEPT ![p] = [list[p] EXCEPT ![e.tx] = e.status]]
      /\ early' = IF load[p] = "answered"
                  THEN [early EXCEPT ![p] = early[p] \cup {e.tx}] ELSE early
  BY DEF Receive, Apply, tableVars, commitVars
<1>2. q \in Seq(Events) /\ Len(q) \in Nat /\ Len(q) <= Capacity
  BY InvFacts, QueueFacts
<1>3. /\ t \in Seq(Events) /\ Len(t) = Len(q) - 1
      /\ e \in Events /\ 1 \in DOMAIN q /\ e = q[1]
      /\ \A i \in DOMAIN t : \E j \in DOMAIN q : t[i] = q[j]
      /\ \A k : Comes(t, k) => Comes(q, k)
      /\ \A k : Comes(q, k) /\ ~Comes(t, k) => e.tx = k
      /\ \A k, s : Comes(t, k) /\ Ends(q, k, s) => Ends(t, k, s)
      /\ \A k, s : ~Comes(t, k) /\ Ends(q, k, s) => e.status = s
  BY <1>1, <1>2, TailFacts
<1>4. /\ e.tx \in Txs /\ e.status \in Statuses /\ Leads(e.status, status[e.tx])
      /\ Comes(q, e.tx)
  BY <1>3, InvFacts DEF Comes, Coming
<1> HIDE DEF q, t, e
<1>5. /\ chan'[p] = t /\ \A r \in Pages : r # p => chan'[r] = chan[r]
      /\ \A r \in Pages, k \in Txs :
            list'[r][k] = IF r = p /\ k = e.tx THEN e.status ELSE list[r][k]
      /\ \A r \in Pages : early[r] \subseteq early'[r]
      /\ load[p] = "answered" => e.tx \in early'[p]
  BY <1>1 DEF FeedInv, TypeOK
<1>6. TypeOK'
  <2>1. chan' \in [Pages -> Seq(Events)]
    BY <1>1, <1>3 DEF FeedInv, TypeOK
  <2>2. \A r \in Pages : Len(chan'[r]) <= Capacity
    BY <1>2, <1>3, <1>5, CapacityAssumption, InvFacts
  <2>3. list' \in [Pages -> [Txs -> Statuses]] /\ early' \in [Pages -> SUBSET Txs]
    BY <1>1, <1>4 DEF FeedInv, TypeOK
  <2> QED
    BY <1>1, <2>1, <2>2, <2>3 DEF FeedInv, TypeOK, CommitsTypeOK, HasRow
<1>7. OutboxCurrent' /\ AnswerBehind'
  BY <1>1 DEF FeedInv, OutboxCurrent, AnswerBehind
<1>8. OfflineEmpty'
  BY <1>1, <1>5 DEF FeedInv, OfflineEmpty
<1>9. NeverAhead'
  <2>1. e.status \in {"none", "pending", status[e.tx]}
            /\ (e.status # "none" => status[e.tx] # "none")
    BY <1>4, LeadsFacts, InvFacts
  <2> QED
    BY <1>1, <1>5, <2>1 DEF FeedInv, NeverAhead, HasRow
<1>10. ChanBehind'
  <2> SUFFICES ASSUME NEW r \in Pages, NEW i \in DOMAIN chan'[r]
               PROVE  Leads(chan'[r][i].status, status[chan'[r][i].tx])
    BY <1>1 DEF ChanBehind
  <2>1. PICK j \in DOMAIN chan[r] : chan'[r][i] = chan[r][j]
    BY <1>3, <1>5 DEF q
  <2> QED
    BY <2>1, InvFacts
<1>11. LastWord'
  <2> SUFFICES ASSUME NEW r \in Pages, NEW k \in Txs \ stale[r],
                      outbox[k] = "none", Comes(chan'[r], k)
               PROVE  Ends(chan'[r], k, status[k])
    BY <1>1 DEF LastWord
  <2>1. Comes(chan[r], k)
    BY <1>3, <1>5 DEF q
  <2>2. Ends(chan[r], k, status[k])
    BY <2>1 DEF FeedInv, LastWord
  <2> QED
    BY <1>3, <1>5, <2>2 DEF q
<1>12. SnapshotCurrent'
  <2> SUFFICES ASSUME NEW r \in Pages, NEW k \in Txs \ stale[r],
                      outbox[k] = "none", ~Comes(chan'[r], k)
               PROVE  /\ load[r] = "answered" => k \in early'[r] \/ answer[r][k] = status[k]
                      /\ load[r] = "done" => list'[r][k] = status[k]
    BY <1>1 DEF SnapshotCurrent
  <2>1. CASE Comes(chan[r], k)
    <3>1. r = p /\ k = e.tx
      BY <1>3, <1>5, <2>1 DEF q
    <3>2. Ends(q, k, status[k])
      BY <2>1, <3>1 DEF FeedInv, LastWord, q
    <3>3. e.status = status[k]
      BY <1>3, <1>5, <3>1, <3>2
    <3> QED
      BY <1>5, <3>1, <3>3
  <2>2. CASE ~Comes(chan[r], k)
    <3>1. ~(r = p /\ k = e.tx)
      BY <1>4, <2>2 DEF q
    <3> QED
      BY <1>5, <2>2, <3>1 DEF FeedInv, SnapshotCurrent
  <2> QED
    BY <2>1, <2>2
<1> QED
  BY <1>6, <1>7, <1>8, <1>9, <1>10, <1>11, <1>12 DEF FeedInv

(* What was on the way to a page is lost with its stream.                  *)
LEMMA DisconnectKeeps ==
    ASSUME FeedInv, NEW p \in Pages, Disconnect(p)
    PROVE  FeedInv'
<1>1. /\ status' = status /\ created' = created /\ outbox' = outbox /\ load' = load /\ answer' = answer
      /\ list' = list /\ early' = early
      /\ online' = online \ {p}
      /\ chan' = [chan EXCEPT ![p] = <<>>]
      /\ stale' = Missed({p}, Queued(p))
  BY DEF Disconnect, tableVars, commitVars, pageVars
<1>2. /\ chan'[p] = <<>> /\ \A r \in Pages : r # p => chan'[r] = chan[r]
      /\ \A r \in Pages : stale[r] \subseteq stale'[r]
      /\ Served(p) => \A k : Comes(chan[p], k) => k \in stale'[p]
  BY <1>1 DEF FeedInv, TypeOK, Missed, Queued, Comes, Coming
<1>3. <<>> \in Seq(Events) /\ Len(<<>>) = 0 /\ DOMAIN <<>> = {}
  <2>1. <<>> \in Seq(Events) /\ Len(<<>>) = 0
    BY EmptySeq
  <2> QED
    BY <2>1, QueueFacts
<1>4. ~ \E k : Comes(chan'[p], k)
  BY <1>2, <1>3 DEF Comes, Coming
<1>5. TypeOK'
  <2>1. \A r \in Pages : Len(chan'[r]) <= Capacity
    BY <1>2, <1>3, CapacityAssumption, InvFacts
  <2>2. stale' \in [Pages -> SUBSET Txs]
    <3>1. Queued(p) \subseteq Txs
      BY InvFacts DEF Queued
    <3> QED
      BY <1>1, <3>1 DEF Missed, FeedInv, TypeOK
  <2> QED
    BY <1>1, <1>3, <2>1, <2>2 DEF FeedInv, TypeOK, CommitsTypeOK, HasRow
<1>6. NeverAhead' /\ OutboxCurrent' /\ OfflineEmpty' /\ AnswerBehind'
  BY <1>1, <1>2 DEF FeedInv, NeverAhead, HasRow, OutboxCurrent, OfflineEmpty, AnswerBehind
<1>7. ChanBehind'
  BY <1>1, <1>2, <1>3 DEF FeedInv, ChanBehind
<1>8. LastWord'
  BY <1>1, <1>2, <1>4 DEF FeedInv, LastWord
<1>9. SnapshotCurrent'
  <2> SUFFICES ASSUME NEW r \in Pages, NEW k \in Txs \ stale'[r],
                      outbox[k] = "none", ~Comes(chan'[r], k), Served(r)
               PROVE  /\ load[r] = "answered" => k \in early[r] \/ answer[r][k] = status[k]
                      /\ load[r] = "done" => list[r][k] = status[k]
    BY <1>1 DEF SnapshotCurrent, Served
  <2>1. k \notin stale[r] /\ ~Comes(chan[r], k)
    BY <1>2
  <2> QED
    BY <2>1 DEF FeedInv, SnapshotCurrent
<1> QED
  BY <1>5, <1>6, <1>7, <1>8, <1>9 DEF FeedInv

(* A restart cuts every stream, and no event follows a commit before it.   *)
LEMMA CrashKeeps == ASSUME FeedInv, Crash PROVE FeedInv'
<1>1. /\ status' = status /\ created' = created /\ load' = load /\ answer' = answer /\ list' = list
      /\ early' = early /\ online' = {} /\ outbox' = Nothing
      /\ chan' = [p \in Pages |-> <<>>]
      /\ stale' = [p \in Pages |->
            IF Served(p)
            THEN stale[p] \cup Queued(p) \cup {k \in Txs : outbox[k] # "none"}
            ELSE stale[p]]
  BY DEF Crash, pageVars
<1>2. <<>> \in Seq(Events) /\ Len(<<>>) = 0 /\ DOMAIN <<>> = {}
  <2>1. <<>> \in Seq(Events) /\ Len(<<>>) = 0
    BY EmptySeq
  <2> QED
    BY <2>1, QueueFacts
<1>3. \A p \in Pages : DOMAIN chan'[p] = {} /\ chan'[p] = <<>>
  BY <1>1, <1>2
<1>4. TypeOK'
  <2>1. chan' \in [Pages -> Seq(Events)] /\ \A p \in Pages : Len(chan'[p]) <= Capacity
    BY <1>1, <1>2, CapacityAssumption
  <2>2. stale' \in [Pages -> SUBSET Txs]
    <3>1. \A p \in Pages : Queued(p) \subseteq Txs
      BY InvFacts DEF Queued
    <3> QED
      BY <1>1, <3>1 DEF FeedInv, TypeOK
  <2>3. outbox' \in [Txs -> Statuses]
    BY <1>1 DEF Nothing, Statuses
  <2> QED
    BY <1>1, <2>1, <2>2, <2>3 DEF FeedInv, TypeOK, CommitsTypeOK, HasRow
<1>5. NeverAhead' /\ OutboxCurrent' /\ OfflineEmpty' /\ AnswerBehind'
  BY <1>1, <1>3 DEF FeedInv, NeverAhead, HasRow, OutboxCurrent, OfflineEmpty, AnswerBehind, Nothing
<1>6. ChanBehind'
  BY <1>3 DEF ChanBehind
<1>7. LastWord'
  BY <1>3 DEF LastWord, Comes, Coming
<1>8. SnapshotCurrent'
  <2> SUFFICES ASSUME NEW r \in Pages, NEW k \in Txs \ stale'[r], Served(r)
               PROVE  /\ load[r] = "answered" => k \in early[r] \/ answer[r][k] = status[k]
                      /\ load[r] = "done" => list[r][k] = status[k]
    BY <1>1 DEF SnapshotCurrent, Served
  <2>1. k \notin stale[r] /\ outbox[k] = "none" /\ k \notin Queued(r)
    BY <1>1
  <2>2. ~Comes(chan[r], k)
    BY <2>1 DEF Queued, Comes, Coming
  <2> QED
    BY <2>1, <2>2 DEF FeedInv, SnapshotCurrent
<1> QED
  BY <1>4, <1>5, <1>6, <1>7, <1>8 DEF FeedInv

(* Every step keeps it.                                                    *)
LEMMA FeedKeeps == FeedInv /\ [Next]_vars => FeedInv'
<1> SUFFICES ASSUME FeedInv, [Next]_vars PROVE FeedInv'
  OBVIOUS
<1>1. ASSUME NEW k \in Txs, Write(k) \/ Broadcast(k) \/ Forget(k) PROVE FeedInv'
  BY <1>1, WriteKeeps, BroadcastKeeps, ForgetKeeps
<1>2. ASSUME NEW p \in Pages, Open(p) \/ Proceed(p) PROVE FeedInv'
  BY <1>2, OpenKeeps, AnswerLoadKeeps, ReceiveLoadKeeps, ReceiveKeeps DEF Proceed
<1>3. ASSUME NEW p \in Pages, Fault(p) PROVE FeedInv'
  BY <1>3, LoadFailsKeeps, DisconnectKeeps DEF Fault
<1>4. CASE Crash
  BY <1>4, CrashKeeps
<1>5. CASE UNCHANGED vars
  BY <1>5 DEF vars, tableVars, commitVars, pageVars, FeedInv, TypeOK, CommitsTypeOK, HasRow, NeverAhead, OutboxCurrent,
              OfflineEmpty, AnswerBehind, ChanBehind, LastWord, SnapshotCurrent
<1> QED
  BY <1>1, <1>2, <1>3, <1>4, <1>5 DEF Next, Settled

(* The invariant of the feed holds under every fault.                      *)
THEOREM FeedInvariance == Spec => []FeedInv
<1>1. Init => FeedInv
  BY FeedInitially
<1>2. FeedInv /\ [Next]_vars => FeedInv'
  BY FeedKeeps
<1> QED
  BY <1>1, <1>2, PTL DEF Spec

(* No channel holds more than its capacity, and every state is well typed. *)
THEOREM FeedTypes == Spec => []TypeOK
<1>1. FeedInv => TypeOK
  BY DEF FeedInv
<1> QED
  BY <1>1, FeedInvariance, PTL

(* No page shows what the database does not have.                          *)
THEOREM PagesBehind == Spec => []NeverAhead
<1>1. FeedInv => NeverAhead
  BY DEF FeedInv
<1> QED
  BY <1>1, FeedInvariance, PTL

(* A page that has its list shows the database, or will once it has        *)
(* received what is under way, except for the transactions it lost an      *)
(* event of, and those that were beyond the limit of its load and have had *)
(* no event since.                                                         *)
THEOREM PagesCaughtUp == Spec => []PageCaughtUp
<1>1. FeedInv => PageCaughtUp
  <2> SUFFICES ASSUME FeedInv, NEW p \in Pages, Served(p), NEW k \in Txs,
                      k \notin stale[p], load[p] = "answered" => k \notin early[p]
               PROVE  Outlook(p, k) = {status[k]}
    BY DEF PageCaughtUp
  <2>1. CASE outbox[k] # "none"
    BY <2>1, InvFacts DEF Outlook
  <2>2. CASE outbox[k] = "none" /\ Comes(chan[p], k)
    <3> DEFINE coming == Coming(chan[p], k)
               last   == {i \in coming : \A j \in coming : j <= i}
    <3>1. PICK i \in coming : chan[p][i].status = status[k] /\ \A j \in coming : j <= i
      BY <2>2 DEF FeedInv, LastWord, Ends
    <3>2. coming \subseteq Int
      BY InvFacts, QueueFacts DEF Coming
    <3>3. last = {i}
      BY <3>1, <3>2
    <3>4. Outlook(p, k) = {chan[p][j].status : j \in last}
      BY <2>2 DEF Outlook, Comes
    <3> HIDE DEF last
    <3> QED
      BY <3>1, <3>3, <3>4
  <2>3. CASE outbox[k] = "none" /\ ~Comes(chan[p], k)
    <3>1. /\ load[p] = "answered" => answer[p][k] = status[k]
          /\ load[p] = "done" => list[p][k] = status[k]
          /\ load[p] \in {"answered", "done"}
      BY <2>3 DEF FeedInv, SnapshotCurrent, Served
    <3>2. Coming(chan[p], k) = {}
      BY <2>3 DEF Comes
    <3> QED
      BY <2>3, <3>1, <3>2 DEF Outlook
  <2> QED
    BY <2>1, <2>2, <2>3
<1> QED
  BY <1>1, FeedInvariance, PTL
=============================================================================
