--------------------------- MODULE InvoicesProofs ---------------------------
(***************************************************************************)
(* The safety properties of Invoices, for every set of invoices, amounts   *)
(* and faults: InvoicesInv is inductive, and what the run checks on two    *)
(* invoices follows from it.                                               *)
(***************************************************************************)
EXTENDS Invoices, LedgerProofs, SequenceTheorems

(* The states of an invoice and the statuses they are recorded as: only    *)
(* what cannot change any more is recorded as final.                       *)
LEMMA StatusFacts ==
    /\ \A s \in InvoiceStates : StatusFor(s) \in {"pending", "succeeded", "expired"}
    /\ \A s \in InvoiceStates : StatusFor(s) \in Final <=> s \in {"settled", "canceled"}
    /\ \A s, t \in InvoiceStates : Leads(s, t) /\ StatusFor(s) \in Final => s = t
    /\ \A s, t \in InvoiceStates :
        Leads(s, t) => StatusFor(s) \in {"pending", StatusFor(t)}
    /\ \A s, t, u \in InvoiceStates : Leads(s, t) /\ Leads(t, u) => Leads(s, u)
    /\ \A s \in InvoiceStates : Leads(s, s) /\ s # "none"
    /\ \A s \in InvoiceStates : ~ Leads(s, "none")
BY DEF InvoiceStates, StatusFor, Final, Leads

(* What is in the stream is a report, and what was broadcast an event.     *)
LEMMA QueueFacts ==
    ASSUME InvoicesTypeOK
    PROVE  /\ Len(stream) \in Nat /\ DOMAIN stream = 1 .. Len(stream)
           /\ \A i \in DOMAIN stream : stream[i] \in Reports
           /\ Len(events) \in Nat /\ DOMAIN events = 1 .. Len(events)
           /\ \A i \in DOMAIN events : events[i] \in Events
<1>1. stream \in Seq(Reports) /\ events \in Seq(Events)
  BY DEF InvoicesTypeOK
<1> QED
  BY <1>1, LenProperties, ElementOfSeq

(* A row of an invoice has a status of its own or is absent.               *)
LEMMA RowStatus ==
    ASSUME LedgerTypeOK, NEW h \in Hashes
    PROVE  /\ Invoice(h) \in Keys
           /\ InvoiceStatus(h) \in TxStatuses \cup {"none"}
           /\ InvoiceStatus(h) = "none" <=> ~ HasRow(Invoice(h))
<1>1. Invoice(h) \in Keys
  BY KeyFacts
<1>2. tx[Invoice(h)] \in Rows \cup {NoRow}
  BY <1>1 DEF LedgerTypeOK
<1> QED
  BY <1>1, <1>2, RowFacts DEF InvoiceStatus, HasRow, Rows

(* What the last word on an invoice is, spelled out: s is what the last    *)
(* report says, or the listing, or the row.                                *)
Says(h, s) ==
    \/ /\ \E i \in Coming(h) : \A j \in Coming(h) : j <= i
       /\ \A i \in Coming(h) :
            (\A j \in Coming(h) : j <= i) => StatusFor(stream[i].state) = s
    \/ /\ Coming(h) = {}
       /\ \E e \in batch : e.hash = h
       /\ \A e \in batch : e.hash = h => StatusFor(e.state) = s
    \/ /\ Coming(h) = {}
       /\ ~ \E e \in batch : e.hash = h
       /\ InvoiceStatus(h) = s

Said == \A h \in Hashes \ lost : Says(h, Mirror(h))

LEMMA OutlookSays == CaughtUp <=> Said
<1>1. ASSUME NEW h, NEW s
      PROVE  Outlook(h) = {s} <=> Says(h, s)
  <2> DEFINE last   == {i \in Coming(h) : \A j \in Coming(h) : j <= i}
             listed == {e \in batch : e.hash = h}
  <2>1. CASE Coming(h) # {}
    <3>1. Outlook(h) = {StatusFor(stream[i].state) : i \in last}
      BY <2>1 DEF Outlook
    <3> QED
      BY <2>1, <3>1 DEF Says
  <2>2. CASE Coming(h) = {} /\ listed # {}
    <3>1. Outlook(h) = {StatusFor(e.state) : e \in listed}
      BY <2>2 DEF Outlook
    <3> QED
      BY <2>2, <3>1 DEF Says
  <2>3. CASE Coming(h) = {} /\ listed = {}
    <3>1. Outlook(h) = {InvoiceStatus(h)}
      BY <2>3 DEF Outlook
    <3> QED
      BY <2>3, <3>1 DEF Says
  <2> QED
    BY <2>1, <2>2, <2>3
<1> QED
  BY <1>1 DEF CaughtUp, Said

LEMMA OutlookSaysNext == CaughtUp' <=> Said'
BY OutlookSays, PTL

(* The task writes what a report says that is sound: the row follows, no   *)
(* final row is touched, no row disappears, and the tables stay sound.     *)
LEMMA WriteSound ==
    ASSUME InvoicesInv, NEW e \in Reports, Sound(e),
           Upsert(Invoice(e.hash), StatusFor(e.state)),
           UNCHANGED <<lndInv, events>>
    PROVE  /\ LedgerTypeOK' /\ BalanceExact'
           /\ NeverAhead' /\ EventsRecorded' /\ TerminalFinal
           /\ InvoiceStatus(e.hash)' = StatusFor(e.state)
           /\ \A g \in Hashes \ {e.hash} : InvoiceStatus(g)' = InvoiceStatus(g)
<1> DEFINE h == e.hash
           k == Invoice(h)
           s == StatusFor(e.state)
<1>1. h \in Hashes /\ e.state \in InvoiceStates /\ LedgerTypeOK /\ BalanceExact
  BY DEF Reports, InvoicesInv, InvoicesTypeOK
<1>2. k \in Keys /\ s \in TxStatuses /\ s # "none"
  BY <1>1, RowStatus, StatusFacts DEF TxStatuses
<1>3. tx[k].status \in Final => tx[k].status = s
  BY DEF Sound, InvoiceStatus
<1>4. tx[k].status = "succeeded" => s = "succeeded"
  BY <1>3 DEF Final
<1>5. /\ LedgerTypeOK' /\ BalanceExact'
      /\ tx'[k].status = s
      /\ \A j \in Keys : j # k => tx'[j] = tx[j]
      /\ tx[k].status = s => tx' = tx
  BY <1>1, <1>2, <1>4, UpsertSound
<1>6. InvoiceStatus(h)' = s /\ \A g \in Hashes \ {h} : InvoiceStatus(g)' = InvoiceStatus(g)
  BY <1>1, <1>5, KeyFacts DEF InvoiceStatus
<1>7. lndInv[h] \in InvoiceStates /\ s \in {"pending", StatusFor(lndInv[h])}
  BY <1>1, StatusFacts DEF Sound, InvoicesInv, InvoicesTypeOK
<1>8. NeverAhead'
  <2> SUFFICES ASSUME NEW g \in Hashes, InvoiceStatus(g)' # "none"
               PROVE  lndInv[g] # "none" /\ InvoiceStatus(g)' \in {"pending", StatusFor(lndInv[g])}
    BY DEF NeverAhead
  <2> QED
    BY <1>6, <1>7, StatusFacts DEF InvoicesInv, NeverAhead
<1>9. EventsRecorded'
  <2> SUFFICES ASSUME NEW i \in DOMAIN events
               PROVE  \/ InvoiceStatus(events[i].hash)' = events[i].status
                      \/ events[i].status = "pending" /\ HasRow(Invoice(events[i].hash))'
    BY DEF EventsRecorded
  <2>1. events[i].hash \in Hashes
    BY QueueFacts DEF InvoicesInv, Events
  <2>2. \/ InvoiceStatus(events[i].hash) = events[i].status
        \/ events[i].status = "pending" /\ HasRow(Invoice(events[i].hash))
    BY DEF InvoicesInv, EventsRecorded
  <2>3. CASE events[i].hash # h
    <3>1. tx'[Invoice(events[i].hash)] = tx[Invoice(events[i].hash)]
      BY <1>1, <1>5, <2>1, <2>3, KeyFacts
    <3> QED
      BY <2>2, <3>1 DEF InvoiceStatus, HasRow
  <2>4. CASE events[i].hash = h
    <3>1. HasRow(k)'
      BY <1>2, <1>5, RowFacts DEF HasRow
    <3>2. events[i].status \in TxStatuses
      BY QueueFacts DEF InvoicesInv, Events
    <3>3. CASE events[i].status = "pending"
      BY <2>4, <3>1, <3>3
    <3>4. CASE events[i].status # "pending"
      <4>1. InvoiceStatus(h) = events[i].status /\ InvoiceStatus(h) # "none"
        BY <2>2, <2>4, <3>2, <3>4 DEF TxStatuses
      <4>2. InvoiceStatus(h) = StatusFor(lndInv[h])
        BY <1>1, <3>4, <4>1 DEF InvoicesInv, NeverAhead
      <4>3. InvoiceStatus(h) \in Final
        BY <1>7, <3>4, <4>1, <4>2, StatusFacts DEF Final
      <4> QED
        BY <1>3, <1>6, <2>4, <4>1, <4>3 DEF InvoiceStatus
    <3> QED
      BY <3>3, <3>4
  <2> QED
    BY <2>3, <2>4
<1>10. TerminalFinal
  <2> SUFFICES ASSUME NEW j \in Keys, tx[j].status \in {"succeeded", "failed", "expired"}
               PROVE  tx'[j] = tx[j]
    BY DEF TerminalFinal
  <2>1. CASE j # k
    BY <1>5, <2>1
  <2>2. CASE j = k
    <3>1. InvoiceStatus(h) \in {"pending", StatusFor(lndInv[h])}
      BY <1>1, <2>2 DEF InvoicesInv, NeverAhead, InvoiceStatus
    <3>2. InvoiceStatus(h) \in Final
      BY <1>7, <2>2, <3>1, StatusFacts DEF Final, InvoiceStatus
    <3> QED
      BY <1>3, <1>5, <2>2, <3>2 DEF InvoiceStatus
  <2> QED
    BY <2>1, <2>2
<1> QED
  BY <1>5, <1>6, <1>8, <1>9, <1>10

(* Nothing is stored, listed or reported at first.                         *)
LEMMA InvoicesInitially == InvoicesInit => InvoicesInv
<1> SUFFICES ASSUME InvoicesInit PROVE InvoicesInv
  OBVIOUS
<1> USE DEF InvoicesInit
<1>1. LedgerTypeOK /\ BalanceExact
  BY LedgerInitially
<1>2. InvoicesTypeOK
  BY <1>1 DEF InvoicesTypeOK, Phases
<1>3. \A h \in Hashes : InvoiceStatus(h) = "none"
  BY KeyFacts DEF LedgerInit, InvoiceStatus, NoRow
<1>4. Said
  <2>1. Len(stream) = 0 /\ DOMAIN stream = 1 .. Len(stream)
    BY <1>2, QueueFacts
  <2>2. \A h : Coming(h) = {}
    <3> HIDE DEF InvoicesInit
    <3> QED
      BY <2>1 DEF Coming
  <2> QED
    BY <1>3, <2>2 DEF Said, Says, Mirror
<1>5. NeverAhead /\ BatchSound /\ StreamSound /\ ToSendSound /\ EventsOrdered /\ EventsRecorded
  BY <1>3 DEF NeverAhead, BatchSound, StreamSound, ToSendSound, EventsOrdered, EventsRecorded
<1>6. Staged
  BY DEF Staged, Subscribed
<1> QED
  BY <1>1, <1>2, <1>4, <1>5, <1>6, OutlookSays DEF InvoicesInv

(* The task moves on, and nothing else changes.                            *)
LEMMA PhaseKeeps ==
    ASSUME InvoicesInv, Boot \/ ListFails \/ SyncDone \/ Subscribe \/ SubscribeFails \/ Retry
    PROVE  InvoicesInv' /\ tx' = tx
<1>1. /\ tx' = tx /\ balance' = balance /\ lndInv' = lndInv /\ batch' = batch
      /\ stream' = stream /\ toSend' = toSend /\ events' = events /\ lost' = lost
      /\ phase' \in Phases
  BY DEF Boot, ListFails, SyncDone, Subscribe, SubscribeFails, Retry, ledgerVars, Phases,
         InvoicesInv, Staged, Subscribed
<1>2. InvoicesTypeOK' /\ BalanceExact' /\ NeverAhead'
  BY <1>1 DEF InvoicesInv, InvoicesTypeOK, LedgerTypeOK, BalanceExact, NeverAhead, InvoiceStatus
<1>3. Staged'
  BY <1>1 DEF Boot, ListFails, SyncDone, Subscribe, SubscribeFails, Retry, InvoicesInv, Staged,
              Subscribed
<1>4. Said'
  <2>1. Said
    BY OutlookSays DEF InvoicesInv
  <2> QED
    BY <1>1, <2>1 DEF Said, Says, Coming, Mirror, InvoiceStatus
<1>5. BatchSound' /\ StreamSound'
  BY <1>1 DEF InvoicesInv, BatchSound, StreamSound, Sound, InvoiceStatus
<1>6. ToSendSound' /\ EventsOrdered' /\ EventsRecorded'
  BY <1>1 DEF InvoicesInv, ToSendSound, EventsOrdered, EventsRecorded, InvoiceStatus, HasRow
<1> QED
  BY <1>1, <1>2, <1>3, <1>4, <1>5, <1>6, OutlookSaysNext DEF InvoicesInv

(* The node changes an invoice that is not final yet: if the task hears of *)
(* it, that is the last report; if not, the invoice is lost.               *)
LEMMA ChangeKeeps ==
    ASSUME InvoicesInv, NEW h \in Hashes, NEW state \in InvoiceStates,
           lndInv[h] = "none" \/ (lndInv[h] \in {"open", "accepted"} /\ Leads(lndInv[h], state)),
           Change(h, state)
    PROVE  InvoicesInv' /\ tx' = tx
<1> DEFINE e == [hash |-> h, state |-> state]
<1>1. e \in Reports /\ e.hash = h /\ e.state = state
  BY DEF Reports
<1>2. /\ tx' = tx /\ balance' = balance /\ phase' = phase /\ batch' = batch
      /\ toSend' = toSend /\ events' = events
      /\ lndInv' = [lndInv EXCEPT ![h] = state]
  BY DEF Change, ledgerVars
<1>3. \/ Subscribed /\ stream' = Append(stream, e) /\ lost' = lost \ {h}
      \/ stream' = stream /\ lost' = lost \cup {h}
  BY DEF Change
<1>4. \A g \in Hashes : lndInv'[g] = IF g = h THEN state ELSE lndInv[g]
  BY <1>2 DEF InvoicesInv, InvoicesTypeOK
<1>5. stream \in Seq(Reports) /\ Append(stream, e) \in Seq(Reports)
  BY <1>1, AppendProperties DEF InvoicesInv, InvoicesTypeOK
<1>6. InvoicesTypeOK'
  BY <1>2, <1>3, <1>5 DEF InvoicesInv, InvoicesTypeOK, LedgerTypeOK
<1>7. BalanceExact'
  BY <1>2 DEF InvoicesInv, BalanceExact
<1>8. Staged'
  BY <1>2, <1>3 DEF InvoicesInv, Staged, Subscribed
<1>9. InvoiceStatus(h) \in {"none", "pending"}
  BY RowStatus, StatusFacts DEF InvoicesInv, InvoicesTypeOK, NeverAhead, InvoiceStates, Final
<1>10. NeverAhead'
  BY <1>2, <1>4, <1>9, StatusFacts DEF InvoicesInv, NeverAhead, InvoiceStatus
<1>11. \A f \in Reports : Sound(f) => Sound(f)'
  <2> SUFFICES ASSUME NEW f \in Reports, Sound(f)
               PROVE  Sound(f)'
    OBVIOUS
  <2>1. f.hash \in Hashes /\ f.state \in InvoiceStates
    BY DEF Reports
  <2>2. Leads(f.state, lndInv'[f.hash])
    BY <1>4, <2>1, StatusFacts DEF Sound, InvoiceStates
  <2> QED
    BY <1>2, <2>2 DEF Sound, InvoiceStatus
<1>12. BatchSound'
  BY <1>2, <1>11 DEF InvoicesInv, InvoicesTypeOK, BatchSound
<1>13. StreamSound'
  <2>1. CASE stream' = stream
    BY <1>11, <2>1, QueueFacts DEF InvoicesInv, StreamSound
  <2>2. CASE stream' = Append(stream, e)
    <3>1. /\ Len(stream') = Len(stream) + 1
          /\ DOMAIN stream' = 1 .. Len(stream) + 1
          /\ \A i \in 1 .. Len(stream) : stream'[i] = stream[i]
          /\ stream'[Len(stream) + 1] = e
      BY <1>1, <1>5, <2>2, AppendProperties, LenProperties
    <3>2. Sound(e)'
      BY <1>1, <1>2, <1>4, <1>9, StatusFacts DEF Sound, InvoiceStatus, Final
    <3>3. ASSUME NEW i \in DOMAIN stream'
          PROVE  Sound(stream[i])'
      <4>1. CASE i \in 1 .. Len(stream)
        <5>1. PICK f \in Reports : f = stream[i] /\ Sound(f)
          BY <4>1, QueueFacts DEF InvoicesInv, StreamSound
        <5>2. Sound(f)' /\ f = stream'[i]
          BY <1>11, <3>1, <4>1, <5>1
        <5> QED
          BY <5>2 DEF Sound
      <4>2. CASE i = Len(stream) + 1
        BY <3>1, <3>2, <4>2 DEF Sound
      <4> QED
        BY <3>1, <4>1, <4>2, QueueFacts DEF InvoicesInv
    <3>4. ASSUME NEW i \in DOMAIN stream', NEW j \in DOMAIN stream',
                 i < j, stream'[i].hash = stream'[j].hash
          PROVE  Leads(stream'[i].state, stream'[j].state)
      <4>1. i \in 1 .. Len(stream) /\ stream'[i] = stream[i] /\ stream[i] \in Reports
        BY <3>1, <3>4, QueueFacts DEF InvoicesInv
      <4>2. CASE j \in 1 .. Len(stream)
        BY <3>1, <3>4, <4>1, <4>2, QueueFacts DEF InvoicesInv, StreamSound
      <4>3. CASE j = Len(stream) + 1
        <5>1. stream[i].hash = h /\ Sound(stream[i])
          BY <1>1, <3>1, <3>4, <4>1, <4>3, QueueFacts DEF InvoicesInv, StreamSound
        <5>2. Leads(stream[i].state, lndInv[h]) /\ stream[i].state \in InvoiceStates
          BY <4>1, <5>1 DEF Sound, Reports
        <5>3. Leads(stream[i].state, state)
          BY <5>2, StatusFacts DEF InvoiceStates
        <5> QED
          BY <1>1, <3>1, <4>1, <4>3, <5>3
      <4> QED
        BY <3>1, <4>2, <4>3, QueueFacts DEF InvoicesInv
    <3> QED
      BY <3>3, <3>4 DEF StreamSound
  <2> QED
    BY <1>3, <2>1, <2>2
<1>14. Said'
  <2> SUFFICES ASSUME NEW g \in Hashes \ lost'
               PROVE  Says(g, Mirror(g))'
    BY DEF Said
  <2>1. CASE stream' = stream /\ lost' = lost \cup {h}
    <3>1. g # h /\ Says(g, Mirror(g))
      BY <2>1, OutlookSays DEF InvoicesInv, Said
    <3> QED
      BY <1>2, <1>4, <2>1, <3>1 DEF Says, Coming, Mirror, InvoiceStatus
  <2>2. CASE stream' = Append(stream, e) /\ lost' = lost \ {h}
    <3>1. /\ DOMAIN stream = 1 .. Len(stream)
          /\ DOMAIN stream' = 1 .. Len(stream) + 1
          /\ \A i \in 1 .. Len(stream) : stream'[i] = stream[i]
          /\ stream'[Len(stream) + 1] = e
          /\ Len(stream) \in Nat
      BY <1>1, <1>5, <2>2, AppendProperties, LenProperties
    <3>2. CASE g = h
      <4>1. Len(stream) + 1 \in Coming(g)'
        BY <1>1, <3>1, <3>2 DEF Coming
      <4>2. \A j \in Coming(g)' : j <= Len(stream) + 1 /\ j \in Nat
        BY <3>1 DEF Coming
      <4>3. Mirror(g)' = StatusFor(state)
        BY <1>4, <3>2, StatusFacts DEF Mirror
      <4>4. \A i \in Coming(g)' : (\A j \in Coming(g)' : j <= i) => i = Len(stream) + 1
        BY <3>1, <4>1, <4>2
      <4>5. \A i \in Coming(g)' : (\A j \in Coming(g)' : j <= i) => StatusFor(stream'[i].state) = Mirror(g)'
        BY <1>1, <3>1, <4>3, <4>4
      <4> QED
        BY <4>1, <4>2, <4>5 DEF Says
    <3>3. CASE g # h
      <4>1. Says(g, Mirror(g)) /\ Mirror(g)' = Mirror(g)
        BY <1>4, <2>2, <3>3, OutlookSays DEF InvoicesInv, Said, Mirror
      <4>2. Coming(g)' = Coming(g)
        BY <1>1, <3>1, <3>3 DEF Coming
      <4>3. \A i \in Coming(g) : stream'[i] = stream[i]
        BY <3>1 DEF Coming
      <4> QED
        BY <1>2, <4>1, <4>2, <4>3 DEF Says, InvoiceStatus
    <3> QED
      BY <3>2, <3>3
  <2> QED
    BY <1>3, <2>1, <2>2
<1>15. ToSendSound' /\ EventsOrdered' /\ EventsRecorded'
  BY <1>2 DEF InvoicesInv, ToSendSound, EventsOrdered, EventsRecorded, InvoiceStatus, HasRow
<1> QED
  BY <1>2, <1>6, <1>7, <1>8, <1>10, <1>12, <1>13, <1>14, <1>15, OutlookSaysNext DEF InvoicesInv

(* The listing makes up for everything: whatever the node has is listed,   *)
(* and what it has not got has no row.                                     *)
LEMMA ListKeeps ==
    ASSUME InvoicesInv, ListInvoices
    PROVE  InvoicesInv' /\ tx' = tx
<1>1. /\ tx' = tx /\ balance' = balance /\ lndInv' = lndInv /\ phase' = "sync"
      /\ stream' = stream /\ toSend' = toSend /\ events' = events /\ lost' = {}
      /\ phase = "list"
  BY DEF ListInvoices, ledgerVars
<1>2. /\ \A e \in batch' : e \in Reports /\ e.state = lndInv[e.hash]
      /\ \A h \in Hashes : (\E e \in batch' : e.hash = h) <=> lndInv[h] # "none"
      /\ \A e, f \in batch' : e.hash = f.hash => e = f
  <2> DEFINE listing(h) == [hash |-> h, state |-> lndInv[h]]
  <2>1. \A e : e \in batch' <=> \E h \in Hashes : lndInv[h] # "none" /\ e = listing(h)
    BY DEF ListInvoices
  <2>2. \A h \in Hashes : listing(h).hash = h /\ listing(h).state = lndInv[h]
    OBVIOUS
  <2>3. \A h \in Hashes : lndInv[h] # "none" => listing(h) \in Reports
    BY DEF Reports, InvoicesInv, InvoicesTypeOK
  <2> HIDE DEF listing
  <2> QED
    BY <2>1, <2>2, <2>3
<1>3. InvoicesTypeOK' /\ BalanceExact' /\ NeverAhead'
  BY <1>1, <1>2 DEF InvoicesInv, InvoicesTypeOK, LedgerTypeOK, BalanceExact, NeverAhead, InvoiceStatus, Phases
<1>4. Staged' /\ stream = <<>>
  BY <1>1 DEF InvoicesInv, Staged, Subscribed
<1>5. ASSUME NEW e \in batch' PROVE Sound(e)'
  <2>1. e.hash \in Hashes /\ e.state \in InvoiceStates /\ e.state = lndInv[e.hash]
    BY <1>2 DEF Reports
  <2>2. InvoiceStatus(e.hash) \in Final => InvoiceStatus(e.hash) = StatusFor(e.state)
    BY <2>1 DEF InvoicesInv, NeverAhead, Final
  <2> QED
    BY <1>1, <2>1, <2>2, StatusFacts DEF Sound, InvoiceStatus
<1>6. BatchSound'
  BY <1>2, <1>5 DEF BatchSound
<1>7. StreamSound'
  BY <1>1 DEF InvoicesInv, StreamSound, Sound, InvoiceStatus
<1>8. Said'
  <2> SUFFICES ASSUME NEW h \in Hashes
               PROVE  Says(h, Mirror(h))'
    BY DEF Said
  <2>1. Len(stream') = 0 /\ DOMAIN stream' = 1 .. Len(stream')
    BY <1>1, <1>4, QueueFacts DEF InvoicesInv
  <2>2. Coming(h)' = {}
    BY <2>1 DEF Coming
  <2>3. CASE lndInv[h] = "none"
    <3>1. InvoiceStatus(h) = "none"
      BY <2>3 DEF InvoicesInv, NeverAhead
    <3> QED
      BY <1>1, <1>2, <2>2, <2>3, <3>1 DEF Says, Mirror, InvoiceStatus
  <2>4. CASE lndInv[h] # "none"
    BY <1>1, <1>2, <2>2, <2>4 DEF Says, Mirror
  <2> QED
    BY <2>3, <2>4
<1>9. ToSendSound' /\ EventsOrdered' /\ EventsRecorded'
  BY <1>1 DEF InvoicesInv, ToSendSound, EventsOrdered, EventsRecorded, InvoiceStatus, HasRow
<1> QED
  BY <1>1, <1>3, <1>4, <1>6, <1>7, <1>8, <1>9, OutlookSaysNext DEF InvoicesInv

(* One upsert of the sync, or one that fails.                              *)
LEMMA SyncKeeps ==
    ASSUME InvoicesInv, NEW e \in batch, SyncOne(e)
    PROVE  InvoicesInv' /\ TerminalFinal
<1> DEFINE h == e.hash
<1>1. /\ lndInv' = lndInv /\ phase' = phase /\ phase = "sync" /\ batch' = batch \ {e}
      /\ stream' = stream /\ toSend' = toSend /\ events' = events
      /\ \/ Upsert(Invoice(h), StatusFor(e.state)) /\ lost' = lost
         \/ tx' = tx /\ balance' = balance /\ lost' = lost \cup {h}
  BY DEF SyncOne, ledgerVars
<1>2. e \in Reports /\ h \in Hashes /\ Sound(e)
  BY DEF InvoicesInv, InvoicesTypeOK, BatchSound, Reports
<1>3. /\ LedgerTypeOK' /\ BalanceExact' /\ NeverAhead' /\ EventsRecorded' /\ TerminalFinal
      /\ InvoiceStatus(h)' \in {InvoiceStatus(h), StatusFor(e.state)}
      /\ lost' = lost => InvoiceStatus(h)' = StatusFor(e.state) \/ h \in lost
      /\ \A g \in Hashes \ {h} : InvoiceStatus(g)' = InvoiceStatus(g)
  <2>1. CASE Upsert(Invoice(h), StatusFor(e.state))
    BY <1>1, <1>2, <2>1, WriteSound
  <2>2. CASE tx' = tx /\ balance' = balance /\ lost' = lost \cup {h}
    BY <1>1, <1>2, <2>2 DEF InvoicesInv, InvoicesTypeOK, LedgerTypeOK, BalanceExact, NeverAhead,
                           EventsRecorded, TerminalFinal, InvoiceStatus, HasRow
  <2> QED
    BY <1>1, <2>1, <2>2
<1>4. InvoicesTypeOK'
  BY <1>1, <1>2, <1>3 DEF InvoicesInv, InvoicesTypeOK
<1>5. Staged' /\ stream = <<>> /\ toSend = Null
  BY <1>1 DEF InvoicesInv, Staged, Subscribed
<1>6. BatchSound'
  <2>1. \A f \in batch' : f \in batch /\ f.hash \in Hashes /\ f.hash # h
    BY <1>1 DEF InvoicesInv, BatchSound, InvoicesTypeOK, Reports
  <2> QED
    BY <1>1, <1>3, <2>1 DEF InvoicesInv, BatchSound, Sound
<1>7. Len(stream) = 0 /\ DOMAIN stream = 1 .. Len(stream)
  BY <1>5, QueueFacts DEF InvoicesInv
<1>8. StreamSound'
  BY <1>1, <1>7 DEF StreamSound
<1>9. Said'
  <2> SUFFICES ASSUME NEW g \in Hashes \ lost'
               PROVE  Says(g, Mirror(g))'
    BY DEF Said
  <2>1. Coming(g) = {} /\ Coming(g)' = {}
    BY <1>1, <1>7 DEF Coming
  <2>2. g \notin lost /\ Says(g, Mirror(g)) /\ Mirror(g)' = Mirror(g)
    BY <1>1, OutlookSays DEF InvoicesInv, Said, Mirror
  <2>3. CASE g # h
    <3>1. \A f : f \in batch' /\ f.hash = g <=> f \in batch /\ f.hash = g
      BY <1>1, <2>3
    <3>2. InvoiceStatus(g)' = InvoiceStatus(g)
      BY <1>3, <2>3
    <3> QED
      BY <2>1, <2>2, <3>1, <3>2 DEF Says
  <2>4. CASE g = h
    <3>1. InvoiceStatus(h)' = StatusFor(e.state)
      BY <1>1, <1>3, <2>2, <2>4
    <3>2. \A f \in batch' : f.hash # h
      BY <1>1 DEF InvoicesInv, BatchSound
    <3>3. StatusFor(e.state) = Mirror(h)
      BY <2>1, <2>2, <2>4 DEF Says
    <3> QED
      BY <2>1, <2>2, <2>4, <3>1, <3>2, <3>3 DEF Says
  <2> QED
    BY <2>3, <2>4
<1>10. ToSendSound' /\ EventsOrdered'
  BY <1>1, <1>5 DEF InvoicesInv, ToSendSound, EventsOrdered
<1> QED
  BY <1>3, <1>4, <1>5, <1>6, <1>8, <1>9, <1>10, OutlookSaysNext DEF InvoicesInv

(* The report at the head of the stream, and what is behind it.            *)
LEMMA HeadFacts ==
    ASSUME InvoicesInv, stream # <<>>
    PROVE  /\ Head(stream) = stream[1] /\ 1 \in DOMAIN stream
           /\ Head(stream) \in Reports /\ Sound(Head(stream))
           /\ Tail(stream) \in Seq(Reports)
           /\ DOMAIN Tail(stream) = 1 .. Len(stream) - 1
           /\ \A i \in 1 .. Len(stream) - 1 : Tail(stream)[i] = stream[i + 1]
<1>1. stream \in Seq(Reports)
  BY DEF InvoicesInv, InvoicesTypeOK
<1>2. Len(stream) \in Nat \ {0} /\ DOMAIN stream = 1 .. Len(stream)
  BY <1>1, EmptySeq, LenProperties
<1>3. Head(stream) = stream[1] /\ Head(stream) \in Reports
  BY <1>1, HeadTailProperties
<1>4. /\ Tail(stream) \in Seq(Reports)
      /\ Len(Tail(stream)) = Len(stream) - 1
      /\ \A i \in 1 .. Len(Tail(stream)) : Tail(stream)[i] = stream[i + 1]
  BY <1>1, HeadTailProperties
<1>5. DOMAIN Tail(stream) = 1 .. Len(stream) - 1
  BY <1>4, LenProperties
<1>6. Sound(Head(stream))
  BY <1>2, <1>3 DEF InvoicesInv, StreamSound
<1> QED
  BY <1>2, <1>3, <1>4, <1>5, <1>6

(* The task takes the report at the head of the stream; its row follows,   *)
(* or stays, and the reports behind it are as sound as they were.          *)
LEMMA DrainStream ==
    ASSUME InvoicesInv, stream # <<>>, stream' = Tail(stream), lndInv' = lndInv,
           NEW e \in Reports, e = Head(stream),
           InvoiceStatus(e.hash)' \in {InvoiceStatus(e.hash), StatusFor(e.state)},
           \A g \in Hashes \ {e.hash} : InvoiceStatus(g)' = InvoiceStatus(g)
    PROVE  StreamSound'
<1>1. /\ e = stream[1] /\ 1 \in DOMAIN stream /\ e \in Reports
      /\ DOMAIN stream = 1 .. Len(stream) /\ Len(stream) \in Nat
      /\ DOMAIN stream' = 1 .. Len(stream) - 1
      /\ \A i \in 1 .. Len(stream) - 1 : stream'[i] = stream[i + 1]
  BY HeadFacts, QueueFacts DEF InvoicesInv
<1>2. ASSUME NEW i \in DOMAIN stream'
      PROVE  Sound(stream[i])'
  <2>1. PICK f \in Reports : f = stream[i + 1] /\ f = stream'[i] /\ i + 1 \in DOMAIN stream
    BY <1>1, <1>2, QueueFacts DEF InvoicesInv
  <2>2. Sound(f) /\ f.hash \in Hashes /\ f.state \in InvoiceStates /\ e.state \in InvoiceStates
    BY <1>1, <2>1 DEF InvoicesInv, StreamSound, Reports
  <2>3. f.hash = e.hash => Leads(e.state, f.state)
    BY <1>1, <1>2, <2>1 DEF InvoicesInv, StreamSound
  <2>4. InvoiceStatus(f.hash)' \in Final => InvoiceStatus(f.hash)' = StatusFor(f.state)
    <3>1. CASE f.hash # e.hash
      BY <2>2, <3>1 DEF Sound
    <3>2. CASE f.hash = e.hash /\ InvoiceStatus(e.hash)' = InvoiceStatus(e.hash)
      BY <2>2, <3>2 DEF Sound, InvoiceStatus
    <3>3. CASE f.hash = e.hash /\ InvoiceStatus(e.hash)' = StatusFor(e.state)
      BY <2>2, <2>3, <3>3, StatusFacts DEF InvoiceStatus
    <3> QED
      BY <3>1, <3>2, <3>3
  <2>5. Sound(f)'
    BY <2>2, <2>4 DEF Sound
  <2> QED
    BY <2>1, <2>5 DEF Sound
<1>3. ASSUME NEW i \in DOMAIN stream', NEW j \in DOMAIN stream',
             i < j, stream'[i].hash = stream'[j].hash
      PROVE  Leads(stream'[i].state, stream'[j].state)
  <2>1. /\ stream'[i] = stream[i + 1] /\ i + 1 \in DOMAIN stream
        /\ stream'[j] = stream[j + 1] /\ j + 1 \in DOMAIN stream
        /\ i + 1 < j + 1
    BY <1>1, <1>3
  <2> QED
    BY <1>3, <2>1 DEF InvoicesInv, StreamSound
<1> QED
  BY <1>2, <1>3 DEF StreamSound

(* The last word on an invoice does not change, unless it was the report   *)
(* that the task takes; then it is for the row to say so.                  *)
LEMMA DrainSays ==
    ASSUME InvoicesInv, stream # <<>>, stream' = Tail(stream),
           batch' = batch, batch = {}, lndInv' = lndInv,
           NEW h \in Hashes \ lost,
           Coming(h) = {1} => InvoiceStatus(h)' = StatusFor(Head(stream).state),
           Coming(h) = {} => InvoiceStatus(h)' = InvoiceStatus(h)
    PROVE  Says(h, Mirror(h))'
<1>1. /\ Head(stream) = stream[1] /\ 1 \in DOMAIN stream
      /\ DOMAIN stream = 1 .. Len(stream) /\ Len(stream) \in Nat
      /\ DOMAIN stream' = 1 .. Len(stream) - 1
      /\ \A i \in 1 .. Len(stream) - 1 : stream'[i] = stream[i + 1]
  BY HeadFacts, QueueFacts DEF InvoicesInv
<1>2. \A i \in Int : i \in Coming(h)' <=> i >= 1 /\ i + 1 \in Coming(h)
  BY <1>1 DEF Coming
<1>3. Coming(h) \subseteq Nat \ {0} /\ Coming(h)' \subseteq Nat \ {0}
  BY <1>1 DEF Coming
<1>4. Says(h, Mirror(h)) /\ Mirror(h)' = Mirror(h)
  BY OutlookSays DEF InvoicesInv, Said, Mirror
<1>5. CASE Coming(h) = {}
  <2>1. Coming(h)' = {}
    BY <1>2, <1>3, <1>5
  <2> QED
    BY <1>4, <1>5, <2>1 DEF Says
<1>6. CASE Coming(h) = {1}
  <2>1. Coming(h)' = {}
    BY <1>2, <1>3, <1>6
  <2>2. StatusFor(stream[1].state) = Mirror(h)
    BY <1>4, <1>6 DEF Says
  <2> QED
    BY <1>1, <1>4, <1>6, <2>1, <2>2 DEF Says
<1>7. CASE Coming(h) # {} /\ Coming(h) # {1}
  <2>1. PICK n \in Coming(h) : \A j \in Coming(h) : j <= n
    BY <1>4, <1>7 DEF Says
  <2>2. n > 1
    BY <1>3, <1>7, <2>1
  <2>3. n - 1 \in Coming(h)' /\ \A j \in Coming(h)' : j <= n - 1
    BY <1>2, <1>3, <2>1, <2>2
  <2>4. \A i \in Coming(h)' : (\A j \in Coming(h)' : j <= i) => i = n - 1
    BY <1>3, <2>3
  <2>5. StatusFor(stream[n].state) = Mirror(h)
    BY <1>4, <1>7, <2>1 DEF Says
  <2>6. stream'[n - 1] = stream[n]
    BY <1>1, <2>1, <2>2 DEF Coming
  <2> QED
    BY <1>4, <2>3, <2>4, <2>5, <2>6 DEF Says
<1> QED
  BY <1>5, <1>6, <1>7

(* A report is handled: its event is to follow exactly if the row changes, *)
(* and then nothing but "pending" has been broadcast of the invoice.       *)
LEMMA HandleKeeps ==
    ASSUME InvoicesInv, HandleEvent \/ HandleFails
    PROVE  InvoicesInv' /\ TerminalFinal
<1>1. /\ phase = "stream" /\ stream # <<>> /\ stream' = Tail(stream)
      /\ lndInv' = lndInv /\ batch' = batch /\ events' = events
  BY DEF HandleEvent, HandleFails
<1>2. PICK e \in Reports :
        /\ e = Head(stream) /\ e = stream[1] /\ 1 \in DOMAIN stream /\ Sound(e)
        /\ stream' \in Seq(Reports)
  BY <1>1, HeadFacts
<1> DEFINE h == e.hash
           k == Invoice(h)
           s == StatusFor(e.state)
<1>3. h \in Hashes /\ e.state \in InvoiceStates /\ s \in TxStatuses
  BY <1>2, StatusFacts DEF Reports, TxStatuses
<1>4. \/ Upsert(k, s) /\ lost' = lost
      \/ tx' = tx /\ balance' = balance /\ (Coming(h) = {1} => h \in lost') /\ lost' \subseteq lost \cup {h}
                 /\ lost \subseteq lost'
  BY <1>2 DEF HandleEvent, HandleFails, ledgerVars
<1>5. /\ LedgerTypeOK' /\ BalanceExact' /\ NeverAhead' /\ EventsRecorded' /\ TerminalFinal
      /\ InvoiceStatus(h)' \in {InvoiceStatus(h), s}
      /\ InvoiceStatus(h)' = s \/ (Coming(h) = {1} => h \in lost')
      /\ \A g \in Hashes \ {h} : InvoiceStatus(g)' = InvoiceStatus(g)
      /\ lost' \subseteq lost \cup {h} /\ lost \subseteq lost'
  <2>1. CASE Upsert(k, s) /\ lost' = lost
    BY <1>1, <1>2, <2>1, WriteSound
  <2>2. CASE /\ tx' = tx /\ balance' = balance /\ (Coming(h) = {1} => h \in lost')
             /\ lost' \subseteq lost \cup {h} /\ lost \subseteq lost'
    BY <1>1, <2>2 DEF InvoicesInv, InvoicesTypeOK, LedgerTypeOK, BalanceExact, NeverAhead,
                      EventsRecorded, TerminalFinal, InvoiceStatus, HasRow
  <2> QED
    BY <1>4, <2>1, <2>2
<1>6. /\ toSend = Null /\ batch = {}
      /\ \/ phase' = "stream" /\ toSend' = Null
         \/ /\ phase' = "publish" /\ toSend' = [hash |-> h, status |-> s]
            /\ Upsert(k, s) /\ ~ UpToDate(k, s) /\ InvoiceStatus(h)' = s
  <2>1. toSend = Null /\ batch = {}
    BY <1>1 DEF InvoicesInv, Staged
  <2>2. CASE HandleFails
    BY <1>1, <2>1, <2>2 DEF HandleFails
  <2>3. CASE HandleEvent
    <3>1. Upsert(k, s)
      BY <1>2, <2>3 DEF HandleEvent
    <3>2. InvoiceStatus(h)' = s
      BY <1>1, <1>2, <3>1, WriteSound
    <3> QED
      BY <1>1, <1>2, <2>1, <2>3, <3>1, <3>2 DEF HandleEvent
  <2> QED
    BY <2>1, <2>2, <2>3
<1>7. [hash |-> h, status |-> s] \in Events /\ [hash |-> h, status |-> s] # Null
  <2>1. [hash |-> h, status |-> s] \in Events
    BY <1>3 DEF Events
  <2> QED
    BY <2>1, NoEventAssumption
<1>8. InvoicesTypeOK'
  BY <1>1, <1>2, <1>3, <1>5, <1>6, <1>7 DEF InvoicesInv, InvoicesTypeOK, Phases
<1>9. Staged'
  BY <1>1, <1>6, <1>7 DEF Staged, Subscribed
<1>10. BatchSound'
  BY <1>1, <1>6 DEF BatchSound
<1>11. StreamSound'
  BY <1>1, <1>2, <1>5, DrainStream
<1>12. Said'
  <2> SUFFICES ASSUME NEW g \in Hashes \ lost'
               PROVE  Says(g, Mirror(g))'
    BY DEF Said
  <2>1. g \in Hashes \ lost
    BY <1>5
  <2>2. Coming(g) = {1} => g = h /\ InvoiceStatus(g)' = s
    BY <1>2, <1>5 DEF Coming, InvoiceStatus
  <2>3. Coming(g) = {} => InvoiceStatus(g)' = InvoiceStatus(g)
    <3>1. h = g => 1 \in Coming(g)
      BY <1>2 DEF Coming
    <3> QED
      BY <1>5, <2>1, <3>1
  <2> QED
    BY <1>1, <1>2, <1>6, <2>1, <2>2, <2>3, DrainSays
<1>13. EventsOrdered'
  BY <1>1 DEF InvoicesInv, EventsOrdered
<1>14. ToSendSound'
  <2>1. CASE toSend' = Null
    BY <2>1 DEF ToSendSound
  <2>2. CASE /\ toSend' = [hash |-> h, status |-> s]
             /\ ~ UpToDate(k, s) /\ InvoiceStatus(h)' = s
    <3>1. InvoiceStatus(h) # s
      BY <1>3, <2>2, RowStatus, StatusFacts DEF UpToDate, InvoiceStatus, InvoicesInv, InvoicesTypeOK, TxStatuses
    <3>2. InvoiceStatus(h) \notin Final
      BY <1>2, <3>1 DEF Sound
    <3>3. InvoiceStatus(h) \in {"none", "pending"}
      BY <1>2, <1>3, <3>2, StatusFacts DEF InvoicesInv, NeverAhead, InvoicesTypeOK, Sound, Final
    <3>4. ASSUME NEW i \in DOMAIN events, events[i].hash = h
          PROVE  events[i].status = "pending" /\ s # "pending"
      <4>1. events[i].status \in TxStatuses
        BY QueueFacts DEF InvoicesInv, Events
      <4>2. \/ InvoiceStatus(h) = events[i].status
            \/ events[i].status = "pending" /\ HasRow(k)
        BY <3>4 DEF InvoicesInv, EventsRecorded
      <4>3. InvoiceStatus(h) # "none"
        BY <1>3, <4>1, <4>2, RowStatus DEF InvoicesInv, InvoicesTypeOK, TxStatuses
      <4> QED
        BY <3>1, <3>3, <4>1, <4>2, <4>3
    <3> QED
      BY <1>1, <2>2, <3>4 DEF ToSendSound, InvoiceStatus
  <2> QED
    BY <1>6, <2>1, <2>2
<1> QED
  BY <1>5, <1>8, <1>9, <1>10, <1>11, <1>12, <1>13, <1>14, OutlookSaysNext DEF InvoicesInv

(* The event of the row just written is broadcast.                         *)
LEMMA PublishKeeps ==
    ASSUME InvoicesInv, PublishChange
    PROVE  InvoicesInv' /\ tx' = tx
<1>1. /\ tx' = tx /\ balance' = balance /\ lndInv' = lndInv /\ batch' = batch
      /\ stream' = stream /\ lost' = lost /\ phase = "publish" /\ phase' = "stream"
      /\ toSend' = Null /\ events' = Append(events, toSend)
  BY DEF PublishChange, ledgerVars
<1>2. toSend # Null /\ toSend \in Events /\ events \in Seq(Events)
  BY <1>1 DEF InvoicesInv, Staged, InvoicesTypeOK
<1>3. /\ events' \in Seq(Events) /\ Len(events) \in Nat
      /\ DOMAIN events = 1 .. Len(events) /\ DOMAIN events' = 1 .. Len(events) + 1
      /\ \A i \in 1 .. Len(events) : events'[i] = events[i]
      /\ events'[Len(events) + 1] = toSend
  BY <1>1, <1>2, AppendProperties, LenProperties
<1>4. InvoicesTypeOK' /\ BalanceExact' /\ NeverAhead'
  BY <1>1, <1>3 DEF InvoicesInv, InvoicesTypeOK, LedgerTypeOK, BalanceExact, NeverAhead, InvoiceStatus, Phases
<1>5. Staged' /\ ToSendSound'
  BY <1>1 DEF InvoicesInv, Staged, Subscribed, ToSendSound
<1>6. BatchSound' /\ StreamSound'
  BY <1>1 DEF InvoicesInv, BatchSound, StreamSound, Sound, InvoiceStatus
<1>7. Said'
  <2>1. Said
    BY OutlookSays DEF InvoicesInv
  <2> QED
    BY <1>1, <2>1 DEF Said, Says, Coming, Mirror, InvoiceStatus
<1>8. EventsOrdered'
  <2> SUFFICES ASSUME NEW i \in DOMAIN events', NEW j \in DOMAIN events',
                      i < j, events'[i].hash = events'[j].hash
               PROVE  events'[i].status = "pending" /\ events'[j].status # "pending"
    BY DEF EventsOrdered
  <2>1. i \in 1 .. Len(events) /\ events'[i] = events[i]
    BY <1>3
  <2>2. CASE j \in 1 .. Len(events)
    BY <1>3, <2>1, <2>2 DEF InvoicesInv, EventsOrdered
  <2>3. CASE j = Len(events) + 1
    BY <1>2, <1>3, <2>1, <2>3 DEF InvoicesInv, ToSendSound
  <2> QED
    BY <1>3, <2>2, <2>3
<1>9. EventsRecorded'
  <2> SUFFICES ASSUME NEW i \in DOMAIN events'
               PROVE  \/ InvoiceStatus(events'[i].hash) = events'[i].status
                      \/ events'[i].status = "pending" /\ HasRow(Invoice(events'[i].hash))
    BY <1>1 DEF EventsRecorded, InvoiceStatus, HasRow
  <2>1. CASE i \in 1 .. Len(events)
    BY <1>3, <2>1 DEF InvoicesInv, EventsRecorded
  <2>2. CASE i = Len(events) + 1
    BY <1>2, <1>3, <2>2 DEF InvoicesInv, ToSendSound
  <2> QED
    BY <1>3, <2>1, <2>2
<1> QED
  BY <1>1, <1>4, <1>5, <1>6, <1>7, <1>8, <1>9, OutlookSaysNext DEF InvoicesInv

(* The stream ends, or the process: what was listed or reported and not    *)
(* handled is lost, and counted as lost.                                   *)
LEMMA LoseKeeps ==
    ASSUME InvoicesInv, StreamEnds \/ TaskCrashes
    PROVE  InvoicesInv' /\ tx' = tx
<1>1. /\ tx' = tx /\ balance' = balance /\ lndInv' = lndInv /\ events' = events
      /\ phase' \in {"down", "backoff"} /\ batch' = {} /\ stream' = <<>> /\ toSend' = Null
      /\ lost' = lost \cup StreamedHashes \cup {e.hash : e \in batch}
  BY DEF StreamEnds, TaskCrashes, ledgerVars, InvoicesInv, Staged
<1>2. Len(stream') = 0 /\ DOMAIN stream' = 1 .. Len(stream') /\ stream' \in Seq(Reports)
  BY <1>1, EmptySeq, LenProperties
<1>3. StreamedHashes \subseteq Hashes /\ {e.hash : e \in batch} \subseteq Hashes
  BY QueueFacts DEF InvoicesInv, InvoicesTypeOK, StreamedHashes, Reports
<1>4. InvoicesTypeOK' /\ BalanceExact' /\ NeverAhead'
  BY <1>1, <1>2, <1>3 DEF InvoicesInv, InvoicesTypeOK, LedgerTypeOK, BalanceExact, NeverAhead,
                          InvoiceStatus, Phases
<1>5. Staged' /\ ToSendSound' /\ BatchSound'
  BY <1>1 DEF Staged, Subscribed, ToSendSound, BatchSound
<1>6. StreamSound'
  BY <1>2 DEF StreamSound
<1>7. Said'
  <2> SUFFICES ASSUME NEW h \in Hashes \ lost'
               PROVE  Says(h, Mirror(h))'
    BY DEF Said
  <2>1. h \notin lost /\ Coming(h) = {} /\ ~ \E e \in batch : e.hash = h
    BY <1>1 DEF Coming, StreamedHashes
  <2>2. InvoiceStatus(h) = Mirror(h)
    BY <2>1, OutlookSays DEF InvoicesInv, Said, Says
  <2>3. Coming(h)' = {}
    BY <1>2 DEF Coming
  <2> QED
    BY <1>1, <2>2, <2>3 DEF Says, Mirror, InvoiceStatus
<1>8. EventsOrdered' /\ EventsRecorded'
  BY <1>1 DEF InvoicesInv, EventsOrdered, EventsRecorded, InvoiceStatus, HasRow
<1> QED
  BY <1>1, <1>4, <1>5, <1>6, <1>7, <1>8, OutlookSaysNext DEF InvoicesInv

(* The node's changes, one by one.                                         *)
LEMMA NodeKeeps ==
    ASSUME InvoicesInv, NEW h \in Hashes, Node(h)
    PROVE  InvoicesInv' /\ tx' = tx
<1>1. PICK state \in InvoiceStates :
        /\ \/ lndInv[h] = "none"
           \/ lndInv[h] \in {"open", "accepted"} /\ Leads(lndInv[h], state)
        /\ Change(h, state)
  BY DEF Node, CreateInvoice, Accept, Settle, Cancel, InvoiceStates, Leads
<1> QED
  BY <1>1, ChangeKeeps

(* No row changes and the invariant with it when nothing happens.          *)
LEMMA StutterKeeps ==
    ASSUME InvoicesInv, UNCHANGED invoicesVars
    PROVE  InvoicesInv' /\ tx' = tx
<1>1. /\ tx' = tx /\ balance' = balance /\ lndInv' = lndInv /\ phase' = phase
      /\ batch' = batch /\ stream' = stream /\ toSend' = toSend /\ events' = events
      /\ lost' = lost
  BY DEF invoicesVars, invoicesOwn
<1>2. Said'
  <2>1. Said
    BY OutlookSays DEF InvoicesInv
  <2> QED
    BY <1>1, <2>1 DEF Said, Says, Coming, Mirror, InvoiceStatus
<1>3. InvoicesTypeOK' /\ BalanceExact' /\ NeverAhead' /\ Staged'
  BY <1>1 DEF InvoicesInv, InvoicesTypeOK, LedgerTypeOK, BalanceExact, NeverAhead, InvoiceStatus, Staged,
              Subscribed
<1>4. BatchSound' /\ StreamSound'
  BY <1>1 DEF InvoicesInv, BatchSound, StreamSound, Sound, InvoiceStatus
<1>5. ToSendSound' /\ EventsOrdered' /\ EventsRecorded'
  BY <1>1 DEF InvoicesInv, ToSendSound, EventsOrdered, EventsRecorded, InvoiceStatus, HasRow
<1> QED
  BY <1>1, <1>2, <1>3, <1>4, <1>5, OutlookSaysNext DEF InvoicesInv

(* Every step keeps the invariant and rewrites no final row.               *)
LEMMA NextKeeps == InvoicesInv /\ [InvoicesNext]_invoicesVars => InvoicesInv' /\ TerminalFinal
<1> SUFFICES ASSUME InvoicesInv, [InvoicesNext]_invoicesVars PROVE InvoicesInv' /\ TerminalFinal
  OBVIOUS
<1>1. tx' = tx => TerminalFinal
  BY DEF TerminalFinal
<1>2. ASSUME NEW h \in Hashes, Node(h) PROVE InvoicesInv' /\ TerminalFinal
  BY <1>1, <1>2, NodeKeeps
<1>3. CASE Boot \/ ListFails \/ SyncDone \/ Subscribe \/ SubscribeFails \/ Retry
  BY <1>1, <1>3, PhaseKeeps
<1>4. CASE ListInvoices
  BY <1>1, <1>4, ListKeeps
<1>5. ASSUME NEW e \in batch, SyncOne(e) PROVE InvoicesInv' /\ TerminalFinal
  BY <1>5, SyncKeeps
<1>6. CASE HandleEvent \/ HandleFails
  BY <1>6, HandleKeeps
<1>7. CASE PublishChange
  BY <1>1, <1>7, PublishKeeps
<1>8. CASE StreamEnds \/ TaskCrashes
  BY <1>1, <1>8, LoseKeeps
<1>9. CASE UNCHANGED invoicesVars
  BY <1>1, <1>9, StutterKeeps
<1> QED
  BY <1>2, <1>3, <1>4, <1>5, <1>6, <1>7, <1>8, <1>9 DEF InvoicesNext, TaskProceeds, TaskFault, Quiet

-----------------------------------------------------------------------------
(* The inductive invariant holds throughout.                               *)
THEOREM InvoicesInvariance == InvoicesSpec => []InvoicesInv
<1>1. InvoicesInit => InvoicesInv
  BY InvoicesInitially
<1>2. InvoicesInv /\ [InvoicesNext]_invoicesVars => InvoicesInv'
  BY NextKeeps
<1> QED
  BY <1>1, <1>2, PTL DEF InvoicesSpec

(* Every variable of the invoice path keeps its type.                      *)
THEOREM InvoicesTypes == InvoicesSpec => []InvoicesTypeOK
<1>1. InvoicesInv => InvoicesTypeOK
  BY DEF InvoicesInv
<1> QED
  BY <1>1, InvoicesInvariance, PTL

(* No row says more than the node (background.rs:30-61, 129-176), for any  *)
(* invoices and any faults.                                                *)
THEOREM TruthfulMirror == InvoicesSpec => []NeverAhead
<1>1. InvoicesInv => NeverAhead
  BY DEF InvoicesInv
<1> QED
  BY <1>1, InvoicesInvariance, PTL

(* A row that stays behind the node does so for a change that was not      *)
(* reported, a report that was lost, or a statement that failed.           *)
THEOREM CompleteMirror == InvoicesSpec => []CaughtUp
<1>1. InvoicesInv => CaughtUp
  BY DEF InvoicesInv
<1> QED
  BY <1>1, InvoicesInvariance, PTL

(* The browser hears of an invoice in the order of its life, and of each   *)
(* change at most once, over any number of restarts.                       *)
THEOREM OrderedEvents == InvoicesSpec => []EventsOrdered
<1>1. InvoicesInv => EventsOrdered
  BY DEF InvoicesInv
<1> QED
  BY <1>1, InvoicesInvariance, PTL

(* An event tells of what has been written.                                *)
THEOREM RecordedEvents == InvoicesSpec => []EventsRecorded
<1>1. InvoicesInv => EventsRecorded
  BY DEF InvoicesInv
<1> QED
  BY <1>1, InvoicesInvariance, PTL

(* The trigger counts every received payment exactly once.                 *)
THEOREM InvoicesBalance == InvoicesSpec => []BalanceExact
<1>1. InvoicesInv => BalanceExact
  BY DEF InvoicesInv
<1> QED
  BY <1>1, InvoicesInvariance, PTL

(* No step of the invoice path rewrites a final row.                       *)
THEOREM FinalInvoiceRows == InvoicesSpec => InvoiceRowsFinal
<1>1. InvoicesInv /\ [InvoicesNext]_invoicesVars => [TerminalFinal]_invoicesVars
  BY NextKeeps
<1> QED
  BY <1>1, InvoicesInvariance, PTL DEF InvoicesSpec, InvoiceRowsFinal

=============================================================================
