\* Two invoices, every fault: the safety properties, and what a
\* received payment and a broken subscription lead to.
SPECIFICATION InvoicesFairSpec
CONSTANTS
    h1 = h1
    h2 = h2
    null = null
    Hashes <- MCHashes
    AmountMsat <- MCAmount
    Null = null
    Faults <- InvoicesFaultKinds
INVARIANTS
    InvoicesTypeOK
    NeverAhead
    CaughtUp
    EventsOrdered
    EventsRecorded
    BalanceExact
PROPERTIES
    InvoiceRowsFinal
    RecordedOrLost
    Reconnects
