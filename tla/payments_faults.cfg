\* Three requests for two invoices, through both entry points, under every
\* fault: the safety properties.
SPECIFICATION PaymentsSpec
CONSTANTS
    r1 = r1
    r2 = r2
    r3 = r3
    h1 = h1
    h2 = h2
    null = null
    Requests = {r1, r2, r3}
    Hashes <- MCHashes
    AmountMsat <- MCAmount
    Null = null
    Kinds <- AllKinds
    FeesMsat <- MCFees
    Faults <- PaymentsFaultKinds
SYMMETRY Interchangeable
INVARIANTS
    PaymentsTypeOK
    NoDoublePay
    RecordBeforeSend
    StatusTruthful
    AnswerHonest
    PublishedSound
    LockHeld
    BooksMatchNode
    BalanceExact
    PaymentsInv
PROPERTIES
    PaymentRowsFinal
    ImplementsPayOnce
