\* Three requests for one invoice, every fault, with fair scheduling:
\* the liveness properties.
SPECIFICATION PaymentsFairSpec
CONSTANTS
    r1 = r1
    r2 = r2
    r3 = r3
    h1 = h1
    h2 = h2
    null = null
    Requests = {r1, r2, r3}
    Hashes <- OneHash
    AmountMsat <- OneAmount
    Null = null
    Kinds <- AllKinds
    FeesMsat <- OneFee
    Faults <- PaymentsFaultKinds
PROPERTIES
    Answered
    PaidIsAnnounced
    PendingResolves
