\* The web page's entry point, nothing fails but the payment itself.
SPECIFICATION PaymentsFairSpec
CONSTANTS
    r1 = r1
    r2 = r2
    r3 = r3
    h1 = h1
    h2 = h2
    null = null
    Requests = {r1, r2}
    Hashes <- OneHash
    AmountMsat <- OneAmount
    Null = null
    Kinds <- AllKinds
    FeesMsat <- OneFee
    Faults <- NoFaults
INVARIANT ResultSaved
