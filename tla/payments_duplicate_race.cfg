\* Two requests of POST /api/payment for one invoice, nothing fails.
SPECIFICATION PaymentsFairSpec
CONSTANTS
    r1 = r1
    r2 = r2
    r3 = r3
    h1 = h1
    h2 = h2
    null = null
    Requests = {r1, r2}
    Hashes <- OneHash
    AmountMsat <- OneAmount
    Null = null
    Kinds <- RestOnly
    FeesMsat <- OneFee
    Faults <- NoFaults
INVARIANT DuplicateAnswered400
