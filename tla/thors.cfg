\* One request to pay and one invoice, every fault, and a client that walks
\* through the list with pages of one.
SPECIFICATION Spec
CONSTANTS
    r1 = r1
    h1 = h1
    null = null
    Requests = {r1}
    Hashes = {h1}
    AmountMsat <- MCAmount
    Null = null
    Kinds = {"rest"}
    FeesMsat <- MCFees
    Faults <- MCFaults
    Limit = 1
    Times = {1, 2}
INVARIANTS
    NoneSkipped
PROPERTIES
    ImplementsCommits
