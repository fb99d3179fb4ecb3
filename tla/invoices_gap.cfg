\* One invoice, nothing fails, fair scheduling.
SPECIFICATION InvoicesFairSpec
CONSTANTS
    h1 = h1
    h2 = h2
    null = null
    Hashes <- OneHash
    AmountMsat <- OneAmount
    Null = null
    Faults <- NoFaults
PROPERTY SettledIsRecorded
