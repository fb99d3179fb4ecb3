\* One panel, an invoice and a payment, every fault.
SPECIFICATION FairSpec
CONSTANTS
    Invoices = {i1}
    Payments = {p1}
    Capacity = 2
    Faults <- FaultKinds
    Sats = 1
INVARIANTS
    TypeOK
    NothingCountedTwice
    PaidIsPaid
    PanelExact
PROPERTIES
    PaidShows
