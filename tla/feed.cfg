\* One page, an invoice and two payments (four events), a channel of two, every
\* fault.  The rows are of one created_at: the load takes any one of them.
SPECIFICATION FairSpec
CONSTANTS
    Invoices = {i1}
    Payments = {p1, p2}
    Times = {1}
    Pages = {page1}
    LoadLimit = 1
    Capacity = 2
    Faults <- FaultKinds
INVARIANTS
    TypeOK
    NeverAhead
    PageCaughtUp
PROPERTIES
    SuccessShows
