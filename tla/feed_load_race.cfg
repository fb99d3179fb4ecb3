\* One page and one invoice, nothing fails, and the load takes in every row.
SPECIFICATION Spec
CONSTANTS
    Invoices = {i1}
    Payments = {}
    Times = {1}
    Pages = {page1}
    LoadLimit = 1
    Capacity = 2
    Faults <- NoFaults
INVARIANT NoRefetchNeeded
