\* One invoice that is paid, nothing fails.
SPECIFICATION Spec
CONSTANTS
    Invoices = {i1}
    Payments = {p1}
    Capacity = 2
    Faults <- NoFaults
    Sats = 1
INVARIANT TotalIsReceivedMinusPaid
