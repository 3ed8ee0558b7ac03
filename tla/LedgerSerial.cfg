SPECIFICATION SerialSpec
CONSTANTS
    Invoices = {i1, i2}
    Clients = {c1, c2}
    PaymentIds = {p1, p2, p3}
    Totals = {2, 3}
    Amounts = {1, 2}
    Notes = {n1, n2}
    Cent = 1
    None = None
INVARIANTS
    StatusTellsBalance
    SentOnce
PROPERTIES
    EditsOnlyDrafts
    PaidNeverCancelled
    CancelledStays
    ActsAtomically
SYMMETRY Symmetry
\* Once every invoice is closed and every payment id used nothing is left to do.
CHECK_DEADLOCK FALSE
