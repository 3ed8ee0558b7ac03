SPECIFICATION PaymentSerialSpec
CONSTANTS
    Invoices = {i1}
    Clients = {c1, c2, c3}
    PaymentIds = {p1, p2, p3}
    Totals <- SmallTotals
    Amounts = {1, 2}
    Notes = {n1}
    Cent = 1
    None = None
INVARIANTS
    Balanced
SYMMETRY Symmetry
\* Once every invoice is closed and every payment id used nothing is left to do.
CHECK_DEADLOCK FALSE
