SPECIFICATION Spec
CONSTANTS
    Invoices = {i1}
    Clients = {c1, c2}
    PaymentIds = {p1, p2}
    Totals = {2}
    Amounts = {1, 2}
    Notes = {n1}
    Cent = 1
    None = None
INVARIANTS
    NoOverpayment
SYMMETRY Symmetry
\* Once every invoice is closed and every payment id used nothing is left to do.
CHECK_DEADLOCK FALSE
