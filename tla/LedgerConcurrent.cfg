SPECIFICATION FairSpec
CONSTANTS
    Invoices = {i1}
    Clients = {c1, c2}
    PaymentIds = {p1, p2}
    Totals = {4}
    Amounts = {2, 3, 4}
    Notes = {n1}
    Cent = 2
    None = None
INVARIANTS
    TypeOK
    DraftIsUntouched
    PaidMeansSettled
PROPERTIES
    RequestsEnd
\* Once every invoice is closed and every payment id used nothing is left to do.
CHECK_DEADLOCK FALSE
