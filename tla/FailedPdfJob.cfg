SPECIFICATION FairSystemSpec
CONSTANTS
    Invoices = {i1}
    Clients = {c1, c2}
    Workers = {w1}
    PaymentIds = {}
    Totals = {2}
    Amounts = {2}
    Notes = {n1, n2}
    Cent = 1
    None = None
PROPERTIES
    FailedJobsRetried
\* Once every invoice is closed and every job settled nothing is left to do.
CHECK_DEADLOCK FALSE
