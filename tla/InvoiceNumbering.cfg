SPECIFICATION FairSpec
CONSTANTS
    t1 = t1
    t2 = t2
    Tenants = {t1, t2}
    Requests = {r1, r2}
    LockOf <- SharedLock
    MaxNow = 2
    MaxInvoices = 3
    None = None
INVARIANTS
    TypeOK
    GapFree
    NumberIsFresh
PROPERTIES
    RequestsEnd
    NumbersAsPromised
\* Once every tenant has its last invoice nothing is left to do.
CHECK_DEADLOCK FALSE
