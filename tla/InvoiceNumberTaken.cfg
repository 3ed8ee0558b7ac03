SPECIFICATION Spec
CONSTANTS
    t1 = t1
    t2 = t2
    Tenants = {t1}
    Requests = {r1, r2}
    LockOf <- OwnLocks
    MaxNow = 1
    MaxInvoices = 3
    None = None
INVARIANTS
    NoDuplicates
SYMMETRY Symmetry
CHECK_DEADLOCK FALSE
