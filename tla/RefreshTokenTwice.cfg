SPECIFICATION Spec
CONSTANTS
    Tokens = {k1, k2, k3}
    Families = {f1}
    Requests = {r1, r2}
    Lifetime = 1
    MaxNow = 1
    None = None
INVARIANTS
    SingleUse
SYMMETRY Symmetry
\* Once every token string is used, the clock has run out and no response
\* arrived, nothing is left to do.
CHECK_DEADLOCK FALSE
