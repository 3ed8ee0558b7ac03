SPECIFICATION AccountsSpec
CONSTANTS
    Tokens = {k1, k2, k3, k4}
    Families = {f1, f2}
    Requests = {r1, r2}
    Attempts = {g1, g2}
    Slugs = {s1}
    Lifetime = 1
    MaxNow = 2
    None = None
INVARIANTS
    TypeOK
    RotatedIsRevoked
    SingleUseInTurn
    SessionHasOneKey
    OneOwnedTenantPerSlug
SYMMETRY Symmetry
\* Once every token string is used, the clock has run out and no response
\* arrived, nothing is left to do.
CHECK_DEADLOCK FALSE
