\* Positions in two reserves, with failures and crashes at every step.
SPECIFICATION Spec
CONSTANTS
    u1 = u1
    u2 = u2
    r1 = r1
    r2 = r2
    r3 = r3
    h1 = h1
    h2 = h2
    t1 = t1
    t2 = t2
    None = None
    Users = {u1, u2}
    Reserves = {r1, r2, r3}
    Listed = {r1, r2}
    Health = {h1}
    Ticks = {}
    MaxTime = 0
    MayFail = TRUE
SYMMETRY Symmetry
\* The clock stops at MaxTime.
CHECK_DEADLOCK FALSE
INVARIANTS
    TypeOK
    PositionsHaveStats
PROPERTIES
    PositionsReplaced
