\* Two interval runs and a shutdown, nothing fails.
SPECIFICATION Spec
CONSTANTS
    u1 = u1
    u2 = u2
    r1 = r1
    r2 = r2
    r3 = r3
    h1 = h1
    h2 = h2
    t1 = t1
    t2 = t2
    None = None
    Users = {u1}
    Reserves = {r1}
    Listed = {r1}
    Health = {h1, h2}
    Ticks = {t1, t2}
    MaxTime = 12
    MayFail = FALSE
SYMMETRY Symmetry
\* The clock stops at MaxTime.
CHECK_DEADLOCK FALSE
PROPERTIES
    RunsFlush
