\* One borrower, every handler, the interval task and the shutdown.
SPECIFICATION FairSpec
CONSTANTS
    u1 = u1
    u2 = u2
    r1 = r1
    r2 = r2
    p1 = p1
    p2 = p2
    t1 = t1
    None = None
    Users = {u1}
    Reserves = {r1}
    Prices = {p1}
    Ticks = {t1}
    HealthFactors = {95, 150, 20000, 2000000}
\* The bot stops after a shutdown, and may be wedged before.
CHECK_DEADLOCK FALSE
INVARIANTS
    TypeOK
    LockOrder
    NoLeakedGuard
    MembersKnown
    ConsistentSnapshot
    NoteWhileAwaited
PROPERTIES
    WedgeFreezesBooks
    UserEventEnds
    PriceEventEnds
    ShutdownEnds
