\* fanatic.rs:609: a liquidated user is marked.
SPECIFICATION Spec
CONSTANTS
    u1 = u1
    u2 = u2
    r1 = r1
    r2 = r2
    p1 = p1
    p2 = p2
    t1 = t1
    None = None
    Users = {u1}
    Reserves = {r1}
    Prices = {p1}
    Ticks = {}
    HealthFactors = {95}
\* The bot stops after a shutdown, and may be wedged before.
CHECK_DEADLOCK FALSE
PROPERTIES
    LiquidatedMarkKept
