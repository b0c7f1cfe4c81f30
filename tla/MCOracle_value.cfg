\* One reserve, priced in two feeds.
SPECIFICATION Spec
CONSTANTS
    weth = weth
    aweth = aweth
    tbtc = tbtc
    eth = eth
    btc = btc
    None = None
    Reserves = {tbtc}
    Feeds = {eth, btc}
    Kind <- PegKind
    Legs <- PegLegs
    Indexed = {}
    Upgraded = {}
    MaxRound = 1
    MaxPhase = 1
    MaxIndex = 0
    MaxStarts = 1
    Backlog = 16
CHECK_DEADLOCK FALSE
INVARIANTS
    ValueTracked
