\* Two reserves that share a feed, one of two feeds, and a restart.
SPECIFICATION FairSpec
CONSTANTS
    weth = weth
    aweth = aweth
    tbtc = tbtc
    eth = eth
    btc = btc
    None = None
    Reserves = {weth, aweth, tbtc}
    Feeds = {eth, btc}
    Kind <- ThreeKinds
    Legs <- ThreeLegs
    Indexed = {weth}
    Upgraded = {btc}
    MaxRound = 1
    MaxPhase = 2
    MaxIndex = 1
    MaxStarts = 2
    Backlog = 1
\* The chain has moved as far as the bounds let it, and the process has ended.
CHECK_DEADLOCK FALSE
INVARIANTS
    TypeOK
    MemoryAgrees
PROPERTIES
    FilledAtOnce
    NeverOlder
    RoundReachesTable
