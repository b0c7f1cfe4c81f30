\* The actors from their start to the end of the process.
SPECIFICATION FairSpec
\* The process ends.
CHECK_DEADLOCK FALSE
INVARIANTS
    TypeOK
    FanaticAddrKnown
    AwaitedIsAnswerable
    StopAwaitsFlush
PROPERTIES
    SignalEnds
    DeathSpreads
