\* Positions, indices and pools move between the reads of a request.
SPECIFICATION Spec
CONSTANTS
    weth = weth
    usdc = usdc
    User = User
    None = None
    Assets <- TwoAssets
    Amounts = {0, 11}
    Doubles <- ShortDoubles
    Indices = {150}
    Liquidities = {1, 2}
INVARIANTS
    TypeOK
    SidesDiffer
    ChoiceIsMostLiquid
PROPERTIES
    CoverIsCurrent
    ImplementsExecutor
