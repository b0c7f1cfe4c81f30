\* Two tokens, a fee of one unit, swaps that bring less or more than is owed.
SPECIFICATION Spec
CONSTANTS
    weth = weth
    usdc = usdc
    None = None
    Tokens = {weth, usdc}
    Amounts = {2}
    Premium = 1
    Premiums = {1}
    Output = {0, 3}
    Leftover = {0, 1}
    MaxHeld = 2
    MaxUser = 2
SYMMETRY Symmetry
INVARIANTS
    TypeOK
    ProfitIsEnough
PROPERTIES
    LoanLeavesNothing
    ImplementsLiquidating
