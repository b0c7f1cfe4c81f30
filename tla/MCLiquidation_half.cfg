\* utils.rs:12: at most half of the debt.
SPECIFICATION Spec
CONSTANTS
    weth = weth
    usdc = usdc
    User = User
    None = None
    Assets <- TwoAssets
    Amounts = {0, 11}
    Doubles <- ShortDoubles
    Indices = {150}
    Liquidities = {1}
PROPERTIES
    CloseFactorRespected
