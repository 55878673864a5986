SPECIFICATION ReplaySpec
CONSTANTS
    None = None
    u1 = u1
    u2 = u2
    BTC = BTC
    USD = USD
    Users = {u1, u2}
    Tokens = {BTC, USD}
    Books = {1}
    PairOf <- MCPair
    BaseScale <- MCScale
    TickSize <- MCOne
    LotSize <- MCTwo
    MinNotional <- MCOne
    MaxNotional <- MCMaxNotional
    FeeRates <- MCFees
    Funds <- MCFunds
    MaxQuantity = 100
    Prices = {2}
    Quantities = {2, 4}
    TimesInForce = {"GoodTilCanceled"}
    MaxOrders = 2
    HaltRequests <- MCHalts
    Policies <- MCPolicies
    DepositAmounts = {4}
    WithdrawAmounts = {2}
    MaxDeposits = 2
SYMMETRY Symmetry
INVARIANTS
    ReplayReproduces
    LedgerBacksExchange
