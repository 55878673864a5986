SPECIFICATION Spec
CONSTANTS
    None = None
    u1 = u1
    u2 = u2
    BTC = BTC
    USD = USD
    ETH = ETH
    Users = {u1}
    Tokens = {BTC, USD}
    Books = {1}
    PairOf <- MCPair
    BaseScale <- MCScale
    TickSize <- MCOne
    LotSize <- MCTwo
    MinNotional <- MCOne
    MaxNotional <- MCMaxNotional
    FeeRates <- MCFees
    Funds <- MCFunds
    MaxQuantity = 100
    Prices = {1, 2}
    Quantities = {2, 4}
    TimesInForce = {"GoodTilCanceled", "FillOrKill"}
    MaxOrders = 3
    HaltRequests = {}
    Policies <- MCPolicies
INVARIANTS
    ReservationsExact
    HistoryMatchesBook
    WithinLimits
PROPERTIES
    ImplementsLifecycle
