SPECIFICATION FairSpec
CONSTANTS
    None = None
    u1 = u1
    u2 = u2
    BTC = BTC
    USD = USD
    ETH = ETH
    Users = {u1}
    Tokens = {BTC, ETH, USD}
    Books = {1, 2}
    PairOf <- MCPair
    BaseScale <- MCScale
    TickSize <- MCOne
    LotSize <- MCTwo
    MinNotional <- MCOne
    MaxNotional <- MCMaxNotional
    FeeRates <- MCFees
    Funds <- MCFunds
    MaxQuantity = 100
    Prices = {2}
    Quantities = {2}
    TimesInForce = {"GoodTilCanceled"}
    MaxOrders = 2
    HaltRequests <- MCHalts
    Policies <- MCTwoPolicies
INVARIANTS
    ReservationsExact
PROPERTIES
    BacklogDrains
    PendingServed
