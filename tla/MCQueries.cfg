SPECIFICATION Spec
CONSTANTS
    None = None
    u1 = u1
    u2 = u2
    delegate = delegate
    stranger = stranger
    BTC = BTC
    USD = USD
    ETH = ETH
    Users = {u1, u2}
    Tokens = {BTC, USD}
    Books = {1}
    PairOf <- MCPair
    BaseScale <- MCScale
    TickSize <- MCOne
    LotSize <- MCTwo
    MinNotional <- MCOne
    MaxNotional <- MCMaxNotional
    FeeRates <- MCFees
    Funds <- MCFunds
    MaxQuantity = 8
    Prices = {1, 2}
    Quantities = {2, 4}
    TimesInForce = {"GoodTilCanceled"}
    MaxOrders = 3
    HaltRequests = {}
    Policies <- MCPolicies
    TradingAccounts <- MCTradingAccounts
    Strangers = {stranger}
    FilterTokens = {USD, ETH}
    MAX_FILTER_LEN = 2
    DEFAULT_DEPTH_LIMIT = 1
    MAX_DEPTH_LIMIT = 2
INVARIANTS
    NoBug
    ReservationsExact
    TradesMatchRecords
    FeesAccounted
    DepthMatchesRecords
    TickerUncrossed
    BalancesShown
PROPERTIES
    PriceTimePriority
