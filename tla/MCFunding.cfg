SPECIFICATION Spec
CONSTANTS
    p1 = p1
    p2 = p2
    Principals = {p1, p2}
    NonAuthenticating = {}
    Tokens = {t1}
    t1 = t1
    c1 = c1
    c2 = c2
    Calls = {c1, c2}
    None = None
    Amounts = {1, 2}
    LedgerFees = {0, 1, 2}
    MaxQuantity = 4
    InitialWallet = 2
    MAX_TRADING_ACCOUNTS_PER_USER = 1
    TRADING_ACCOUNT_GRANT_COOLDOWN = 0
    MaxTime = 0
SYMMETRY Interchangeable
INVARIANTS
    GuardedCalls
    CustodyBacked
    NoCreditLost
PROPERTIES
    WithdrawPaysNetOfFee
