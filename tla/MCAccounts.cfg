SPECIFICATION FairSpec
CONSTANTS
    p1 = p1
    p2 = p2
    Principals = {p1, p2}
    NonAuthenticating = {}
    Tokens = {t1}
    t1 = t1
    c1 = c1
    c2 = c2
    Calls = {c1, c2}
    None = None
    Amounts = {2}
    LedgerFees = {0, 1}
    MaxQuantity = 4
    InitialWallet = 2
    MAX_TRADING_ACCOUNTS_PER_USER = 1
    TRADING_ACCOUNT_GRANT_COOLDOWN = 1
    MaxTime = 2
INVARIANTS
    FundingXorTrading
    WhitelistAgrees
PROPERTIES
    GrantsAreSpaced
    GuardReleased
