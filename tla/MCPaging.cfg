SPECIFICATION Spec
CONSTANTS
    None = None
    CursorNotFound = CursorNotFound
    OrderNotFound = OrderNotFound
    Users = {u1, u2}
    u1 = u1
    u2 = u2
    Books = {0, 1}
    Lengths = {1, 3}
    MaxPerResponse = 2
    MaxOrders = 3
    MaxFills = 2
INVARIANTS
    IndexInLockstep
    WalkIsExact
    CursorsAreOwn
    OrderTradesAgree
