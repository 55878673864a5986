SPECIFICATION Spec
CONSTANTS
    alice = alice
    bob = bob
    none = none
    open = open
    restricted = restricted
    A = A
    B = B
    C = C
    None <- none
    Callers <- MCCallers
    Controllers <- MCControllers
    Requests <- MCRequests
    InitArgs <- MCInitArgs
    UpgradeArgs <- MCUpgradeArgs
    MaxU64 = 10
    MaxBps = 2
    MAX_INSTRUCTION_BUDGET = 2
    DefaultUnits = 1
    MAX_HALT_BOOKS = 2
    MaxEvents = 5
INVARIANTS
    LogRebuildsState
    SnapshotRestores
    ListingSound
