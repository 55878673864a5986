SPECIFICATION Spec
CONSTANTS
    alice = alice
    bob = bob
    icp = icp
    none = none
    None <- none
    Users <- MCUsers
    Tokens <- MCTokens
    Amounts <- MCAmounts
    MaxQuantity = 1
PROPERTIES
    WriteBackIsTransparent
    NoEmptyRows
