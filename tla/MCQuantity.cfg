SPECIFICATION Spec
CONSTANTS
    None = None
    Byte = 2
    BytesPerHalf = 2
    MaxBps = 2
INVARIANTS
    ArithmeticExact
    ProductsExact
    EncodingsRoundTrip
CHECK_DEADLOCK FALSE
