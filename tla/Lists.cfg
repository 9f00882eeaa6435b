SPECIFICATION Spec
CONSTANTS
    Node = {n1, n2, n3, n4}
    Str = {s1, s2, s3, s4}
    Text = {short, long}
    TooLong = {long}
    Stable <- MCStable
    Volatile <- MCVolatile
    Unmanaged <- MCUnmanaged
    Define = "defs"
    MaxChain = 3
    NULL = NULL
SYMMETRY Addresses
INVARIANT TypeOK
INVARIANT ListShape
INVARIANT OnePlace
INVARIANT NothingDangles
INVARIANT OneOwner
INVARIANT NothingLeaks
PROPERTY StoreSpec
PROPERTY ChainKeepsStable
