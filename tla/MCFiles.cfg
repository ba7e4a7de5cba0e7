SPECIFICATION Spec
CONSTANTS
    u = u
    v = v
    w = w
    a = a
    b = b
    x = x
    Root = Root
    None = None
    Empty = Empty
    Users = {u, v}
    Names = {a, b}
    Files = {1, 2, 3}
    Data = {Empty, x}
    Requests <- MCRequests
    MaxFds = 3
    MaxCalls = 4
    MaxFaults = 1
INVARIANT TypeOK
PROPERTIES HeardOut ListingAlone Once SaysTrue
CHECK_DEADLOCK FALSE
