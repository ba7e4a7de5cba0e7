SPECIFICATION FairSpec
CONSTANTS
    u = u
    v = v
    w = w
    a = a
    b = b
    x = x
    Root = Root
    None = None
    Empty = Empty
    Users = {u, v, w}
    Names = {a, b}
    Files = {1, 2}
    Data = {Empty}
    Requests <- MCRenames
    MaxFds = 3
    MaxCalls = 2
    MaxFaults = 0
PROPERTY RenameTrue
CHECK_DEADLOCK FALSE
