CONSTANTS
    tree = tree
    pair = pair
    leaf = leaf
    a = a
    b = b
    c = c
    Actors = {a1, a2}
    Tokens = {t1}
    Scopes = {tree, pair, leaf}
    Components = {a, b, c}
    Paths <- MCPaths
    PathsOf <- MCPathsOf
    Leases = {1, 2}
    MaxTime = 3
    MaxGen = 2
    PruneLimit = 1
    NoActor = NoActor
    NoToken = NoToken
SPECIFICATION Spec
INVARIANTS
    NoOverlappingLiveClaims
PROPERTIES
    LeasePerScope
SYMMETRY Symmetry
CHECK_DEADLOCK FALSE
