CONSTANTS
    Actors = {a1, a2}
    Tokens = {k1, k2}
    Tasks = {t1}
    Ops = {o1, o2, o3, o4, o5}
    Leases = {1}
    Times = {0, 1}
    MaxGen = 3
    NoActor = NoActor
    NoToken = NoToken
    NoReceipt = NoReceipt
SPECIFICATION Spec
INVARIANTS
    AnswersAgree
PROPERTIES
    UpdatesByLatestGrant
    LeasePerTask
SYMMETRY Symmetry
