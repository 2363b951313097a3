CONSTANTS
    a1 = a1
    a2 = a2
    t1 = t1
    p1 = p1
    p2 = p2
    o1 = o1
    o2 = o2
    c0 = c0
    c1 = c1
    c2 = c2
    r1 = r1
    r2 = r2
    Actors = {a1, a2}
    Tokens = {t1}
    Procs = {p1, p2}
    OpIds = {o1, o2}
    Oids = {c0, c1, c2}
    Remotes = {r1, r2}
    Ancestor <- MCAncestor
    Leases = {1}
    Times = {0, 1}
    MaxGen = 2
    NoActor = NoActor
    NoToken = NoToken
    NoOid = NoOid
    NoOp = NoOp
    NoProc = NoProc
    NoRemote = NoRemote
SPECIFICATION Spec
INVARIANTS
    UnresolvedPinsOwner
    PushUnderCustody
    CommittedWasOnRemote
PROPERTIES
    PushesFastForward
CONSTRAINT Focus
SYMMETRY Symmetry
