SPECIFICATION Spec
CONSTANTS
    w1 = w1
    w2 = w2
    r1 = r1
    p1 = p1
    Writers = {w1, w2}
    Readers = {}
    Fleets <- MCTwoWriters
    Passes = {p1}
    Explicit = {}
    MaxDeaths = 1
    MaxBoots = 1
    None = None
SYMMETRY MCSymmetry
INVARIANT OneWriter
CHECK_DEADLOCK FALSE
CONSTRAINT MCNoStopRequest
