SPECIFICATION FairSpec
CONSTANTS
    w1 = w1
    w2 = w2
    r1 = r1
    p1 = p1
    Writers = {w1}
    Readers = {r1}
    Fleets <- MCFleets
    Passes = {p1}
    Explicit = {p1}
    MaxDeaths = 2
    MaxBoots = 2
    None = None
INVARIANT TypeOK
CHECK_DEADLOCK FALSE
INVARIANT WithdrawnNeverRuns
INVARIANT EndedMeansGone
PROPERTY NoExitIsLost
PROPERTY FenceOutlivesRun
PROPERTY ExitIsPursued
PROPERTY RebootSettles
