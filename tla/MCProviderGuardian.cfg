SPECIFICATION FairSpec
CONSTANTS
    WallMs = 1
    FlushMs = 1
    GraceMs = 1
    SlotWaitMs = 1
    TerminalTries = 2
    Requests = {"ExplicitCancellation"}
    Frames = {"terminal", "rejected", "over"}
    Failing = {"TERM", "KILL"}
    Removable = {"attempt", "evidence", "lock"}
    MaxRemoved = 1
INVARIANTS
    RecordsAreTrue
    SettledExitHasReservation
    FenceUntilSettled
PROPERTIES
    PublishedFactsStand
    ProviderStops
    ExitIsPublished
CHECK_DEADLOCK FALSE
