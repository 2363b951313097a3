CONSTANTS
  Limit = 3
  Tries = 4
  Tips = 2
  Faults = 2
SPECIFICATION FairSpec
INVARIANT PublishedIsPinned
INVARIANT ImportsBounded
INVARIANT SuccessIsPublished
INVARIANT ReleasedIsSettled
PROPERTY DecisionStands
PROPERTY ExitSettles
CHECK_DEADLOCK FALSE
