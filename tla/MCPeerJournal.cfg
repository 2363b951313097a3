SPECIFICATION FairSpec
CONSTANTS
    Procs = {p1, p2}
    Ops = {o1}
    Inputs = {i1, i2}
    Results = {r1, r2}
    None = None
INVARIANTS
    AnswersAgree
    RefusalIsFinal
PROPERTIES
    AppliedIsLearned
