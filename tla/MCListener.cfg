SPECIFICATION FairSpec
CONSTANTS
    Names = {n1}
    NoName = none
    MaxSends = 3
INVARIANTS
    AnswersMatch
    ContextIsCurrent
PROPERTIES
    ResetRestarts
CHECK_DEADLOCK FALSE
