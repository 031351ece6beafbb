SPECIFICATION MCSpec
CONSTANTS
    Plans <- MCPlans
    Capacity <- MCCapacity
    MaxNumReplies = 3
    MaxLost = 1
    MaxLate = 1
    MaxInfo = 1
INVARIANTS
    AnswersRight
    DataValidity
    TreeAnswers
PROPERTY
    TransitionEnds
CHECK_DEADLOCK FALSE
