CONSTANTS
    N = 5
    Capacity = 2
    Base = 4
    Width = 2
    Limit = 8
    PipeCap = 3
    Path <- MCPath
    CheckSource <- MCCheckSource
    MaxRequests = 2
    MaxCol = 5
    MaxDepth = 3
SPECIFICATION MCSpec
INVARIANTS TypeOK PermitsConserved NoLostWakeup AnswerExact ErrorHasCause
           LexTypeOK StackSound Balanced BracketsJoinLines EofIsClosed
PROPERTIES PoolSpec CommandTerminates CallReturns StreamSpec EofReached
