CONSTANTS
    u1 = u1
    bad1 = bad1
    bad2 = bad2
    good = good
    NoText = NoText
    Uris = {u1}
    Texts = {bad1, good}
    NoDiags = "[]"
    DiagLists <- MCDiagLists
    CheckSource <- MCCheckSource
    Kinds <- AllKinds
    MaxMsgs = 4
    MaxFaults = 1
SPECIFICATION FairSpec
INVARIANTS TypeOK AnswerIsMine QuiescentFresh RepliesFlushed
PROPERTIES ChangeShown ExitReturns
