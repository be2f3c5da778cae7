CONSTANTS
    u1 = u1
    bad1 = bad1
    bad2 = bad2
    good = good
    NoText = NoText
    Uris = {u1}
    Texts = {bad1, bad2}
    NoDiags = "[]"
    DiagLists <- MCDiagLists
    CheckSource <- MCCheckSource
    Kinds <- CloseKinds
    MaxMsgs = 4
    MaxFaults = 0
SPECIFICATION Spec
INVARIANTS ClosedBlank
CHECK_DEADLOCK FALSE
