SPECIFICATION Spec
CONSTANTS
    anOrder = anOrder
    itsFill = itsFill
    laterBar = laterBar
    Events = {anOrder, itsFill, laterBar}
    TsEvent <- MCTsEvent
    SeqNo <- MCSeqNo
    Moments = {0, 1, 2, 3}
    MaxAppends = 4
    MaxCrashes = 2
INVARIANTS
    NothingAcceptedIsLost
    ReaderIsNotMisled
    ReplayIsVerbatim
PROPERTIES
    ImplementsLog
CHECK_DEADLOCK FALSE
