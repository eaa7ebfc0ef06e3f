SPECIFICATION Spec
CONSTANTS
    None = None
    Fd = {0}
    Image = {}
    Path = {None}
    Symbol <- MCSymbol
    Line <- MCLine
    Traced <- MCTraced
    MainFunction <- MCMain
    MaxLines = 2
    MaxCalls = 2
INVARIANTS
    TypeOK
    ReaderToldTheMap
    ReadBackExactly
    SplitTellsTheImpl
CHECK_DEADLOCK FALSE
