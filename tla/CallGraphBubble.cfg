\* Every graph over three functions, with every assignment of one capability.
SPECIFICATION BubbleSpec
CONSTANTS
    Function = {f1, f2, f3}
    Capability = {net}
INVARIANTS
    BubbleTypeOK
    OnlyReachable
    DoneIsClosed
    DirectIsOwn
PROPERTY Terminates
\* The loop is left for good at "done".
CHECK_DEADLOCK FALSE
