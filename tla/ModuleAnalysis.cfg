SPECIFICATION Spec
CONSTANTS
    Scope = {module, cross}
    Body = {f}
INVARIANTS
    TypeOK
    NoBorrowPanic
    OnlyOnDemand
PROPERTY FilledForGood
