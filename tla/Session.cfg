SPECIFICATION Spec
CONSTANT MaxOthers = 2
INVARIANTS
    TypeOK
    ListensWhileTraced
    AtMostOneLate
PROPERTY InterruptEndsSession
\* main has returned: the session is over.
CHECK_DEADLOCK FALSE
