\* Four blocks: a loop, a branch in it and a way out.
SPECIFICATION Spec
CONSTANTS
    None = None
    entry = entry
    b1 = b1
    b2 = b2
    b3 = b3
    return = return
    Block = {entry, b1, b2, b3}
    Entry = entry
    Return = return
SYMMETRY Renaming
INVARIANTS
    TypeOK
    DependenceExact
    AnswersAgree
\* Asked and answered.
CHECK_DEADLOCK FALSE
