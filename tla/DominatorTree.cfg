\* The entry and four nodes: loops with two entries, nested and crossing.
SPECIFICATION Spec
CONSTANTS
    None = None
    entry = entry
    n1 = n1
    n2 = n2
    n3 = n3
    n4 = n4
    Node = {entry, n1, n2, n3, n4}
    Entry = entry
    Edge <- MCEdge
SYMMETRY Renaming
INVARIANTS
    TypeOK
    NeverStuck
    Above
    TreeIsDominance
PROPERTY EstimatesRise
\* The builder is left at "done".
CHECK_DEADLOCK FALSE
