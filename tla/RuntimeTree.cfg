SPECIFICATION Spec
CONSTANTS
    None = None
    p0 = p0
    p1 = p1
    p2 = p2
    Pid = {p0, p1, p2}
    InitPid = p0
    Reusable = {p1}
    Fd <- MCFd
    main = main
    helper = helper
    start = start
    junk = junk
    Symbol = {main, helper, start}
    app = app
    tool = tool
    Image = {app, tool}
    home = home
    elsewhere = elsewhere
    Path = {home, elsewhere}
    Call <- TreeCalls
    Stack <- TreeStacks
    Probe = {None}
    InitImage = app
    InitWd = home
    Unparsable = {}
    StartSymbol = start
    DebugInfo <- MCDebugInfo
    IncludeBeforeStart = FALSE
    IncludeChildren = TRUE
    IncludeSyscalls = TRUE
    LookupLocations = TRUE
    MaxSpawns = 3
    MaxCalls = 5
    MaxLost = 0
INVARIANTS
    TypeOK
    SilentBeforeStart
    NothingForgotten
    ReportFaithful
    LocatedWhereRecorded
PROPERTY ImplementsLedger
\* Reported, with no process left: the analysis is over.
CHECK_DEADLOCK FALSE
