SPECIFICATION Spec
CONSTANTS
    None = None
    p0 = p0
    p1 = p1
    p2 = p2
    Pid = {p0, p1}
    InitPid = p0
    Reusable = {}
    Fd <- MCFd
    main = main
    helper = helper
    start = start
    junk = junk
    Symbol = {main, helper, start, junk}
    app = app
    tool = tool
    Image = {app, tool}
    home = home
    elsewhere = elsewhere
    Path = {home, elsewhere}
    Call <- FaultCalls
    Stack <- FaultStacks
    Probe <- FaultProbes
    InitImage = app
    InitWd = home
    Unparsable = {junk}
    StartSymbol = start
    DebugInfo <- MCDebugInfo
    IncludeBeforeStart = TRUE
    IncludeChildren = FALSE
    IncludeSyscalls = TRUE
    LookupLocations = TRUE
    MaxSpawns = 1
    MaxCalls = 3
    MaxLost = 1
INVARIANTS
    ReportAgrees
    NothingForgotten
    ReportFaithful
    ClaimsTraceable
\* Reported, with no process left: the analysis is over.
CHECK_DEADLOCK FALSE
