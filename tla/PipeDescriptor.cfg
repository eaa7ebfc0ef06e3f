SPECIFICATION TracedSpec
CONSTANTS
    None = None
    p0 = p0
    p1 = p1
    p2 = p2
    Pid = {p0, p1}
    InitPid = p0
    Reusable = {}
    Fd <- MCFd
    main = main
    helper = helper
    start = start
    junk = junk
    Symbol = {main, helper, start, junk}
    app = app
    tool = tool
    Image = {app, tool}
    home = home
    elsewhere = elsewhere
    Path = {home, elsewhere}
    Call <- PipeCalls
    Stack <- OneStack
    Probe = {None}
    InitImage = app
    InitWd = home
    Unparsable = {junk}
    StartSymbol = start
    DebugInfo <- MCDebugInfo
    IncludeBeforeStart = TRUE
    IncludeChildren = TRUE
    IncludeSyscalls = TRUE
    LookupLocations = TRUE
    MaxSpawns = 1
    MaxCalls = 2
    MaxLost = 0
INVARIANT FdTableSound
CHECK_DEADLOCK FALSE
