\* Chains of calls across two files, pointers, aliases, unreadable files.
SPECIFICATION Spec
CONSTANTS
    a = a
    b = b
    main = main
    open = open
    send = send
    bad = bad
    plain = plain
    callback = callback
    net = net
    fs = fs
    InlineAssembly = InlineAssembly
    Numbered = Numbered
    Unreadable = Unreadable
    File = {a, b}
    Function = {main, open, send, bad}
    Malformed = {bad}
    Type = {plain, callback}
    TypeOf <- MCTypeOf
    Capability = {net, fs}
    FunctionCaps <- MCFunctionCaps
    Module <- MCModule
    MaxCalls = 1
SYMMETRY Files
INVARIANTS
    TypeOK
    ReportExact
    OnlyBadInputFails
\* A report is written, or none.
CHECK_DEADLOCK FALSE
