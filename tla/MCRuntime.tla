----------------------------- MODULE MCRuntime -----------------------------
(* The calls, stacks and /proc answers the runs of Runtime choose from.     *)
EXTENDS Runtime

CONSTANTS main, helper, start, junk,    \* symbols
          app, tool,                    \* images
          home, elsewhere,              \* directories
          p0, p1, p2

MCFd == 0..2

Args ==
    [nr |-> "read", fd |-> 0, last |-> 0, relative |-> FALSE, cloexec |-> FALSE,
     unix |-> FALSE, image |-> app, path |-> home, readable |-> TRUE]

Clone == [Args EXCEPT !.nr = "clone"]
GetTid == [Args EXCEPT !.nr = "gettid"]
OpenFile == [Args EXCEPT !.nr = "open"]
ExecTool == [Args EXCEPT !.nr = "execve", !.image = tool]
ChdirUnreadable == [Args EXCEPT !.nr = "chdir", !.path = elsewhere, !.readable = FALSE]
IoctlOn(fd) == [Args EXCEPT !.nr = "ioctl", !.fd = fd]
Unlisted == [Args EXCEPT !.nr = "unlisted"]

CloseZero == [Args EXCEPT !.nr = "close"]
CloseAll == [Args EXCEPT !.nr = "close_range", !.last = 2]
OpenatFrom(fd) == [Args EXCEPT !.nr = "openat", !.fd = fd, !.relative = TRUE]
SocketCloexec == [Args EXCEPT !.nr = "socket", !.cloexec = TRUE]

Top(names) == [reached |-> "top", names |-> names]

(* The tree run: three pids, one of them given out again, and stacks with   *)
(* the start symbol in them and without.                                    *)
TreeCalls == {Clone, GetTid, ExecTool}

TreeStacks == {Top(<<start, main>>), Top(<<helper, main>>)}

(* The fault run: every call whose handling can fail half-way, every way    *)
(* a walk can end, and names that do not parse.                             *)
FaultCalls ==
    {Clone, GetTid, ExecTool, ChdirUnreadable, IoctlOn(0), Unlisted, CloseZero,
     CloseAll, OpenatFrom(0), SocketCloexec}

FaultStacks ==
    {[reached |-> "nothing", names |-> <<>>],
     [reached |-> "space", names |-> <<>>],
     [reached |-> "frame", names |-> <<helper>>],
     Top(<<junk, helper, main>>),
     Top(<<helper, helper, junk, main>>)}

FaultProbes ==
    {None, [ty |-> "Char", cloexec |-> FALSE], [ty |-> "Directory", cloexec |-> TRUE],
     [ty |-> "Unknown", cloexec |-> FALSE]}

(* The finding runs: one process, one function that makes two calls.        *)
TwoCalls == {GetTid, OpenFile}

HelperStack == {Top(<<helper, main>>), Top(<<main>>)}

MCDebugInfo == {<<app, main>>, <<tool, helper>>}
=============================================================================
