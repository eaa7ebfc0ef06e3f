-------------------------- MODULE MCTracedProgram --------------------------
(* The calls of the descriptor runs, over three descriptors.                *)
EXTENDS TracedProgram, MCRuntime

Open(cloexec) == [Args EXCEPT !.nr = "open", !.cloexec = cloexec]
InetSocket(cloexec) == [Args EXCEPT !.nr = "socket", !.cloexec = cloexec]
UnixSocket == [Args EXCEPT !.nr = "socket", !.unix = TRUE]
DupOf(fd) == [Args EXCEPT !.nr = "dup", !.fd = fd]
CloseFrom(first) == [Args EXCEPT !.nr = "close_range", !.fd = first, !.last = 2]
PipeCall == [Args EXCEPT !.nr = "pipe"]

(* Every call the tracer follows, and dup for those it does not, but for    *)
(* pipe (its own run).                                                      *)
FollowedCalls ==
    {Clone, ExecTool, Open(TRUE), InetSocket(FALSE), UnixSocket, DupOf(0), DupOf(2),
     CloseZero, CloseFrom(1), IoctlOn(1), OpenatFrom(1)}

OneStack == {[reached |-> "nothing", names |-> <<>>]}

PipeCalls == {PipeCall, GetTid}
=============================================================================
