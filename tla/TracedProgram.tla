--------------------------- MODULE TracedProgram ---------------------------
(***************************************************************************)
(* Runtime composed with the descriptor tables the kernel keeps for the    *)
(* traced processes, so that what the tracer believes of a descriptor      *)
(* (State::fds) can be held against what the descriptor is.  Each event    *)
(* carries what the kernel would put in it: the lowest free number for a   *)
(* new descriptor, and a /proc answer read from the real table.            *)
(*                                                                         *)
(* The processes are forked, each with a table of its own.  The calls are  *)
(* those of constant Call; dup stands for every call that makes a          *)
(* descriptor the tracer is not told of (accept, eventfd, recvmsg).        *)
(***************************************************************************)
EXTENDS Runtime

VARIABLES
    files,      \* external: pid -> its open files, by descriptor
    execed      \* history: the processes that have executed another image

tracedVars == <<vars, files, execed>>

Kind == {"Regular", "Directory", "Char", "Pipe", "UnixSocket", "InetSocket"}

File == [kind : Kind, cloexec : BOOLEAN]

(* Type::try_from_procfs: what the link of a descriptor is resolved to; of *)
(* what has no path (any more), a deleted file or an anonymous inode, it   *)
(* is Unknown.  Block devices are left out: no call modelled here tells    *)
(* them from what ioctl::caps has no arm for.                              *)
TypesFromLink(kind) ==
    CASE kind = "Regular" -> {"File", "Unknown"}
      [] kind = "Directory" -> {"Directory", "Unknown"}
      [] kind = "Char" -> {"Char", "Unknown"}
      [] kind = "Pipe" -> {"Fifo"}
      [] OTHER -> {"SocketInode"}

(* Meta::try_from_procfs: an error when the descriptor is not open, or     *)
(* when /proc cannot be read at all.                                       *)
FromProcfs(fds, fd) ==
    {None} \cup
    IF fd \in DOMAIN fds
    THEN {[ty |-> ty, cloexec |-> fds[fd].cloexec] : ty \in TypesFromLink(fds[fd].kind)}
    ELSE {}

TracedInit ==
    /\ Init
    /\ files = [p \in Pid |-> IF p = InitPid
                              THEN [fd \in {0} |-> [kind |-> "Char", cloexec |-> FALSE]]
                              ELSE Empty]
    /\ execed = {}

(* External: what the kernel does to the table of a process in a call.     *)
Free(fds) == Fd \ DOMAIN fds

Lowest(S) == CHOOSE x \in S : \A y \in S : x <= y

OpenKinds(c) ==
    CASE c.nr \in {"open", "openat", "openat2"} -> {"Regular", "Directory", "Char"}
      [] c.nr = "socket" -> IF c.unix THEN {"UnixSocket"} ELSE {"InetSocket"}
      [] c.nr \in {"pipe", "pipe2"} -> {"Pipe"}
      [] OTHER -> {}

PipeEnds(fds) ==
    LET first == Lowest(Free(fds)) IN {first, Lowest(Free(fds) \ {first})}

(* The pairs of a table after the call and the value the call returns;     *)
(* empty when the call cannot succeed.                                     *)
PipeOutcomes(fds, c) ==
    IF \E a, b \in Free(fds) : a # b
    THEN {[sval |-> 0, files |->
             [fd \in DOMAIN fds \cup PipeEnds(fds) |->
                IF fd \in DOMAIN fds THEN fds[fd]
                ELSE [kind |-> "Pipe", cloexec |-> c.nr = "pipe2" /\ c.cloexec]]]}
    ELSE {}

InFirstFree(fds, file) == [sval |-> Lowest(Free(fds)), files |-> Put(fds, Lowest(Free(fds)), file)]

CreateOutcomes(fds, c) ==
    IF Free(fds) = {} \/
       (NeedsDirectory(c) /\ ~(c.fd \in DOMAIN fds /\ fds[c.fd].kind = "Directory"))
    THEN {}
    ELSE {InFirstFree(fds, [kind |-> k, cloexec |-> c.cloexec]) : k \in OpenKinds(c)}

DupOutcomes(fds, c) ==
    IF Free(fds) = {} \/ c.fd \notin DOMAIN fds THEN {}
    ELSE {InFirstFree(fds, [fds[c.fd] EXCEPT !.cloexec = FALSE])}

Leaves(fds, kept) == {[sval |-> 0, files |-> Restrict(fds, kept)]}

Outcomes(fds, c) ==
    CASE c.nr \in {"pipe", "pipe2"} -> PipeOutcomes(fds, c)
      [] Typed(c.nr) = "FdCreate" /\ c.nr \notin {"pipe", "pipe2"} -> CreateOutcomes(fds, c)
      [] c.nr = "dup" -> DupOutcomes(fds, c)
      [] c.nr = "close" ->
           IF c.fd \in DOMAIN fds THEN Leaves(fds, DOMAIN fds \ {c.fd}) ELSE {}
      [] c.nr = "close_range" -> Leaves(fds, DOMAIN fds \ c.fd..c.last)
      [] c.nr = "ioctl" -> IF c.fd \in DOMAIN fds THEN Leaves(fds, DOMAIN fds) ELSE {}
      [] Typed(c.nr) = "Exec" -> Leaves(fds, {fd \in DOMAIN fds : ~fds[fd].cloexec})
      [] OTHER -> Leaves(fds, DOMAIN fds)

-----------------------------------------------------------------------------
Fork(parent, child) ==
    /\ CloneEvent(parent, child)
    /\ files' = [files EXCEPT ![child] = files[parent]]
    /\ UNCHANGED execed

Gone(p) ==
    /\ ExitedEvent(p)
    /\ files' = [files EXCEPT ![p] = Empty]
    /\ execed' = execed \ {p}

Enter(p, c) ==
    /\ \E probe \in FromProcfs(files[p], c.fd) : SyscallEntry(p, c, probe)
    /\ UNCHANGED <<files, execed>>

Succeed(p, stack) ==
    /\ call[p] # None
    /\ \E out \in Outcomes(files[p], call[p]) :
         /\ files' = [files EXCEPT ![p] = out.files]
         /\ \E probe \in FromProcfs(out.files, call[p].fd) :
               SyscallExit(p, out.sval, probe, stack)
    /\ execed' = IF Typed(call[p].nr) = "Exec" THEN execed \cup {p} ELSE execed

Fail(p) == SyscallError(p) /\ UNCHANGED <<files, execed>>

TracedNext ==
    \/ \E parent, child \in Pid : Fork(parent, child)
    \/ \E p \in Pid : Gone(p)
    \/ \E p \in Pid, c \in Call : Enter(p, c)
    \/ \E p \in Pid, stack \in Stack : Succeed(p, stack)
    \/ \E p \in Pid : Fail(p)
    \/ Finish /\ UNCHANGED <<files, execed>>

TracedSpec == TracedInit /\ [][TracedNext]_tracedVars

-----------------------------------------------------------------------------
(* The kinds of file an entry of this type is true of.  Whatever is opened *)
(* by name is entered as File.                                             *)
Describes(ty, kind) ==
    CASE ty = "File" -> kind \in {"Regular", "Directory", "Char"}
      [] ty = "SocketInode" -> kind \in {"UnixSocket", "InetSocket"}
      [] ty = "OtherSocket" -> kind = "InetSocket"
      [] ty = "Fifo" -> kind = "Pipe"
      [] ty = "Unknown" -> TRUE
      [] OTHER -> kind = ty

(* pipe and pipe2 return 0 whatever descriptors they make, see README      *)
(* (PipeDescriptor): what is said of State::fds below holds without them.  *)
NoPipes == \A c \in Call : c.nr \notin {"pipe", "pipe2"}

(* An exec closes what is close-on-exec, but no entry of State::fds.       *)
LeftByExec(p, fd) == p \in execed /\ active[p].fds[fd].cloexec

(* What insert_fd, infer_fd, close, close_range and spawn leave in         *)
(* State::fds is true of the process while it runs: the descriptor is      *)
(* open, is what the entry says and has its close-on-exec flag.  The only  *)
(* entries that may be false are the close-on-exec ones of a process that  *)
(* has executed another image; none of those is handed to a child.         *)
FdTableSound ==
    \A p \in Alive \cap DOMAIN active : \A fd \in DOMAIN active[p].fds :
        \/ /\ fd \in DOMAIN files[p]
           /\ Describes(active[p].fds[fd].ty, files[p][fd].kind)
           /\ active[p].fds[fd].cloexec = files[p][fd].cloexec
        \/ LeftByExec(p, fd)

(* An ioctl on an internet socket is never taken for something milder:     *)
(* unless the descriptor cannot be resolved, and the call then counts as   *)
(* everything syscalls.cm lists, or its entry was left by an exec, it is   *)
(* charged to the network.                                                 *)
NetworkIoctlCharged ==
    [][\A p \in Alive \cap DOMAIN active :
         /\ \E stack \in Stack : Succeed(p, stack)
         /\ call[p].nr = "ioctl" /\ files[p][call[p].fd].kind = "InetSocket"
         /\ ~active[p].waiting
         /\ ~(call[p].fd \in DOMAIN active[p].fds /\ LeftByExec(p, call[p].fd))
         => /\ "Network" \in active'[p].caps
            /\ \A w \in witnessed' \ witnessed : "Network" \in w.caps]_tracedVars
=============================================================================
