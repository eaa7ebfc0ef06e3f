---------------------------- MODULE ProcessState ----------------------------
(***************************************************************************)
(* process::State (src/runtime/process.rs) with the FunctionMap and the    *)
(* CallGraph it holds: what the tracer knows of one traced process, and    *)
(* the operations on it, each an operator from a state to a state.         *)
(*                                                                         *)
(* A function is known by its mangled name rather than by its index in the *)
(* FunctionMap, which only names it (ids maps each name to one index); the *)
(* argv and envp of an Exec are unused in the code and left out, and of a  *)
(* path only its identity is kept.  `born` numbers the processes in the    *)
(* order they were spawned: the code has no such field, it lets a property *)
(* tell two processes apart that were given the same pid.                  *)
(***************************************************************************)
EXTENDS Integers, Sequences

CONSTANTS Fd,        \* descriptor numbers
          Symbol,    \* mangled names that stack frames carry
          Image,     \* executables, by path
          Path,      \* other paths: working directories
          None       \* Option::None

Restrict(f, S) == [x \in S |-> f[x]]

Put(f, key, value) ==
    [x \in DOMAIN f \cup {key} |-> IF x = key THEN value ELSE f[x]]

Empty == [x \in {} |-> x]

IsMap(f, S, T) == DOMAIN f \subseteq S /\ f \in [DOMAIN f -> T]

Capability ==
    {"Safe", "Files", "Network", "Runtime", "ReadSystemState",
     "ModifySystemState", "Exec"}

CapabilityType == {"Direct", "Transitive"}

(* fd::Type, the domain of a Socket split in the two kinds ioctl::caps     *)
(* tells apart.                                                            *)
FdType ==
    {"Block", "Char", "Directory", "Fifo", "File", "UnixSocket", "OtherSocket",
     "SocketInode", "Unknown"}

FdMeta == [ty : FdType, cloexec : BOOLEAN]

(* The calls modelled here, one of them in no line of syscalls.cm.         *)
Sysno ==
    {"read", "dup", "clone", "close", "close_range", "pipe", "pipe2", "execve",
     "execveat", "open", "openat", "openat2", "chdir", "gettid", "ioctl", "socket",
     "unlisted"}

Location == Image \cup {None}

IsFunction(f) ==
    /\ DOMAIN f = {"capabilities", "syscalls", "location"}
    /\ IsMap(f.capabilities, Capability, CapabilityType)
    /\ f.syscalls \subseteq Sysno
    /\ f.location \in Location

IsState(s) ==
    /\ DOMAIN s = {"execs", "fds", "waiting", "wd", "edges", "caps", "functions", "born"}
    /\ s.execs \in Seq(Image)
    /\ IsMap(s.fds, Fd, FdMeta)
    /\ s.waiting \in BOOLEAN
    /\ s.wd \in Path
    /\ s.edges \subseteq Symbol \X Symbol
    /\ s.caps \subseteq Capability
    /\ DOMAIN s.functions \subseteq Symbol
    /\ \A n \in DOMAIN s.functions : IsFunction(s.functions[n])
    /\ s.born \in Nat

-----------------------------------------------------------------------------
NewState(execs, fds, wd, waiting, born) ==
    [execs |-> execs, fds |-> fds, waiting |-> waiting, wd |-> wd,
     edges |-> {}, caps |-> {}, functions |-> Empty, born |-> born]

AddExec(s, image) == [s EXCEPT !.execs = Append(@, image)]

CloseNothing(s, fd) == s        \* mutant: close is not followed

Close(s, fd) == [s EXCEPT !.fds = Restrict(@, DOMAIN @ \ {fd})]

CloseRange(s, first, last) ==
    [s EXCEPT !.fds = Restrict(@, DOMAIN @ \ first..last)]

ExtendCaps(s, caps) == [s EXCEPT !.caps = @ \cup caps]

InsertFd(s, fd, meta) == [s EXCEPT !.fds = Put(@, fd, meta)]

SetWorkingDirectory(s, path) == [s EXCEPT !.wd = path]

StartSeen(s) == [s EXCEPT !.waiting = FALSE]

(* The descriptors a child takes over: spawn's filter on is_cloexec.       *)
Inherited(s) == Restrict(s.fds, {fd \in DOMAIN s.fds : ~s.fds[fd].cloexec})

-----------------------------------------------------------------------------
(***************************************************************************)
(* The loop that handle_syscall_exit runs over the frames of a stack,      *)
(* innermost first; `kept` are the positions whose name parses, the others *)
(* are skipped.  The first of them is the child of nobody and Direct, each *)
(* further one calls the one before it.  FunctionMap::upsert leaves a      *)
(* function it already has alone, so of a name that occurs twice only the  *)
(* first occurrence counts, and of a name known from an earlier stack none *)
(* does.                                                                   *)
(***************************************************************************)
Innermost(frames, kept) == frames[CHOOSE i \in kept : \A j \in kept : i <= j]

FrameTypeUnset(frames, kept, name) ==     \* mutant: the callers' type is left out
    IF name = Innermost(frames, kept) THEN "Direct" ELSE "Unspecified"

FrameType(frames, kept, name) ==
    IF name = Innermost(frames, kept) THEN "Direct" ELSE "Transitive"

FunctionOf(name, frames, kept, caps, syscalls, location) ==
    [capabilities |-> [c \in caps |-> FrameType(frames, kept, name)],
     syscalls     |-> IF name = Innermost(frames, kept) THEN syscalls ELSE {},
     location     |-> location[name]]

Upsert(functions, new) ==
    [n \in DOMAIN functions \cup DOMAIN new |->
        IF n \in DOMAIN functions THEN functions[n] ELSE new[n]]

Neighbours(kept, i, j) == j = i + 1     \* mutant: a skipped frame breaks the chain

Adjacent(kept, i, j) == i < j /\ ~ \E k \in kept : i < k /\ k < j

Calls(frames, kept) ==
    {<<frames[e[2]], frames[e[1]]>> : e \in {e \in kept \X kept : Adjacent(kept, e[1], e[2])}}

RecordStack(s, frames, kept, caps, syscalls, location) ==
    [s EXCEPT
        !.functions = Upsert(@, [n \in {frames[i] : i \in kept} |->
                                   FunctionOf(n, frames, kept, caps, syscalls, location)]),
        !.edges = @ \cup Calls(frames, kept)]

(* into_process: the path is the first exec's, PathBuf::new() without one. *)
IntoProcess(s) ==
    [path |-> IF s.execs = <<>> THEN None ELSE Head(s.execs),
     capabilities |-> s.caps, functions |-> s.functions, edges |-> s.edges,
     born |-> s.born]

(* report::Process::serialize: Safe never reaches the top level list, and   *)
(* the syscalls of the functions are collected there.                      *)
Serialized(process) ==
    [path |-> process.path,
     capabilities |-> process.capabilities \ {"Safe"},
     functions |-> process.functions, edges |-> process.edges,
     syscalls |-> UNION {process.functions[n].syscalls : n \in DOMAIN process.functions},
     born |-> process.born]

-----------------------------------------------------------------------------
(* Nothing to report of a process that waits for the start symbol.         *)
Silent(s) == s.waiting => s.caps = {} /\ s.functions = Empty /\ s.edges = {}

(* Functions and edges stay within what the process is charged with and    *)
(* what the FunctionMap knows.                                             *)
Agrees(s) ==
    /\ \A n \in DOMAIN s.functions : DOMAIN s.functions[n].capabilities \subseteq s.caps
    /\ s.edges \subseteq (DOMAIN s.functions) \X (DOMAIN s.functions)
=============================================================================
