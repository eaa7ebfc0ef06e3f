------------------------------ MODULE Syscalls ------------------------------
(***************************************************************************)
(* syscall::Meta (src/runtime/syscall/): what the tracer keeps of a system *)
(* call between its entry and its exit, what the exit then does to the     *)
(* process::State, and the capabilities it is worth.                       *)
(*                                                                         *)
(* A call is a record of the arguments the code looks at; an argument a    *)
(* call does not have is a placeholder.  `readable` is whether the tracer  *)
(* can make something of the arguments: the strings and structs they point *)
(* to are read from the tracee, the type of a socket is one it knows.      *)
(*                                                                         *)
(* What /proc says of a descriptor (fd::Meta::try_from_procfs) is an input *)
(* of the operators, `probe`: a FdMeta, or None when it could not be read. *)
(***************************************************************************)
EXTENDS ProcessState

AtCwd == -100

(* lookup_sysno: their lines in syscalls.cm; no line, and so the empty set, *)
(* is SyscallMissingFromMap.                                                *)
LookupSysno(nr) ==
    CASE nr \in {"read", "dup", "clone", "close", "close_range", "pipe", "pipe2"} -> {"Safe"}
      [] nr \in {"open", "openat", "openat2"} -> {"Files"}
      [] nr \in {"execve", "execveat"} -> {"Exec"}
      [] nr = "chdir" -> {"ModifySystemState"}
      [] nr = "gettid" -> {"ReadSystemState"}
      [] nr \in {"ioctl", "socket"} ->
           {"Files", "Network", "ReadSystemState", "ModifySystemState"}
      [] OTHER -> {}

SyscallCall ==
    [nr : Sysno, fd : Fd \cup {AtCwd}, last : Fd, relative : BOOLEAN,
     cloexec : BOOLEAN, unix : BOOLEAN, image : Image, path : Path,
     readable : BOOLEAN]

(* Meta::typed: the variant try_from_syscall picks for a call, "Untyped"   *)
(* for Option::None.                                                       *)
Typed(nr) ==
    CASE nr = "chdir" -> "Chdir"
      [] nr = "close" -> "Close"
      [] nr = "close_range" -> "CloseRange"
      [] nr \in {"open", "openat", "openat2", "pipe", "pipe2", "socket"} -> "FdCreate"
      [] nr = "ioctl" -> "Ioctl"
      [] nr \in {"execve", "execveat"} -> "Exec"
      [] OTHER -> "Untyped"

(* The metadata of the descriptor a FdCreate call will make.               *)
CreatedType(call) ==
    CASE call.nr \in {"pipe", "pipe2"} -> "Fifo"
      [] call.nr = "socket" -> IF call.unix THEN "UnixSocket" ELSE "OtherSocket"
      [] OTHER -> "File"

Created(call) ==
    [ty |-> CreatedType(call), cloexec |-> call.nr # "pipe" /\ call.cloexec]

(* infer_fd, where the state has no entry for fd yet.                      *)
InferFd(s, fd, probe) ==
    IF fd \in DOMAIN s.fds \/ probe = None THEN s ELSE InsertFd(s, fd, probe)

-----------------------------------------------------------------------------
(* Meta::try_from_syscall: the state it leaves (resolve_at_syscall may     *)
(* infer the directory's descriptor, also when it then fails) and whether  *)
(* there is a Meta to keep.                                                *)
NeedsDirectory(call) ==
    /\ call.nr \in {"openat", "openat2"}
    /\ call.readable /\ call.relative /\ call.fd # AtCwd

StateAtEntry(s, call, probe) ==
    IF NeedsDirectory(call) THEN InferFd(s, call.fd, probe) ELSE s

ArgumentsMayFail(call) ==
    call.nr \in {"chdir", "open", "openat", "openat2", "execve", "execveat", "socket"}

EntryOk(s, call, probe) ==
    /\ ArgumentsMayFail(call) => call.readable
    /\ NeedsDirectory(call) =>
          LET fds == InferFd(s, call.fd, probe).fds
          IN  call.fd \in DOMAIN fds /\ fds[call.fd].ty \in {"Directory", "File"}

-----------------------------------------------------------------------------
IoctlCapsByPath(ty) ==     \* mutant: an inode is taken for a file
    CASE ty = "Char" -> {"Safe"}
      [] ty \in {"Directory", "File", "UnixSocket", "SocketInode"} -> {"Files"}
      [] ty = "OtherSocket" -> {"Network"}
      [] OTHER -> {}

(* ioctl::caps; the empty set stands for its Error::Ioctl.                 *)
IoctlCaps(ty) ==
    CASE ty = "Char" -> {"Safe"}
      [] ty \in {"Directory", "File", "UnixSocket"} -> {"Files"}
      [] ty \in {"OtherSocket", "SocketInode"} -> {"Network"}
      [] OTHER -> {}

(* Meta::into_capabilities: the state after the call returned `sval`, and  *)
(* the call's capabilities, the empty set for SyscallMissingFromMap.       *)
InsertCreated(s, call, sval) == InsertFd(s, sval, Created(call))

StateAtExit(s, call, sval, probe) ==
    CASE Typed(call.nr) = "Chdir" -> SetWorkingDirectory(s, call.path)
      [] Typed(call.nr) = "Close" -> Close(s, call.fd)
      [] Typed(call.nr) = "CloseRange" -> CloseRange(s, call.fd, call.last)
      [] Typed(call.nr) = "Exec" -> AddExec(s, call.image)
      [] Typed(call.nr) = "FdCreate" -> InsertCreated(s, call, sval)
      [] Typed(call.nr) = "Ioctl" -> InferFd(s, call.fd, probe)
      [] OTHER -> s

CapsAtExit(s, call, probe) ==
    LET fds == InferFd(s, call.fd, probe).fds
        resolved == IF Typed(call.nr) = "Ioctl" /\ call.fd \in DOMAIN fds
                    THEN IoctlCaps(fds[call.fd].ty) ELSE {}
    IN  IF resolved # {} THEN resolved ELSE LookupSysno(call.nr)
=============================================================================
