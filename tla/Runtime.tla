------------------------------ MODULE Runtime ------------------------------
(***************************************************************************)
(* The runtime tracer (src/runtime/mod.rs and process.rs): GlobalState and *)
(* its process::Map, driven by the events of the traced program.           *)
(*                                                                         *)
(* ptrace_iterator and the kernel are not in the repository.  They appear  *)
(* as the operators named Env...: what a traced process may do next, and   *)
(* so which event the tracer may be handed next.  An event names one       *)
(* process; the others run on meanwhile, so the entry and the exit of a    *)
(* call are two steps with anything in between.  The iterator may also     *)
(* yield an error in place of an event, which main logs and passes over    *)
(* (Lose...).  What the tracer reads from outside while it handles an      *)
(* event, /proc and the stack, is an input of the step.                    *)
(***************************************************************************)
EXTENDS Syscalls, FiniteSets

CONSTANTS
    Pid, InitPid,
    Reusable,            \* pids the kernel may give out a second time
    Call,                \* the calls the traced program makes
    Stack,               \* what unwinding may yield (see Walk)
    Probe,               \* what /proc may say of a descriptor
    InitImage, InitWd,   \* the program main spawns, and its directory
    Unparsable,          \* symbols parse_mangled_name fails on
    StartSymbol,
    DebugInfo,           \* <<image, symbol>>: the debuginfo has a location
    IncludeBeforeStart, IncludeChildren, IncludeSyscalls, LookupLocations,
    MaxSpawns, MaxCalls, MaxLost    \* bounds on the traced program

ASSUME PidAssumption == InitPid \in Pid /\ Reusable \subseteq Pid
ASSUME InputAssumption ==
    /\ Call \subseteq SyscallCall
    /\ \A c \in Call : c.nr = "ioctl" => c.fd \in Fd
    /\ Probe \subseteq FdMeta \cup {None}
    /\ 0 \in Fd /\ Fd \subseteq Nat
    /\ None \notin Image
    /\ InitImage \in Image /\ InitWd \in Path
ASSUME OptionAssumption ==
    {IncludeBeforeStart, IncludeChildren, IncludeSyscalls, LookupLocations}
        \subseteq BOOLEAN
ASSUME BoundAssumption == {MaxSpawns, MaxCalls, MaxLost} \subseteq Nat

(* A walk up the stack of a stopped process.  `reached` is how far the     *)
(* tracer got: "nothing" when PTraceState::new failed, "space" when there  *)
(* was an address space but no cursor, "frame" when some register could    *)
(* not be read on the way, "top" otherwise.  `names` are the frames that   *)
(* had a name, innermost first.                                            *)
Walk == [reached : {"nothing", "space", "frame", "top"}, names : Seq(Symbol)]

ASSUME StackAssumption == Stack \subseteq Walk

VARIABLES
    active, inactive,    \* process::Map; the order of the inactive Vec is left out
    address_spaces,      \* GlobalState: pid -> the process it was built for
    location_lookup,     \* Lookup: pid -> the image it was built from
    report,              \* the Report main serialises, None before there is one
    stage, call,         \* external: what each process is doing
    exe,                 \* external: the image each process runs
    userdata,            \* external: the call whose Meta the library holds
    spawned, calls, lost, used,   \* counters of the bounds, pids given out
    witnessed            \* history: the calls the tracer saw and understood

mapVars == <<active, inactive>>
tracerVars == <<active, inactive, address_spaces, location_lookup, witnessed>>
envVars == <<stage, call, exe, userdata, spawned, calls, lost, used>>
vars == <<tracerVars, report, envVars>>

States == {active[p] : p \in DOMAIN active} \cup
          {entry[2] : entry \in inactive}

(* The process with this number, while the map still has it.               *)
StatesOf(born) == {s \in States : s.born = born}

Alive == {p \in Pid : stage[p] # "gone"}

TypeOK ==
    /\ DOMAIN active \subseteq Pid
    /\ \A p \in DOMAIN active : IsState(active[p])
    /\ \A entry \in inactive : entry[1] \in Pid /\ IsState(entry[2])
    /\ IsMap(address_spaces, Pid, Nat)
    /\ IsMap(location_lookup, Pid, Image)
    /\ stage \in [Pid -> {"gone", "user", "kernel", "cloned"}]
    /\ call \in [Pid -> Call \cup {None}]
    /\ exe \in [Pid -> Image]
    /\ userdata \in [Pid -> Call \cup {None}]
    /\ {spawned, calls, lost} \subseteq Nat
    /\ used \subseteq Pid
    /\ \A w \in witnessed :
          /\ w.born \in Nat /\ w.pid \in Pid /\ w.nr \in Sysno /\ w.caps \subseteq Capability
          /\ w.image \in Location

-----------------------------------------------------------------------------
Waiting == ~IncludeBeforeStart      \* waiting_for_start_default

Init ==
    /\ active = [p \in {InitPid} |->
                    NewState(<<InitImage>>, Empty, InitWd, Waiting, 0)]
    /\ inactive = {}
    /\ address_spaces = Empty
    /\ location_lookup = Empty
    /\ report = None
    /\ stage = [p \in Pid |-> IF p = InitPid THEN "user" ELSE "gone"]
    /\ call = [p \in Pid |-> None]
    /\ exe = [p \in Pid |-> InitImage]
    /\ userdata = [p \in Pid |-> None]
    /\ spawned = 0 /\ calls = 0 /\ lost = 0
    /\ used = {InitPid}
    /\ witnessed = {}

-----------------------------------------------------------------------------
(* External: the steps of the traced program.                              *)
EnvClone(parent, child) ==
    /\ stage[parent] = "kernel" /\ call[parent].nr = "clone"
    /\ stage[child] = "gone" /\ child \in (Pid \ used) \cup Reusable
    /\ spawned < MaxSpawns
    /\ stage' = [stage EXCEPT ![parent] = "cloned", ![child] = "user"]
    /\ exe' = [exe EXCEPT ![child] = exe[parent]]
    /\ spawned' = spawned + 1
    /\ used' = used \cup {child}
    /\ UNCHANGED <<call, userdata, calls>>

EnvExited(p) ==
    /\ p \in Alive
    /\ stage' = [stage EXCEPT ![p] = "gone"]
    /\ call' = [call EXCEPT ![p] = None]
    /\ userdata' = [userdata EXCEPT ![p] = None]
    /\ UNCHANGED <<exe, spawned, calls, used>>

EnvEntry(p, c, meta) ==
    /\ stage[p] = "user" /\ calls < MaxCalls
    /\ stage' = [stage EXCEPT ![p] = "kernel"]
    /\ call' = [call EXCEPT ![p] = c]
    /\ userdata' = [userdata EXCEPT ![p] = meta]
    /\ calls' = calls + 1
    /\ UNCHANGED <<exe, spawned, used>>

(* The library drops the Meta the handler has not taken.                   *)
EnvReturn(p, succeeds) ==
    /\ stage[p] \in {"kernel", "cloned"} /\ call[p] # None
    /\ call[p].nr = "clone" => succeeds = (stage[p] = "cloned")
    /\ stage' = [stage EXCEPT ![p] = "user"]
    /\ call' = [call EXCEPT ![p] = None]
    /\ exe' = IF succeeds /\ Typed(call[p].nr) = "Exec"
              THEN [exe EXCEPT ![p] = call[p].image] ELSE exe
    /\ userdata' = [userdata EXCEPT ![p] = None]
    /\ UNCHANGED <<spawned, calls, used>>

-----------------------------------------------------------------------------
SpawnCopies(parent, child) ==     \* mutant: the child is a clone of the parent's state
    IF parent \in DOMAIN active
    THEN active' = Put(active, child, [active[parent] EXCEPT !.born = spawned'])
    ELSE UNCHANGED active

(* process::Map::spawn: an Error::ProcessFind when the parent is unknown,  *)
(* else the child's state, in the place of any other under its pid.        *)
Spawn(parent, child) ==
    IF parent \in DOMAIN active
    THEN active' = Put(active, child,
                       NewState(<<>>, Inherited(active[parent]),
                                active[parent].wd, Waiting, spawned'))
    ELSE UNCHANGED active

CloneEvent(parent, child) ==
    /\ EnvClone(parent, child)
    /\ Spawn(parent, child)
    /\ UNCHANGED <<inactive, address_spaces, location_lookup, witnessed, report, lost>>

ExitDrops(p) ==     \* mutant: the state of an exited process is not kept
    IF p # InitPid /\ p \in DOMAIN active
    THEN /\ active' = Restrict(active, DOMAIN active \ {p})
         /\ UNCHANGED inactive
    ELSE UNCHANGED mapVars

(* process::Map::exit: the init process stays in active for into_report.   *)
Exit(p) ==
    IF p # InitPid /\ p \in DOMAIN active
    THEN /\ active' = Restrict(active, DOMAIN active \ {p})
         /\ inactive' = inactive \cup {<<p, active[p]>>}
    ELSE UNCHANGED mapVars

ExitedEvent(p) ==
    /\ EnvExited(p)
    /\ Exit(p)
    /\ UNCHANGED <<address_spaces, location_lookup, witnessed, report, lost>>

(* handle_syscall_entry: nothing is kept of a call of an unknown process,  *)
(* nor of one that try_from_syscall fails on.                              *)
SyscallEntry(p, c, probe) ==
    /\ IF p \in DOMAIN active
       THEN /\ EnvEntry(p, c, IF EntryOk(active[p], c, probe) THEN c ELSE None)
            /\ active' = [active EXCEPT ![p] = StateAtEntry(@, c, probe)]
       ELSE EnvEntry(p, c, None) /\ UNCHANGED active
    /\ UNCHANGED <<inactive, address_spaces, location_lookup, witnessed, report, lost>>

-----------------------------------------------------------------------------
ChargeAlways(s, caps) == ExtendCaps(s, caps)      \* mutant: no is_waiting_for_start

ChargeReplaces(s, caps) ==                        \* mutant: caps is assigned
    IF s.waiting THEN s ELSE [s EXCEPT !.caps = caps]

(* handle_syscall_exit, from the state into_capabilities left.             *)
Charge(s, caps) == IF s.waiting THEN s ELSE ExtendCaps(s, caps)

SeesStart(stack) ==
    /\ ~IncludeBeforeStart
    /\ stack.reached \in {"frame", "top"}
    /\ \E i \in DOMAIN stack.names : stack.names[i] = StartSymbol

Recorded(s, stack) ==
    stack.reached = "top" /\ ~SeesStart(stack) /\ ~s.waiting

(* The frames whose names to_function_with_caps can parse.                 *)
Parsed(stack) == {i \in DOMAIN stack.names : stack.names[i] \notin Unparsable}

LookupEarly(p, stack) ==    \* mutant: an exec's debuginfo is that of the image it replaces
    IF LookupLocations /\ Parsed(stack) # {} /\ p \notin DOMAIN location_lookup
    THEN Put(location_lookup, p, exe[p])
    ELSE location_lookup

(* Lookup::process: the debuginfo is read when a process first needs it,   *)
(* from the image it has by then: at the exit of an exec, the new one.  An *)
(* image that cannot be read or parsed is one without debuginfo.           *)
LookupAfter(p, stack) ==
    IF LookupLocations /\ Parsed(stack) # {} /\ p \notin DOMAIN location_lookup
    THEN Put(location_lookup, p, exe'[p])
    ELSE location_lookup

(* What the debuginfo of an image says of a symbol.                        *)
Located(image, n) == IF <<image, n>> \in DebugInfo THEN image ELSE None

LocationIn(lookup, p) ==
    [n \in Symbol |-> IF p \in DOMAIN lookup THEN Located(lookup[p], n) ELSE None]

Unwound(p, s, nr, caps, stack) ==
    IF SeesStart(stack) THEN StartSeen(s)
    ELSE IF Recorded(s, stack) /\ Parsed(stack) # {}
    THEN RecordStack(s, stack.names, Parsed(stack), caps,
                     IF IncludeSyscalls THEN {nr} ELSE {},
                     LocationIn(LookupAfter(p, stack), p))
    ELSE s

AddressSpacesAfter(p, stack) ==
    IF stack.reached = "nothing" \/ p \in DOMAIN address_spaces
    THEN address_spaces
    ELSE Put(address_spaces, p, active[p].born)

(* The call of a started process; where its stack was recorded, also the   *)
(* function it was made from and the image that function is in.            *)
Witness(p, s, nr, caps, stack) ==
    LET known == Recorded(s, stack) /\ Parsed(stack) # {}
    IN  [born |-> s.born, pid |-> p, nr |-> nr, caps |-> caps,
         first |-> IF known THEN Innermost(stack.names, Parsed(stack)) ELSE None,
         image |-> IF known THEN exe'[p] ELSE None]

(* The handler has the call's Meta and the state of its process.           *)
HandleSyscallExit(p, sval, probe, stack) ==
    LET c    == userdata[p]
        left == StateAtExit(active[p], c, sval, probe)
        caps == CapsAtExit(active[p], c, probe)
    IN  IF caps = {}
        THEN /\ active' = [active EXCEPT ![p] = left]
             /\ UNCHANGED <<address_spaces, location_lookup, witnessed>>
        ELSE /\ active' = [active EXCEPT ![p] =
                             Unwound(p, Charge(left, caps), c.nr, caps, stack)]
             /\ address_spaces' = AddressSpacesAfter(p, stack)
             /\ location_lookup' =
                  IF Recorded(left, stack) THEN LookupAfter(p, stack)
                  ELSE location_lookup
             /\ witnessed' = IF left.waiting THEN witnessed
                             ELSE witnessed \cup {Witness(p, left, c.nr, caps, stack)}

SyscallExit(p, sval, probe, stack) ==
    /\ EnvReturn(p, TRUE)
    /\ IF userdata[p] # None /\ p \in DOMAIN active
       THEN HandleSyscallExit(p, sval, probe, stack)
       ELSE UNCHANGED <<active, address_spaces, location_lookup, witnessed>>
    /\ UNCHANGED <<inactive, report, lost>>

(* An exit with is_error(), which handle_event has no arm for.             *)
SyscallError(p) ==
    /\ EnvReturn(p, FALSE)
    /\ UNCHANGED <<tracerVars, report, lost>>

-----------------------------------------------------------------------------
(* The iterator yields an error: the process has taken its step, and main  *)
(* goes on to the next event.                                              *)
TracerError ==
    /\ lost < MaxLost
    /\ lost' = lost + 1
    /\ \/ \E parent, child \in Pid : EnvClone(parent, child)
       \/ \E p \in Pid : EnvExited(p)
       \/ \E p \in Pid, c \in Call : EnvEntry(p, c, None)
       \/ \E p \in Pid, succeeds \in BOOLEAN : EnvReturn(p, succeeds)
    /\ UNCHANGED <<tracerVars, report>>

ReportActive ==      \* mutant: the processes that have exited are left out
    [process  |-> IntoProcess(active[InitPid]),
     children |-> IF IncludeChildren
                  THEN {IntoProcess(active[p]) : p \in DOMAIN active \ {InitPid}}
                  ELSE {}]

ReportAggregated ==  \* mutant: the overall capabilities are reported of the first process
    [process  |-> [IntoProcess(active[InitPid]) EXCEPT
                      !.capabilities = UNION {s.caps : s \in States}],
     children |-> IF IncludeChildren
                  THEN {IntoProcess(active[p]) : p \in DOMAIN active \ {InitPid}}
                       \cup {IntoProcess(entry[2]) : entry \in inactive}
                  ELSE {}]

(* into_report, when the iterator has no process left to wait for; an      *)
(* Error::ChildMissing when the init process has no active state.          *)
Report ==
    IF InitPid \notin DOMAIN active THEN [process |-> None, children |-> {}]
    ELSE [process  |-> IntoProcess(active[InitPid]),
          children |-> IF IncludeChildren
                       THEN {IntoProcess(active[p]) : p \in DOMAIN active \ {InitPid}}
                            \cup {IntoProcess(entry[2]) : entry \in inactive}
                       ELSE {}]

Finish ==
    /\ Alive = {} /\ report = None
    /\ report' = Report
    /\ UNCHANGED <<tracerVars, envVars>>

(* The register a call returns in: the new descriptor, or 0 from pipe.     *)
Result(c) ==
    CASE c.nr \in {"pipe", "pipe2"} -> {0}
      [] Typed(c.nr) = "FdCreate" -> Fd
      [] OTHER -> {0}

ProbesOf(c) == IF NeedsDirectory(c) \/ c.nr = "ioctl" THEN Probe ELSE {None}

Next ==
    \/ \E parent, child \in Pid : CloneEvent(parent, child)
    \/ \E p \in Pid : ExitedEvent(p)
    \/ \E p \in Pid, c \in Call : \E probe \in ProbesOf(c) : SyscallEntry(p, c, probe)
    \/ \E p \in Pid, stack \in Stack :
         /\ call[p] # None
         /\ \E sval \in Result(call[p]), probe \in ProbesOf(call[p]) :
               SyscallExit(p, sval, probe, stack)
    \/ \E p \in Pid : SyscallError(p)
    \/ TracerError
    \/ Finish

Spec == Init /\ [][Next]_vars

-----------------------------------------------------------------------------
(* A process that has not reached the start symbol has nothing to report:  *)
(* no capability, function or edge of the calls it made before, whatever   *)
(* came between (include_before_start off, waiting_for_start).             *)
SilentBeforeStart == \A s \in States : Silent(s)

(* A function never claims a capability its process is not charged with,   *)
(* and an edge never names a function the FunctionMap does not have: the   *)
(* three parts of a report::Process agree after any sequence of events.    *)
ReportAgrees == \A s \in States : Agrees(s)

(* Whatever a function is reported with leads to a call: along the edges,  *)
(* from the function to one that made a call with this capability, in the  *)
(* same process.  It is Direct in the function that made the call and      *)
(* Transitive in its callers, frames that were skipped between them or     *)
(* not.  (handle_syscall_exit joins the frames; a caller without a path    *)
(* down would claim what no reader of the call graph can explain.)         *)
Reaches(edges, n, m) ==
    \A S \in SUBSET Symbol :
        n \in S /\ (\A e \in edges : e[1] \in S => e[2] \in S) => m \in S

Explains(w, s, n, c) ==
    /\ w.born = s.born /\ c \in w.caps
    /\ s.functions[n].capabilities[c] = "Direct" <=> n = w.first
    /\ Reaches(s.edges, n, w.first)

ClaimsTraceable ==
    \A s \in States : \A n \in DOMAIN s.functions :
        \A c \in DOMAIN s.functions[n].capabilities :
            \E w \in witnessed : Explains(w, s, n, c)

(* The images that stacks under a pid were recorded in.                    *)
RecordedIn(p) == {w.image : w \in {w \in witnessed : w.pid = p /\ w.image # None}}

(* The location reported of a function is what the debuginfo says of it in *)
(* an image its pid was in when a stack was recorded.  Where there is only *)
(* one this is exact: no function has the location of an image that only   *)
(* ran before an exec, in the parent, or under a pid that was given out    *)
(* again without having been recorded.  Where there are several, because   *)
(* of an exec between two recorded calls or a pid recorded for two         *)
(* programs, the location may be that of the wrong one: the lookup keeps   *)
(* the first (location.rs:41), where its comment speaks of the debuginfo   *)
(* in the PID's executable.  That is allowed here and listed in README.    *)
LocatedAt(p, s) ==
    \A n \in DOMAIN s.functions :
        \E image \in RecordedIn(p) : s.functions[n].location = Located(image, n)

LocatedWhereRecorded ==
    LookupLocations =>
        /\ \A p \in DOMAIN active : LocatedAt(p, active[p])
        /\ \A entry \in inactive : LocatedAt(entry[1], entry[2])

(* What the accounting of the map rests on.  A pid that is given out again *)
(* must have left `active`: spawn overwrites what it finds there, the init *)
(* process is never removed, and another stays when its exit is lost.      *)
PidsTellApart == Reusable = {} \/ (MaxLost = 0 /\ InitPid \notin Reusable)

(* Whatever a started process was seen to do stays charged to it: through  *)
(* the exits of the other processes and its own, the reuse of its pid, and *)
(* calls the tracer failed to follow.                                      *)
NothingForgotten ==
    \A w \in witnessed : \E s \in StatesOf(w.born) : w.caps \subseteq s.caps

(* into_report finds the process main spawned, in whatever order the tree  *)
(* exits and whatever the iterator lost: never Error::ChildMissing.        *)
InitNotMissing == InitPid \in DOMAIN active

(* There is a report.  With include_children it covers every call of every *)
(* process; without it, every call of the first.  Either way a process is  *)
(* not reported with what another one did.  Safe is left out of what is    *)
(* written, on purpose.                                                    *)
ReportFaithful ==
    report # None =>
        LET all == {report.process} \cup report.children
        IN  /\ InitNotMissing
            /\ \A w \in witnessed :
                   IncludeChildren \/ w.born = report.process.born =>
                       \E q \in all : /\ q.born = w.born
                                     /\ w.caps \ {"Safe"} \subseteq Serialized(q).capabilities
            /\ \A q \in all : \A c \in q.capabilities :
                   \E w \in witnessed : w.born = q.born /\ c \in w.caps

(* What the doc of --include-syscalls promises: "the actual syscalls       *)
(* invoked will be included in the output", on the function that made      *)
(* them.  The code keeps only the first, see README (FirstCallOnly).       *)
SyscallsIncluded ==
    IncludeSyscalls =>
        \A w \in witnessed : w.first # None =>
            \A s \in StatesOf(w.born) : w.nr \in s.functions[w.first].syscalls

-----------------------------------------------------------------------------
(* The accounts the tracer keeps: of each process the map has, active or   *)
(* not, by the order of its birth.                                         *)
Accounts ==
    [b \in {s.born : s \in States} |-> UNION {s.caps : s \in StatesOf(b)}]

Published ==
    IF report = None THEN None
    ELSE [b \in {q.born : q \in {report.process} \cup report.children} |->
             UNION {q.capabilities : q \in {q \in {report.process} \cup report.children :
                                               q.born = b}}]

Ledger == INSTANCE CapabilityLedger WITH
    Process <- 0..MaxSpawns, First <- 0, Unpublished <- None,
    ledger <- Accounts, published <- Published

(* The process::Map, its exits, overwrites and reports, is a ledger: no    *)
(* process is opened twice or dropped, no account shrinks, no event moves  *)
(* two accounts, and the report copies them.                               *)
ImplementsLedger == Ledger!Spec
=============================================================================
