---------------------------- MODULE RuntimeProofs ----------------------------
(***************************************************************************)
(* What the runtime tracer guarantees for any traced program: any pids,    *)
(* calls, stacks and /proc answers, any interleaving of its processes, and *)
(* any number of events lost.  The parts, in the order of the modules they *)
(* are about:                                                              *)
(*                                                                         *)
(*   ProcessState, Syscalls   what an operation on a process preserves;    *)
(*   Runtime                  the map of processes and its reports;        *)
(*   Runtime                  the calls that what is reported comes from;  *)
(*   Runtime                  nothing charged is dropped, PidsTellApart;   *)
(*   TracedProgram            what is believed of a descriptor, NoPipes.   *)
(***************************************************************************)
EXTENDS TracedProgram, WellFoundedInduction, TLAPS

-----------------------------------------------------------------------------
(***************************************************************************)
(* Operations on process::State and syscall::Meta: the shape of a state,   *)
(* and the agreement of the three parts of a process's report.             *)
(***************************************************************************)

(* What holds of every state the tracer keeps.                             *)
Good(s) == IsState(s) /\ Silent(s) /\ Agrees(s)

(* Two states that a report cannot tell apart.                             *)
SameReport(s, t) ==
    /\ t.caps = s.caps /\ t.functions = s.functions /\ t.edges = s.edges
    /\ t.waiting = s.waiting /\ t.born = s.born

-----------------------------------------------------------------------------
(* A map stays one when a key is set, or when it is cut down.              *)
LEMMA PutMap ==
    ASSUME NEW S, NEW T, NEW f, IsMap(f, S, T), NEW k \in S, NEW v \in T
    PROVE  IsMap(Put(f, k, v), S, T)
  BY DEF IsMap, Put

LEMMA RestrictMap ==
    ASSUME NEW S, NEW T, NEW f, IsMap(f, S, T), NEW D, D \subseteq DOMAIN f
    PROVE  IsMap(Restrict(f, D), S, T)
  BY DEF IsMap, Restrict

LEMMA EmptyMap ==
    ASSUME NEW S, NEW T
    PROVE  IsMap(Empty, S, T)
  BY DEF IsMap, Empty

(* A state with other descriptors, execs or directory reports the same.    *)
LEMMA QuietUpdates ==
    ASSUME NEW s, IsState(s)
    PROVE  /\ \A fds : IsMap(fds, Fd, FdMeta) =>
                  LET t == [s EXCEPT !.fds = fds] IN IsState(t) /\ SameReport(s, t)
           /\ \A image \in Image :
                  IsState(AddExec(s, image)) /\ SameReport(s, AddExec(s, image))
           /\ \A path \in Path :
                  /\ IsState(SetWorkingDirectory(s, path))
                  /\ SameReport(s, SetWorkingDirectory(s, path))
  <1>1. ASSUME NEW fds, IsMap(fds, Fd, FdMeta)
        PROVE  IsState([s EXCEPT !.fds = fds]) /\ SameReport(s, [s EXCEPT !.fds = fds])
    BY <1>1 DEF IsState, SameReport
  <1>2. ASSUME NEW image \in Image
        PROVE  IsState(AddExec(s, image)) /\ SameReport(s, AddExec(s, image))
    BY DEF IsState, SameReport, AddExec
  <1>3. ASSUME NEW path \in Path
        PROVE  /\ IsState(SetWorkingDirectory(s, path))
               /\ SameReport(s, SetWorkingDirectory(s, path))
    BY DEF IsState, SameReport, SetWorkingDirectory
  <1> QED
    BY <1>1, <1>2, <1>3

(* So does one after insert_fd, close or close_range.                      *)
LEMMA FdUpdates ==
    ASSUME NEW s, IsState(s)
    PROVE  /\ \A fd \in Fd, m \in FdMeta :
                  IsState(InsertFd(s, fd, m)) /\ SameReport(s, InsertFd(s, fd, m))
           /\ \A fd : IsState(Close(s, fd)) /\ SameReport(s, Close(s, fd))
           /\ \A a, b : IsState(CloseRange(s, a, b)) /\ SameReport(s, CloseRange(s, a, b))
  <1>1. IsMap(s.fds, Fd, FdMeta)
    BY DEF IsState
  <1>2. ASSUME NEW fd \in Fd, NEW m \in FdMeta
        PROVE  IsState(InsertFd(s, fd, m)) /\ SameReport(s, InsertFd(s, fd, m))
    BY <1>1, PutMap, QuietUpdates DEF InsertFd
  <1>3. ASSUME NEW fd
        PROVE  IsState(Close(s, fd)) /\ SameReport(s, Close(s, fd))
    BY <1>1, RestrictMap, QuietUpdates DEF Close
  <1>4. ASSUME NEW a, NEW b
        PROVE  IsState(CloseRange(s, a, b)) /\ SameReport(s, CloseRange(s, a, b))
    BY <1>1, RestrictMap, QuietUpdates DEF CloseRange
  <1> QED
    BY <1>2, <1>3, <1>4

(* infer_fd, with what /proc said.                                         *)
LEMMA InferUpdates ==
    ASSUME NEW s, IsState(s), NEW fd \in Fd, NEW probe \in FdMeta \cup {None}
    PROVE  IsState(InferFd(s, fd, probe)) /\ SameReport(s, InferFd(s, fd, probe))
  BY FdUpdates DEF InferFd, SameReport

(* Entering a call changes nothing that is reported.                       *)
LEMMA EntryKeeps ==
    ASSUME NEW s, IsState(s), NEW c \in SyscallCall, NEW probe \in FdMeta \cup {None}
    PROVE  IsState(StateAtEntry(s, c, probe)) /\ SameReport(s, StateAtEntry(s, c, probe))
  BY InferUpdates DEF StateAtEntry, NeedsDirectory, SyscallCall, SameReport

(* Nor does into_capabilities, whichever of its arms it takes.             *)
LEMMA ExitKeeps ==
    ASSUME NEW s, IsState(s), NEW c \in SyscallCall, NEW sval \in Fd,
           NEW probe \in FdMeta \cup {None},
           c.nr = "ioctl" => c.fd \in Fd
    PROVE  /\ IsState(StateAtExit(s, c, sval, probe))
           /\ SameReport(s, StateAtExit(s, c, sval, probe))
  <1>1. Created(c) \in FdMeta
    BY DEF Created, CreatedType, FdMeta, FdType, SyscallCall
  <1>2. /\ IsState(InsertCreated(s, c, sval))
        /\ SameReport(s, InsertCreated(s, c, sval))
    BY <1>1, FdUpdates DEF InsertCreated
  <1>3. Typed(c.nr) = "Ioctl" => c.fd \in Fd
    BY DEF Typed
  <1>4. SameReport(s, s)
    BY DEF SameReport
  <1>5. c.image \in Image /\ c.path \in Path
    BY DEF SyscallCall
  <1> QED
    BY <1>2, <1>3, <1>4, <1>5, FdUpdates, InferUpdates, QuietUpdates DEF StateAtExit

(* A state that reports what a good one does is good.                      *)
LEMMA SameReportGood ==
    ASSUME NEW s, NEW t, Good(s), IsState(t), SameReport(s, t)
    PROVE  Good(t)
  BY DEF Good, SameReport, Silent, Agrees

(* Only capabilities come out of the syscall map and of ioctl::caps.       *)
LEMMA CapsAtExitType ==
    ASSUME NEW s, NEW c, NEW probe
    PROVE  CapsAtExit(s, c, probe) \subseteq Capability
  <1>1. \A ty : IoctlCaps(ty) \subseteq Capability
    BY DEF IoctlCaps, Capability
  <1>2. LookupSysno(c.nr) \subseteq Capability
    BY DEF LookupSysno, Capability
  <1> QED
    BY <1>1, <1>2 DEF CapsAtExit

-----------------------------------------------------------------------------
(* A child starts with nothing to report.                                  *)
LEMMA NewStateGood ==
    ASSUME NEW execs \in Seq(Image), NEW fds, IsMap(fds, Fd, FdMeta), NEW wd \in Path,
           NEW waiting \in BOOLEAN, NEW born \in Nat
    PROVE  Good(NewState(execs, fds, wd, waiting, born))
  BY DEF Good, IsState, Silent, Agrees, NewState, Empty

LEMMA InheritedMap ==
    ASSUME NEW s, IsState(s)
    PROVE  IsMap(Inherited(s), Fd, FdMeta)
  BY RestrictMap DEF Inherited, IsState

(* Charging a started process, and seeing its start symbol.                *)
LEMMA ExtendCapsGood ==
    ASSUME NEW s, Good(s), ~s.waiting, NEW caps \in SUBSET Capability
    PROVE  Good(ExtendCaps(s, caps))
  BY DEF Good, IsState, Silent, Agrees, ExtendCaps

LEMMA StartSeenGood ==
    ASSUME NEW s, Good(s)
    PROVE  Good(StartSeen(s))
  BY DEF Good, IsState, Silent, Agrees, StartSeen

(* Recording a stack whose capabilities the process has been charged with  *)
(* keeps functions and edges in agreement, whatever was known before.      *)
LEMMA RecordStackGood ==
    ASSUME NEW s, Good(s), ~s.waiting,
           NEW frames \in Seq(Symbol), NEW kept \in SUBSET (DOMAIN frames),
           NEW caps \in SUBSET s.caps, NEW syscalls \in SUBSET Sysno,
           NEW location \in [Symbol -> Location]
    PROVE  Good(RecordStack(s, frames, kept, caps, syscalls, location))
  <1> DEFINE names == {frames[i] : i \in kept}
             new == [n \in names |->
                       FunctionOf(n, frames, kept, caps, syscalls, location)]
             t == RecordStack(s, frames, kept, caps, syscalls, location)
  <1>1. names \subseteq Symbol
    OBVIOUS
  <1>2. caps \subseteq Capability
    BY DEF Good, IsState
  <1>3. ASSUME NEW n \in names
        PROVE  IsFunction(new[n]) /\ DOMAIN new[n].capabilities \subseteq s.caps
    BY <1>1, <1>2 DEF IsFunction, FunctionOf, FrameType, IsMap, CapabilityType
  <1>4. Calls(frames, kept) \subseteq names \X names
    BY DEF Calls
  <1>5. /\ t.functions = Upsert(s.functions, new)
        /\ t.edges = s.edges \cup Calls(frames, kept)
        /\ t.caps = s.caps /\ t.waiting = s.waiting /\ t.born = s.born
        /\ t.execs = s.execs /\ t.fds = s.fds /\ t.wd = s.wd
        /\ DOMAIN t = DOMAIN s
    BY DEF RecordStack, Good, IsState
  <1>6. DOMAIN t.functions = DOMAIN s.functions \cup names
    BY <1>5 DEF Upsert
  <1>7. ASSUME NEW n \in DOMAIN t.functions
        PROVE  IsFunction(t.functions[n]) /\ DOMAIN t.functions[n].capabilities \subseteq s.caps
    <2>1. CASE n \in DOMAIN s.functions
      BY <1>5, <2>1 DEF Upsert, Good, IsState, Agrees
    <2>2. CASE n \notin DOMAIN s.functions
      <3>1. n \in names /\ t.functions[n] = new[n]
        BY <1>5, <1>6, <2>2 DEF Upsert
      <3> QED
        BY <3>1, <1>3
    <2> QED
      BY <2>1, <2>2
  <1>8. t.edges \subseteq (DOMAIN t.functions) \X (DOMAIN t.functions)
    BY <1>4, <1>5, <1>6 DEF Good, Agrees
  <1>9. IsState(t)
    BY <1>1, <1>5, <1>6, <1>7, <1>8 DEF Good, IsState
  <1> QED
    BY <1>5, <1>7, <1>8, <1>9 DEF Good, Silent, Agrees

-----------------------------------------------------------------------------
(***************************************************************************)
(* The map of processes.                                                   *)
(***************************************************************************)

AllGood ==
    /\ \A p \in DOMAIN active : Good(active[p])
    /\ \A e \in inactive : Good(e[2])

Inv == TypeOK /\ AllGood /\ InitNotMissing

-----------------------------------------------------------------------------
(* The constants' assumptions, as the proofs use them.                     *)
LEMMA CallFacts ==
    /\ \A c \in Call : c \in SyscallCall /\ \A sval \in Result(c) : sval \in Fd
    /\ \A c \in Call : \A probe \in ProbesOf(c) : probe \in FdMeta \cup {None}
    /\ Waiting \in BOOLEAN
    /\ \A stack \in Stack : stack.names \in Seq(Symbol)
  <1>1. \A c \in Call : c \in SyscallCall /\ \A sval \in Result(c) : sval \in Fd
    BY InputAssumption DEF Result
  <1>2. \A c \in Call : \A probe \in ProbesOf(c) : probe \in FdMeta \cup {None}
    BY InputAssumption DEF ProbesOf
  <1>3. Waiting \in BOOLEAN
    BY DEF Waiting
  <1>4. \A stack \in Stack : stack.names \in Seq(Symbol)
    BY StackAssumption DEF Walk
  <1> QED
    BY <1>1, <1>2, <1>3, <1>4

(* A process runs an image after a call, the one it executed or another.   *)
LEMMA ExitImage ==
    ASSUME TypeOK, NEW p \in Pid, NEW succeeds, EnvReturn(p, succeeds)
    PROVE  exe'[p] \in Image
  <1>1. exe \in [Pid -> Image] /\ call[p] \in SyscallCall
    BY InputAssumption DEF EnvReturn, TypeOK
  <1> QED
    BY <1>1 DEF EnvReturn, SyscallCall

(* Nothing was recorded of a process but its own call: the states of the   *)
(* map change by one key at a time.                                        *)
LEMMA LocationInType ==
    ASSUME NEW p, NEW lookup, IsMap(lookup, Pid, Image)
    PROVE  LocationIn(lookup, p) \in [Symbol -> Location]
  BY DEF LocationIn, Located, Location, IsMap

LEMMA LookupAfterType ==
    ASSUME TypeOK, NEW p \in Pid, NEW stack \in Stack, exe'[p] \in Image
    PROVE  IsMap(LookupAfter(p, stack), Pid, Image)
  BY PutMap DEF LookupAfter, TypeOK

(* What is remembered of a call.                                           *)
LEMMA WitnessIs ==
    ASSUME NEW p, NEW s, NEW nr, NEW caps, NEW stack, exe'[p] \in Image
    PROVE  LET w == Witness(p, s, nr, caps, stack)
           IN  /\ w.born = s.born /\ w.pid = p /\ w.nr = nr /\ w.caps = caps
               /\ w.image \in Location
               /\ Recorded(s, stack) /\ Parsed(stack) # {} =>
                     /\ w.first = Innermost(stack.names, Parsed(stack))
                     /\ w.image = exe'[p]
  BY DEF Witness, Location

(* What handle_syscall_exit makes of a state after into_capabilities: it   *)
(* stays good, keeps its identity and what it was charged with, and, once  *)
(* started, is charged with the call.                                      *)
LEMMA UnwoundGood ==
    ASSUME TypeOK, NEW p \in Pid, exe'[p] \in Image,
           NEW s, Good(s), NEW stack \in Stack, NEW nr \in Sysno, NEW caps \in SUBSET Capability
    PROVE  LET t == Unwound(p, Charge(s, caps), nr, caps, stack)
           IN  /\ Good(t) /\ t.born = s.born
               /\ s.caps \subseteq t.caps
               /\ ~s.waiting => caps \subseteq t.caps
  <1> DEFINE u == Charge(s, caps)
             t == Unwound(p, u, nr, caps, stack)
             loc == LocationIn(LookupAfter(p, stack), p)
             sys == IF IncludeSyscalls THEN {nr} ELSE {}
             r == RecordStack(u, stack.names, Parsed(stack), caps, sys, loc)
  <1>1. /\ Good(u) /\ u.born = s.born /\ u.waiting = s.waiting /\ s.caps \subseteq u.caps
        /\ ~s.waiting => caps \subseteq u.caps
    <2>1. CASE s.waiting
      BY <2>1 DEF Charge
    <2>2. CASE ~s.waiting
      <3>1. Good(ExtendCaps(s, caps))
        BY <2>2, ExtendCapsGood
      <3>2. /\ ExtendCaps(s, caps).born = s.born
            /\ ExtendCaps(s, caps).waiting = s.waiting
            /\ ExtendCaps(s, caps).caps = s.caps \cup caps
        BY DEF ExtendCaps, Good, IsState
      <3> QED
        BY <2>2, <3>1, <3>2 DEF Charge
    <2> QED
      BY <2>1, <2>2
  <1>2. CASE SeesStart(stack)
    <2>1. StartSeen(u).born = u.born /\ StartSeen(u).caps = u.caps
      BY <1>1 DEF StartSeen, Good, IsState
    <2> QED
      BY <1>1, <1>2, <2>1, StartSeenGood DEF Unwound
  <1>3. CASE ~SeesStart(stack) /\ Recorded(u, stack) /\ Parsed(stack) # {}
    <2>1. ~u.waiting /\ caps \in SUBSET u.caps
      BY <1>1, <1>3 DEF Recorded
    <2>2. /\ stack.names \in Seq(Symbol) /\ Parsed(stack) \in SUBSET (DOMAIN stack.names)
          /\ sys \in SUBSET Sysno /\ loc \in [Symbol -> Location]
      BY CallFacts, LookupAfterType, LocationInType DEF Parsed
    <2>3. Good(r)
      BY <1>1, <2>1, <2>2, RecordStackGood
    <2>4. r.born = u.born /\ r.caps = u.caps
      BY <1>1 DEF RecordStack, Good, IsState
    <2>5. t = r
      BY <1>3 DEF Unwound
    <2> QED
      BY <1>1, <2>3, <2>4, <2>5
  <1>4. CASE ~SeesStart(stack) /\ ~(Recorded(u, stack) /\ Parsed(stack) # {})
    <2>1. t = u
      BY <1>4 DEF Unwound
    <2> QED
      BY <1>1, <2>1
  <1> QED
    BY <1>2, <1>3, <1>4

(* The state handle_syscall_exit leaves in the map, whichever way it ends.  *)
LEMMA HandledGood ==
    ASSUME Inv, NEW p \in DOMAIN active, NEW sval \in Fd,
           NEW probe \in FdMeta \cup {None}, NEW stack \in Stack,
           userdata[p] # None, exe'[p] \in Image,
           HandleSyscallExit(p, sval, probe, stack)
    PROVE  LET c    == userdata[p]
               left == StateAtExit(active[p], c, sval, probe)
               caps == CapsAtExit(active[p], c, probe)
           IN  /\ caps \in SUBSET Capability
               /\ SameReport(active[p], left)
               /\ active' = [active EXCEPT ![p] = active'[p]]
               /\ Good(active'[p]) /\ active'[p].born = active[p].born
               /\ active[p].caps \subseteq active'[p].caps
               /\ ~left.waiting => caps \subseteq active'[p].caps
  <1> DEFINE c    == userdata[p]
             left == StateAtExit(active[p], c, sval, probe)
             caps == CapsAtExit(active[p], c, probe)
             t    == Unwound(p, Charge(left, caps), c.nr, caps, stack)
  <1>1. p \in Pid /\ c \in Call /\ c \in SyscallCall
    BY CallFacts DEF Inv, TypeOK
  <1>2. Good(left) /\ SameReport(active[p], left)
    <2>1. c.nr = "ioctl" => c.fd \in Fd
      BY <1>1, InputAssumption
    <2>2. IsState(left) /\ SameReport(active[p], left)
      BY <1>1, <2>1, ExitKeeps DEF Inv, TypeOK
    <2> QED
      BY <2>2, SameReportGood DEF Inv, AllGood
  <1>3. caps \in SUBSET Capability
    BY CapsAtExitType
  <1>4. CASE caps = {}
    <2>1. active' = [active EXCEPT ![p] = left]
      BY <1>4 DEF HandleSyscallExit
    <2> QED
      BY <1>2, <1>3, <1>4, <2>1 DEF SameReport
  <1>5. CASE caps # {}
    <2>1. active' = [active EXCEPT ![p] = t]
      BY <1>5 DEF HandleSyscallExit
    <2>2. c.nr \in Sysno
      BY <1>1 DEF SyscallCall
    <2>3. Good(t) /\ t.born = left.born /\ left.caps \subseteq t.caps
          /\ (~left.waiting => caps \subseteq t.caps)
      BY <1>1, <1>2, <1>3, <2>2, UnwoundGood DEF Inv
    <2> QED
      BY <1>2, <1>3, <2>1, <2>3 DEF SameReport
  <1> QED
    BY <1>4, <1>5

-----------------------------------------------------------------------------
LEMMA InitInv == Init => Inv
  <1> SUFFICES ASSUME Init PROVE Inv
    OBVIOUS
  <1> DEFINE s == NewState(<<InitImage>>, Empty, InitWd, Waiting, 0)
  <1>1. Good(s)
    <2>1. <<InitImage>> \in Seq(Image) /\ InitWd \in Path
      BY InputAssumption
    <2>2. IsMap(Empty, Fd, FdMeta)
      BY EmptyMap
    <2> QED
      BY <2>1, <2>2, NewStateGood, CallFacts
  <1>2. DOMAIN active = {InitPid} /\ active[InitPid] = s /\ inactive = {}
    BY DEF Init
  <1>3. AllGood /\ InitNotMissing
    BY <1>1, <1>2 DEF AllGood, InitNotMissing
  <1>4. IsMap(address_spaces, Pid, Nat) /\ IsMap(location_lookup, Pid, Image)
    BY EmptyMap DEF Init
  <1>5. TypeOK
    BY <1>1, <1>2, <1>4, PidAssumption, InputAssumption DEF TypeOK, Init, Good
  <1> QED
    BY <1>3, <1>5 DEF Inv

(* The external steps keep the types of what the library and the kernel    *)
(* hold.                                                                   *)
EnvOK ==
    /\ stage \in [Pid -> {"gone", "user", "kernel", "cloned"}]
    /\ call \in [Pid -> Call \cup {None}]
    /\ exe \in [Pid -> Image]
    /\ userdata \in [Pid -> Call \cup {None}]
    /\ {spawned, calls} \subseteq Nat
    /\ used \subseteq Pid

LEMMA EnvSteps ==
    ASSUME EnvOK,
           \/ \E parent, child \in Pid : EnvClone(parent, child)
           \/ \E p \in Pid : EnvExited(p)
           \/ \E p \in Pid, c \in Call, meta \in Call \cup {None} : EnvEntry(p, c, meta)
           \/ \E p \in Pid, succeeds \in BOOLEAN : EnvReturn(p, succeeds)
    PROVE  EnvOK'
  <1>1. ASSUME NEW parent \in Pid, NEW child \in Pid, EnvClone(parent, child)
        PROVE  EnvOK'
    BY <1>1 DEF EnvOK, EnvClone
  <1>2. ASSUME NEW p \in Pid, EnvExited(p)
        PROVE  EnvOK'
    BY <1>2 DEF EnvOK, EnvExited
  <1>3. ASSUME NEW p \in Pid, NEW c \in Call, NEW meta \in Call \cup {None},
               EnvEntry(p, c, meta)
        PROVE  EnvOK'
    BY <1>3 DEF EnvOK, EnvEntry
  <1>4. ASSUME NEW p \in Pid, NEW succeeds \in BOOLEAN, EnvReturn(p, succeeds)
        PROVE  EnvOK'
    <2>1. Typed(call[p].nr) = "Exec" => call[p] \in SyscallCall
      BY <1>4, InputAssumption DEF EnvReturn, EnvOK
    <2> QED
      BY <1>4, <2>1 DEF EnvOK, EnvReturn, SyscallCall
  <1> QED
    BY <1>1, <1>2, <1>3, <1>4

(* The events, whatever descriptor a call returns and whatever /proc says:  *)
(* more than Next allows, for a system that says more precisely what they  *)
(* are (TracedProgram).                                                    *)
AnyEvent ==
    \/ \E parent, child \in Pid : CloneEvent(parent, child)
    \/ \E p \in Pid : ExitedEvent(p)
    \/ \E p \in Pid, c \in Call, probe \in FdMeta \cup {None} : SyscallEntry(p, c, probe)
    \/ \E p \in Pid, sval \in Fd, probe \in FdMeta \cup {None}, stack \in Stack :
         SyscallExit(p, sval, probe, stack)
    \/ \E p \in Pid : SyscallError(p)
    \/ TracerError
    \/ Finish

LEMMA NextIsAnyEvent == Inv /\ Next => AnyEvent
  <1> SUFFICES ASSUME Inv, Next PROVE AnyEvent
    OBVIOUS
  <1>1. CASE \E p \in Pid, c \in Call : \E probe \in ProbesOf(c) : SyscallEntry(p, c, probe)
    BY <1>1, CallFacts DEF AnyEvent
  <1>2. CASE \E p \in Pid, stack \in Stack :
               /\ call[p] # None
               /\ \E sval \in Result(call[p]), probe \in ProbesOf(call[p]) :
                    SyscallExit(p, sval, probe, stack)
    <2>1. PICK p \in Pid, stack \in Stack :
             /\ call[p] # None
             /\ \E sval \in Result(call[p]), probe \in ProbesOf(call[p]) :
                  SyscallExit(p, sval, probe, stack)
      BY <1>2
    <2>2. PICK sval \in Result(call[p]), probe \in ProbesOf(call[p]) :
             SyscallExit(p, sval, probe, stack)
      BY <2>1
    <2>3. sval \in Fd /\ probe \in FdMeta \cup {None}
      BY <2>1, CallFacts DEF Inv, TypeOK
    <2> QED
      BY <2>2, <2>3 DEF AnyEvent
  <1> QED
    BY <1>1, <1>2 DEF Next, AnyEvent

(* Every event but Finish is a step of the traced program.                 *)
LEMMA NextEnvOK == Inv /\ AnyEvent => EnvOK'
  <1> SUFFICES ASSUME Inv, AnyEvent PROVE EnvOK'
    OBVIOUS
  <1>1. EnvOK
    BY DEF Inv, TypeOK, EnvOK
  <1>2. ASSUME NEW p \in Pid, NEW c \in Call, NEW probe, SyscallEntry(p, c, probe)
        PROVE  \E meta \in Call \cup {None} : EnvEntry(p, c, meta)
    BY <1>2 DEF SyscallEntry
  <1>3. CASE Finish
    BY <1>1, <1>3 DEF Finish, envVars, EnvOK
  <1>4. CASE ~Finish
    BY <1>1, <1>2, <1>4, EnvSteps
       DEF AnyEvent, CloneEvent, ExitedEvent, SyscallExit, SyscallError, TracerError
  <1> QED
    BY <1>3, <1>4

LEMMA AnyEventInv == Inv /\ [AnyEvent]_vars => Inv'
  <1> SUFFICES ASSUME Inv, [AnyEvent]_vars PROVE Inv'
    OBVIOUS
  <1> DEFINE Maps == /\ IsMap(address_spaces, Pid, Nat)
                     /\ IsMap(location_lookup, Pid, Image)
             Seen == \A w \in witnessed :
                        /\ w.born \in Nat /\ w.pid \in Pid /\ w.nr \in Sysno
                        /\ w.caps \subseteq Capability /\ w.image \in Location
             Procs == /\ DOMAIN active \subseteq Pid
                      /\ \A e \in inactive : e[1] \in Pid
                      /\ AllGood /\ InitNotMissing
  <1>1. Maps /\ Seen /\ Procs /\ lost \in Nat
    BY DEF Inv, TypeOK
  <1>2. ASSUME AnyEvent, Maps', Seen', Procs', lost' \in Nat
        PROVE  Inv'
    BY <1>2, NextEnvOK DEF Inv, TypeOK, EnvOK, AllGood, Good
  <1>3. ASSUME NEW parent \in Pid, NEW child \in Pid, CloneEvent(parent, child)
        PROVE  Maps' /\ Seen' /\ Procs' /\ lost' \in Nat
    <2>1. CASE parent \in DOMAIN active
      <3> DEFINE s == NewState(<<>>, Inherited(active[parent]), active[parent].wd,
                               Waiting, spawned')
      <3>1. Good(s)
        <4>1. spawned' \in Nat
          BY <1>3 DEF CloneEvent, EnvClone, Inv, TypeOK
        <4>2. IsMap(Inherited(active[parent]), Fd, FdMeta) /\ active[parent].wd \in Path
          BY <2>1, InheritedMap DEF Inv, AllGood, Good, IsState
        <4>3. <<>> \in Seq(Image)
          OBVIOUS
        <4> QED
          BY <4>1, <4>2, <4>3, NewStateGood, CallFacts
      <3>2. active' = Put(active, child, s) /\ inactive' = inactive
        BY <1>3, <2>1 DEF CloneEvent, Spawn
      <3>3. Procs'
        BY <1>1, <3>1, <3>2 DEF Put, AllGood, InitNotMissing
      <3> QED
        BY <1>1, <1>3, <3>3 DEF CloneEvent
    <2>2. CASE parent \notin DOMAIN active
      BY <1>1, <1>3, <2>2 DEF CloneEvent, Spawn, AllGood, InitNotMissing
    <2> QED
      BY <2>1, <2>2
  <1>4. ASSUME NEW p \in Pid, ExitedEvent(p)
        PROVE  Maps' /\ Seen' /\ Procs' /\ lost' \in Nat
    <2>1. CASE p # InitPid /\ p \in DOMAIN active
      <3>1. /\ active' = Restrict(active, DOMAIN active \ {p})
            /\ inactive' = inactive \cup {<<p, active[p]>>}
        BY <1>4, <2>1 DEF ExitedEvent, Exit
      <3>2. Procs'
        BY <1>1, <2>1, <3>1 DEF Restrict, AllGood, InitNotMissing
      <3> QED
        BY <1>1, <1>4, <3>2 DEF ExitedEvent
    <2>2. CASE ~(p # InitPid /\ p \in DOMAIN active)
      BY <1>1, <1>4, <2>2 DEF ExitedEvent, Exit, mapVars, AllGood, InitNotMissing
    <2> QED
      BY <2>1, <2>2
  <1>5. ASSUME NEW p \in Pid, NEW c \in Call, NEW probe \in FdMeta \cup {None},
               SyscallEntry(p, c, probe)
        PROVE  Maps' /\ Seen' /\ Procs' /\ lost' \in Nat
    <2>1. CASE p \in DOMAIN active
      <3>1. Good(StateAtEntry(active[p], c, probe))
        BY <2>1, EntryKeeps, SameReportGood, InputAssumption DEF Inv, AllGood, Good
      <3>2. /\ active' = [active EXCEPT ![p] = StateAtEntry(active[p], c, probe)]
            /\ inactive' = inactive
        BY <1>5, <2>1 DEF SyscallEntry
      <3>3. Procs'
        BY <1>1, <3>1, <3>2 DEF AllGood, InitNotMissing
      <3> QED
        BY <1>1, <1>5, <3>3 DEF SyscallEntry
    <2>2. CASE p \notin DOMAIN active
      BY <1>1, <1>5, <2>2 DEF SyscallEntry, AllGood, InitNotMissing
    <2> QED
      BY <2>1, <2>2
  <1>6. ASSUME NEW p \in Pid, NEW sval \in Fd, NEW probe \in FdMeta \cup {None},
               NEW stack \in Stack, SyscallExit(p, sval, probe, stack)
        PROVE  Maps' /\ Seen' /\ Procs' /\ lost' \in Nat
    <2>1. CASE userdata[p] # None /\ p \in DOMAIN active
      <3> DEFINE c    == userdata[p]
                 left == StateAtExit(active[p], c, sval, probe)
                 caps == CapsAtExit(active[p], c, probe)
      <3>1. HandleSyscallExit(p, sval, probe, stack) /\ inactive' = inactive /\ lost' = lost
        BY <1>6, <2>1 DEF SyscallExit
      <3>0. exe'[p] \in Image
        BY <1>6, ExitImage DEF Inv, SyscallExit
      <3>2. /\ caps \in SUBSET Capability /\ SameReport(active[p], left)
            /\ active' = [active EXCEPT ![p] = active'[p]] /\ Good(active'[p])
        BY <2>1, <3>0, <3>1, HandledGood
      <3>3. Procs'
        BY <1>1, <3>1, <3>2 DEF AllGood, InitNotMissing
      <3>4. active[p].born \in Nat /\ left.born \in Nat /\ c.nr \in Sysno
        <4>1. c \in SyscallCall
          BY <2>1, InputAssumption DEF Inv, TypeOK
        <4> QED
          BY <2>1, <3>2, <4>1 DEF Inv, TypeOK, IsState, SameReport, SyscallCall
      <3>5. /\ IsMap(AddressSpacesAfter(p, stack), Pid, Nat)
            /\ IsMap(LookupAfter(p, stack), Pid, Image)
        BY <1>1, <3>0, <3>4, PutMap, LookupAfterType DEF AddressSpacesAfter, Inv
      <3>6. Maps'
        BY <1>1, <3>1, <3>5 DEF HandleSyscallExit
      <3>7. Seen'
        <4>1. CASE caps = {} \/ left.waiting
          BY <1>1, <3>1, <4>1 DEF HandleSyscallExit
        <4>2. CASE caps # {} /\ ~left.waiting
          <5> DEFINE w == Witness(p, left, c.nr, caps, stack)
          <5>1. witnessed' = witnessed \cup {w}
            BY <3>1, <4>2 DEF HandleSyscallExit
          <5>2. /\ w.born = left.born /\ w.pid = p /\ w.nr = c.nr /\ w.caps = caps
                /\ w.image \in Location
            BY <3>0, WitnessIs
          <5> HIDE DEF w
          <5> QED
            BY <1>1, <1>6, <3>2, <3>4, <5>1, <5>2
        <4> QED
          BY <4>1, <4>2
      <3> QED
        BY <1>1, <3>1, <3>3, <3>6, <3>7
    <2>2. CASE ~(userdata[p] # None /\ p \in DOMAIN active)
      BY <1>1, <1>6, <2>2 DEF SyscallExit, AllGood, InitNotMissing
    <2> QED
      BY <2>1, <2>2
  <1>7. ASSUME UNCHANGED tracerVars, lost' \in Nat
        PROVE  Maps' /\ Seen' /\ Procs' /\ lost' \in Nat
    BY <1>1, <1>7 DEF tracerVars, AllGood, InitNotMissing
  <1>8. CASE \/ \E p \in Pid : SyscallError(p)
             \/ TracerError
             \/ Finish
    <2>1. UNCHANGED tracerVars /\ lost' \in Nat
      <3>1. CASE \E p \in Pid : SyscallError(p)
        BY <1>1, <3>1 DEF SyscallError, tracerVars
      <3>2. CASE TracerError
        BY <1>1, <3>2 DEF TracerError, tracerVars
      <3>3. CASE Finish
        BY <1>1, <3>3 DEF Finish, tracerVars, envVars
      <3> QED
        BY <1>8, <3>1, <3>2, <3>3
    <2>2. AnyEvent
      <3>1. CASE \E p \in Pid : SyscallError(p)
        BY <3>1 DEF AnyEvent
      <3>2. CASE TracerError
        BY <3>2 DEF AnyEvent
      <3>3. CASE Finish
        BY <3>3 DEF AnyEvent
      <3> QED
        BY <1>8, <3>1, <3>2, <3>3
    <2>3. Maps' /\ Seen' /\ Procs'
      BY <1>7, <2>1
    <2> QED
      BY <1>2, <2>1, <2>2, <2>3
  <1>9. CASE UNCHANGED vars
    BY <1>9 DEF vars, tracerVars, envVars, Inv, TypeOK, AllGood, InitNotMissing
  <1> QED
    BY <1>2, <1>3, <1>4, <1>5, <1>6, <1>8, <1>9 DEF AnyEvent

LEMMA NextInv == Inv /\ [Next]_vars => Inv'
  BY NextIsAnyEvent, AnyEventInv

(* The invariant the unconditional theorems are read off.                  *)
THEOREM Invariance == Spec => []Inv
  BY InitInv, NextInv, PTL DEF Spec

(* Type correctness, of the tracer and of what it is driven by.            *)
THEOREM TypeCorrect == Spec => []TypeOK
  BY Invariance, PTL DEF Inv

(* The start symbol is a fence: nothing a process did before it reaches    *)
(* its part of the report.                                                 *)
THEOREM StartIsAFence == Spec => []SilentBeforeStart
  <1>1. Inv => SilentBeforeStart
    BY DEF Inv, AllGood, Good, SilentBeforeStart, States
  <1> QED
    BY <1>1, Invariance, PTL

(* The capabilities, functions and edges of a process agree.               *)
THEOREM PartsAgree == Spec => []ReportAgrees
  <1>1. Inv => ReportAgrees
    BY DEF Inv, AllGood, Good, ReportAgrees, States
  <1> QED
    BY <1>1, Invariance, PTL

(* into_report never fails for want of the process main spawned.           *)
THEOREM NeverChildMissing == Spec => []InitNotMissing
  BY Invariance, PTL DEF Inv

-----------------------------------------------------------------------------
(***************************************************************************)
(* Where what is reported comes from: every charge, every claim of a       *)
(* function and every location leads back to a call that the tracer saw    *)
(* the same process make.                                                  *)
(***************************************************************************)

Charged(s, W) == \A c \in s.caps : \E w \in W : w.born = s.born /\ c \in w.caps

Explained(s, W) ==
    \A n \in DOMAIN s.functions : \A c \in DOMAIN s.functions[n].capabilities :
        \E w \in W : Explains(w, s, n, c)

FoundIn(w, p, n, location) ==
    w.pid = p /\ w.image # None /\ location = Located(w.image, n)

Placed(p, s, W) ==
    LookupLocations =>
        \A n \in DOMAIN s.functions :
            \E w \in W : FoundIn(w, p, n, s.functions[n].location)

Accounted(p, s, W) == Charged(s, W) /\ Explained(s, W) /\ Placed(p, s, W)

(* The debuginfo kept for a pid is that of an image a stack was recorded   *)
(* in under this pid.                                                      *)
LookupRecorded(lookup, W) ==
    \A p \in DOMAIN lookup :
        \E w \in W : w.pid = p /\ w.image # None /\ w.image = lookup[p]

Provenance ==
    /\ \A p \in DOMAIN active : Accounted(p, active[p], witnessed)
    /\ \A e \in inactive : Accounted(e[1], e[2], witnessed)
    /\ LookupRecorded(location_lookup, witnessed)

-----------------------------------------------------------------------------
(* A set of numbers that is not empty has a least one.                     *)
Less == OpToRel(<, Nat)

LEMMA LeastNat ==
    ASSUME NEW T \in SUBSET Nat, T # {}
    PROVE  \E x \in T : \A y \in T : x <= y
  <1>1. IsWellFoundedOn(Less, Nat)
    BY NatLessThanWellFounded DEF Less
  <1>2. PICK x \in T : \A y \in T : ~(<<y, x>> \in Less)
    BY <1>1, WFMin
  <1>3. ASSUME NEW y \in T PROVE x <= y
    <2>1. x \in Nat /\ y \in Nat
      OBVIOUS
    <2>2. y < x => <<y, x>> \in Less
      BY <2>1 DEF Less, OpToRel
    <2> QED
      BY <1>2, <2>1, <2>2
  <1> QED
    BY <1>3

(* A path stays one when edges are added.                                  *)
LEMMA ReachesMore ==
    ASSUME NEW E, NEW F, E \subseteq F, NEW n, NEW m, Reaches(E, n, m)
    PROVE  Reaches(F, n, m)
  BY DEF Reaches

(* From every frame of a stack whose name parses, the edges of that stack  *)
(* lead to the innermost one, however many frames between were skipped:    *)
(* the lowest frame in a set closed under the edges has nothing below it.  *)
LEMMA ChainReaches ==
    ASSUME NEW frames \in Seq(Symbol), NEW kept \in SUBSET (DOMAIN frames),
           NEW i \in kept, NEW E, Calls(frames, kept) \subseteq E
    PROVE  Reaches(E, frames[i], Innermost(frames, kept))
  <1> SUFFICES ASSUME NEW S \in SUBSET Symbol, frames[i] \in S,
                      \A e \in E : e[1] \in S => e[2] \in S
               PROVE  Innermost(frames, kept) \in S
    BY DEF Reaches
  <1>1. kept \subseteq Nat
    OBVIOUS
  <1>2. PICK first \in kept : \A j \in kept : first <= j
    BY <1>1, LeastNat
  <1>3. Innermost(frames, kept) = frames[first]
    <2>1. \A j \in kept : (\A k \in kept : j <= k) => j = first
      BY <1>1, <1>2
    <2>2. (CHOOSE j \in kept : \A k \in kept : j <= k) = first
      BY <1>2, <2>1
    <2> QED
      BY <2>2 DEF Innermost
  <1> DEFINE K == {j \in kept : frames[j] \in S}
  <1>4. PICK m \in K : \A j \in K : m <= j
    <2>1. K \in SUBSET Nat /\ K # {}
      BY <1>1
    <2> HIDE DEF K
    <2> QED
      BY <2>1, LeastNat
  <1>5. CASE m = first
    BY <1>3, <1>4, <1>5
  <1>6. CASE m # first
    <2> DEFINE Gap == {m - h : h \in {h \in kept : h < m}}
    <2>1. PICK g \in Gap : \A h \in Gap : g <= h
      <3>1. Gap \in SUBSET Nat
        BY <1>1, <1>4
      <3>2. m - first \in Gap
        BY <1>1, <1>2, <1>4, <1>6
      <3> HIDE DEF Gap
      <3> QED
        BY <3>1, <3>2, LeastNat
    <2>2. PICK j \in kept : j < m /\ g = m - j
      BY <2>1
    <2>3. Adjacent(kept, j, m)
      <3>1. ASSUME NEW k \in kept, j < k, k < m PROVE FALSE
        <4>1. m - k \in Gap
          BY <3>1
        <4>2. m - j <= m - k
          BY <2>1, <2>2, <4>1
        <4>3. j \in Nat /\ k \in Nat /\ m \in Nat
          BY <1>1, <1>4
        <4> HIDE DEF Gap, K
        <4> QED
          BY <3>1, <4>2, <4>3
      <3> QED
        BY <2>2, <3>1 DEF Adjacent
    <2>4. <<frames[m], frames[j]>> \in E
      <3> DEFINE e == <<j, m>>
      <3>1. e \in kept \X kept /\ e[1] = j /\ e[2] = m
        BY <1>4
      <3> HIDE DEF e
      <3>2. <<frames[m], frames[j]>> \in Calls(frames, kept)
        BY <2>3, <3>1 DEF Calls
      <3> QED
        BY <3>2
    <2>5. frames[j] \in S
      <3> DEFINE d == <<frames[m], frames[j]>>
      <3>1. d[1] = frames[m] /\ d[2] = frames[j] /\ d \in E
        BY <2>4
      <3> HIDE DEF d
      <3> QED
        BY <1>4, <3>1
    <2> QED
      BY <1>1, <1>4, <2>2, <2>5
  <1> QED
    BY <1>5, <1>6

-----------------------------------------------------------------------------
(* What has an account keeps it, as calls are witnessed and as long as the *)
(* report of the process does not change.                                  *)
LEMMA AccountedStays ==
    ASSUME NEW p, NEW s, NEW t, SameReport(s, t), NEW W, NEW V, W \subseteq V,
           Accounted(p, s, W)
    PROVE  Accounted(p, t, V)
  <1>1. Charged(t, V)
    BY DEF Accounted, Charged, SameReport
  <1>2. Explained(t, V)
    BY DEF Accounted, Explained, Explains, SameReport
  <1>3. Placed(p, t, V)
    BY DEF Accounted, Placed, SameReport
  <1> QED
    BY <1>1, <1>2, <1>3 DEF Accounted

LEMMA LookupRecordedStays ==
    ASSUME NEW lookup, NEW W, NEW V, W \subseteq V, LookupRecorded(lookup, W)
    PROVE  LookupRecorded(lookup, V)
  BY DEF LookupRecorded

(* Recording the stack of a witnessed call: the functions it adds claim    *)
(* what that call did, are Direct where it was made, and reach it.         *)
LEMMA RecordStackAccounted ==
    ASSUME NEW p, NEW s, IsState(s), NEW W, Accounted(p, s, W),
           NEW frames \in Seq(Symbol), NEW kept \in SUBSET (DOMAIN frames),
           NEW caps, NEW syscalls, NEW location, NEW w \in W,
           w.born = s.born, w.caps = caps, w.first = Innermost(frames, kept),
           LookupLocations =>
               \A n \in Symbol : \E v \in W : FoundIn(v, p, n, location[n])
    PROVE  Accounted(p, RecordStack(s, frames, kept, caps, syscalls, location), W)
  <1> DEFINE names == {frames[i] : i \in kept}
             new == [n \in names |->
                       FunctionOf(n, frames, kept, caps, syscalls, location)]
             t == RecordStack(s, frames, kept, caps, syscalls, location)
  <1>1. /\ t.functions = Upsert(s.functions, new)
        /\ t.edges = s.edges \cup Calls(frames, kept)
        /\ t.caps = s.caps /\ t.born = s.born
    BY DEF RecordStack, IsState
  <1>2. Charged(t, W)
    BY <1>1 DEF Accounted, Charged
  <1>3. ASSUME NEW n \in DOMAIN t.functions
        PROVE  \/ n \in DOMAIN s.functions /\ t.functions[n] = s.functions[n]
               \/ n \in names /\ t.functions[n] = new[n]
    BY <1>1 DEF Upsert
  <1>4. Explained(t, W)
    <2> SUFFICES ASSUME NEW n \in DOMAIN t.functions,
                        NEW c \in DOMAIN t.functions[n].capabilities
                 PROVE  \E v \in W : Explains(v, t, n, c)
      BY DEF Explained
    <2>1. CASE n \in DOMAIN s.functions /\ t.functions[n] = s.functions[n]
      <3>1. PICK v \in W : Explains(v, s, n, c)
        BY <2>1 DEF Accounted, Explained
      <3>2. Reaches(t.edges, n, v.first)
        BY <1>1, <3>1, ReachesMore DEF Explains
      <3> QED
        BY <1>1, <2>1, <3>1, <3>2 DEF Explains
    <2>2. CASE n \in names /\ t.functions[n] = new[n]
      <3>1. /\ t.functions[n].capabilities = [d \in caps |-> FrameType(frames, kept, n)]
            /\ c \in caps
        BY <2>2 DEF FunctionOf
      <3>2. t.functions[n].capabilities[c] = "Direct" <=> n = w.first
        BY <3>1 DEF FrameType
      <3>3. Reaches(t.edges, n, w.first)
        BY <1>1, <2>2, ChainReaches
      <3> QED
        BY <1>1, <3>1, <3>2, <3>3 DEF Explains
    <2> QED
      BY <1>3, <2>1, <2>2
  <1>5. Placed(p, t, W)
    <2> SUFFICES ASSUME LookupLocations, NEW n \in DOMAIN t.functions
                 PROVE  \E v \in W : FoundIn(v, p, n, t.functions[n].location)
      BY DEF Placed
    <2>1. CASE n \in DOMAIN s.functions /\ t.functions[n] = s.functions[n]
      BY <2>1 DEF Accounted, Placed
    <2>2. CASE n \in names /\ t.functions[n] = new[n]
      <3>1. n \in Symbol /\ t.functions[n].location = location[n]
        BY <2>2 DEF FunctionOf
      <3> QED
        BY <3>1
    <2> QED
      BY <1>3, <2>1, <2>2
  <1> QED
    BY <1>2, <1>4, <1>5 DEF Accounted

(* The debuginfo after a recorded stack is that of a witnessed image.      *)
LEMMA LookupAfterRecorded ==
    ASSUME NEW p \in Pid, NEW stack, NEW W, LookupRecorded(location_lookup, W),
           NEW w \in W, w.pid = p, w.image # None, w.image = exe'[p]
    PROVE  LookupRecorded(LookupAfter(p, stack), W)
  <1> DEFINE after == LookupAfter(p, stack)
  <1>1. ASSUME NEW q \in DOMAIN after
        PROVE  \/ q \in DOMAIN location_lookup /\ after[q] = location_lookup[q]
               \/ q = p /\ after[q] = exe'[p]
    BY <1>1 DEF LookupAfter, Put
  <1> HIDE DEF after
  <1>2. LookupRecorded(after, W)
    BY <1>1 DEF LookupRecorded
  <1> QED
    BY <1>2 DEF after

(* handle_syscall_exit gives an account of what it adds to a process, when *)
(* the call is witnessed.                                                  *)
LEMMA UnwoundAccounted ==
    ASSUME NEW p \in Pid, exe'[p] \in Image, NEW s, Good(s), NEW stack \in Stack,
           NEW nr, NEW caps \in SUBSET Capability, NEW W, Accounted(p, s, W),
           LookupRecorded(location_lookup, W),
           ~s.waiting => Witness(p, s, nr, caps, stack) \in W
    PROVE  /\ Accounted(p, Unwound(p, Charge(s, caps), nr, caps, stack), W)
           /\ LookupRecorded(IF Recorded(s, stack) THEN LookupAfter(p, stack)
                             ELSE location_lookup, W)
  <1> DEFINE u == Charge(s, caps)
             t == Unwound(p, u, nr, caps, stack)
             w == Witness(p, s, nr, caps, stack)
             after == LookupAfter(p, stack)
  <1>1. /\ u.functions = s.functions /\ u.edges = s.edges
        /\ u.waiting = s.waiting /\ u.born = s.born /\ IsState(u)
        /\ u.caps = IF s.waiting THEN s.caps ELSE s.caps \cup caps
    BY ExtendCapsGood DEF Charge, ExtendCaps, Good, IsState
  <1>2. /\ w.born = s.born /\ w.pid = p /\ w.caps = caps
        /\ Recorded(s, stack) /\ Parsed(stack) # {} =>
              /\ w.first = Innermost(stack.names, Parsed(stack))
              /\ w.image = exe'[p] /\ w.image # None
    BY WitnessIs, InputAssumption
  <1>3. ~s.waiting => w \in W
    OBVIOUS
  <1>4. Recorded(u, stack) = Recorded(s, stack) /\ (Recorded(s, stack) => ~s.waiting)
    BY <1>1 DEF Recorded
  <1>5. Accounted(p, u, W)
    <2> HIDE DEF u, w
    <2>1. Charged(u, W)
      BY <1>1, <1>2, <1>3 DEF Accounted, Charged
    <2>2. Explained(u, W)
      BY <1>1 DEF Accounted, Explained, Explains
    <2>3. Placed(p, u, W)
      BY <1>1 DEF Accounted, Placed
    <2> QED
      BY <2>1, <2>2, <2>3 DEF Accounted
  <1>6. LookupRecorded(IF Recorded(s, stack) THEN after ELSE location_lookup, W)
    <2>1. CASE Recorded(s, stack) /\ Parsed(stack) # {}
      <3> HIDE DEF w
      <3> QED
        BY <1>2, <1>3, <1>4, <2>1, LookupAfterRecorded
    <2>2. CASE ~(Recorded(s, stack) /\ Parsed(stack) # {})
      BY <2>2 DEF LookupAfter
    <2> QED
      BY <2>1, <2>2
  <1>7. CASE SeesStart(stack)
    <2>2. /\ t.caps = u.caps /\ t.functions = u.functions
          /\ t.edges = u.edges /\ t.born = u.born
      BY <1>1, <1>7 DEF Unwound, StartSeen, IsState
    <2> HIDE DEF t, u
    <2>3. Accounted(p, t, W)
      BY <1>5, <2>2 DEF Accounted, Charged, Explained, Explains, Placed
    <2> QED
      BY <1>6, <2>3 DEF t, u
  <1>8. CASE ~SeesStart(stack) /\ Recorded(u, stack) /\ Parsed(stack) # {}
    <2>1. stack.names \in Seq(Symbol) /\ Parsed(stack) \in SUBSET (DOMAIN stack.names)
      BY CallFacts DEF Parsed
    <2> DEFINE sys == IF IncludeSyscalls THEN {nr} ELSE {}
               loc == LocationIn(after, p)
    <2>2. t = RecordStack(u, stack.names, Parsed(stack), caps, sys, loc)
      BY <1>8 DEF Unwound
    <2>3. ASSUME LookupLocations, NEW n \in Symbol
          PROVE  \E v \in W : FoundIn(v, p, n, loc[n])
      <3>1. p \in DOMAIN after
        BY <1>8, <2>3 DEF LookupAfter, Put
      <3>2. loc[n] = Located(after[p], n)
        BY <3>1 DEF LocationIn
      <3>3. LookupRecorded(after, W)
        BY <1>4, <1>6, <1>8
      <3> HIDE DEF after, loc
      <3> QED
        BY <3>1, <3>2, <3>3 DEF LookupRecorded, FoundIn
    <2>4. /\ w \in W /\ w.born = u.born /\ w.caps = caps
          /\ w.first = Innermost(stack.names, Parsed(stack))
      BY <1>1, <1>2, <1>3, <1>4, <1>8
    <2> HIDE DEF t, u, w, loc, sys
    <2>5. Accounted(p, t, W)
      BY <1>1, <1>5, <2>1, <2>2, <2>3, <2>4, RecordStackAccounted
    <2> QED
      BY <1>6, <2>5 DEF t, u
  <1>9. CASE ~SeesStart(stack) /\ ~(Recorded(u, stack) /\ Parsed(stack) # {})
    <2>1. t = u
      BY <1>9 DEF Unwound
    <2> QED
      BY <1>5, <1>6, <2>1
  <1> QED
    BY <1>7, <1>8, <1>9

LEMMA NextProvenance == Inv /\ Provenance /\ [Next]_vars => Provenance'
  <1> SUFFICES ASSUME Inv, Provenance, [Next]_vars
               PROVE  Provenance'
    OBVIOUS
  <1>1. ASSUME NEW parent \in Pid, NEW child \in Pid, CloneEvent(parent, child)
        PROVE  Provenance'
    <2>1. CASE parent \in DOMAIN active
      <3> DEFINE s == NewState(<<>>, Inherited(active[parent]), active[parent].wd,
                               Waiting, spawned')
      <3>1. active' = Put(active, child, s) /\ UNCHANGED <<inactive, location_lookup, witnessed>>
        BY <1>1, <2>1 DEF CloneEvent, Spawn
      <3>2. DOMAIN s.functions = {} /\ s.caps = {}
        BY DEF NewState, Empty
      <3> HIDE DEF s
      <3>3. Accounted(child, s, witnessed)
        BY <3>2 DEF Accounted, Charged, Explained, Placed
      <3> QED
        BY <3>1, <3>3 DEF Provenance, Put
    <2>2. CASE parent \notin DOMAIN active
      BY <1>1, <2>2 DEF CloneEvent, Spawn, Provenance
    <2> QED
      BY <2>1, <2>2
  <1>2. ASSUME NEW p \in Pid, ExitedEvent(p)
        PROVE  Provenance'
    BY <1>2 DEF ExitedEvent, Exit, Restrict, mapVars, Provenance
  <1>3. ASSUME NEW p \in Pid, NEW c \in Call, NEW probe \in ProbesOf(c),
               SyscallEntry(p, c, probe)
        PROVE  Provenance'
    <2>1. CASE p \in DOMAIN active
      <3> DEFINE t == StateAtEntry(active[p], c, probe)
      <3>1. SameReport(active[p], t)
        BY <2>1, EntryKeeps, CallFacts DEF Inv, AllGood, Good
      <3>2. /\ active' = [active EXCEPT ![p] = t]
            /\ UNCHANGED <<inactive, location_lookup, witnessed>>
        BY <1>3, <2>1 DEF SyscallEntry
      <3> HIDE DEF t
      <3>3. Accounted(p, t, witnessed)
        BY <2>1, <3>1, AccountedStays DEF Provenance
      <3> QED
        BY <3>2, <3>3 DEF Provenance
    <2>2. CASE p \notin DOMAIN active
      BY <1>3, <2>2 DEF SyscallEntry, Provenance
    <2> QED
      BY <2>1, <2>2
  <1>4. ASSUME NEW p \in Pid, NEW sval \in Fd, NEW probe \in FdMeta \cup {None},
               NEW stack \in Stack, SyscallExit(p, sval, probe, stack)
        PROVE  Provenance'
    <2>1. CASE userdata[p] # None /\ p \in DOMAIN active
      <3> DEFINE c    == userdata[p]
                 left == StateAtExit(active[p], c, sval, probe)
                 caps == CapsAtExit(active[p], c, probe)
                 t    == Unwound(p, Charge(left, caps), c.nr, caps, stack)
      <3>1. HandleSyscallExit(p, sval, probe, stack) /\ inactive' = inactive
        BY <1>4, <2>1 DEF SyscallExit
      <3>2. Good(left) /\ SameReport(active[p], left)
        <4>1. c \in Call /\ c \in SyscallCall /\ (c.nr = "ioctl" => c.fd \in Fd)
          BY <2>1, InputAssumption DEF Inv, TypeOK
        <4>2. IsState(left) /\ SameReport(active[p], left)
          BY <2>1, <4>1, ExitKeeps DEF Inv, AllGood, Good
        <4> QED
          BY <2>1, <4>2, SameReportGood DEF Inv, AllGood
      <3>3. exe'[p] \in Image
        BY <1>4, ExitImage DEF Inv, SyscallExit
      <3>4. witnessed \subseteq witnessed'
        BY <3>1 DEF HandleSyscallExit
      <3>5. Accounted(p, left, witnessed') /\ LookupRecorded(location_lookup, witnessed')
        BY <2>1, <3>2, <3>4, AccountedStays, LookupRecordedStays DEF Provenance
      <3>6. /\ \A q \in DOMAIN active : Accounted(q, active[q], witnessed')
            /\ \A e \in inactive : Accounted(e[1], e[2], witnessed')
        BY <3>4, AccountedStays DEF Provenance, SameReport
      <3>7. CASE caps = {}
        <4>1. active' = [active EXCEPT ![p] = left] /\ location_lookup' = location_lookup
          BY <3>1, <3>7 DEF HandleSyscallExit
        <4> HIDE DEF left
        <4> QED
          BY <3>1, <3>5, <3>6, <4>1 DEF Provenance
      <3>8. CASE caps # {}
        <4>1. /\ active' = [active EXCEPT ![p] = t]
              /\ location_lookup' = IF Recorded(left, stack) THEN LookupAfter(p, stack)
                                    ELSE location_lookup
              /\ ~left.waiting => Witness(p, left, c.nr, caps, stack) \in witnessed'
          BY <3>1, <3>8 DEF HandleSyscallExit
        <4>2. caps \in SUBSET Capability
          BY CapsAtExitType
        <4> HIDE DEF left, caps
        <4>3. /\ Accounted(p, t, witnessed')
              /\ LookupRecorded(IF Recorded(left, stack) THEN LookupAfter(p, stack)
                                ELSE location_lookup, witnessed')
          BY <3>2, <3>3, <3>5, <4>1, <4>2, UnwoundAccounted
        <4> HIDE DEF t
        <4>4. LookupRecorded(location_lookup, witnessed)'
          BY <4>1, <4>3
        <4> QED
          BY <3>1, <3>6, <4>1, <4>3, <4>4 DEF Provenance
      <3> QED
        BY <3>7, <3>8
    <2>2. CASE ~(userdata[p] # None /\ p \in DOMAIN active)
      BY <1>4, <2>2 DEF SyscallExit, Provenance
    <2> QED
      BY <2>1, <2>2
  <1>5. CASE \E p \in Pid, stack \in Stack :
               /\ call[p] # None
               /\ \E sval \in Result(call[p]), probe \in ProbesOf(call[p]) :
                    SyscallExit(p, sval, probe, stack)
    <2>1. PICK p \in Pid, stack \in Stack :
             /\ call[p] # None
             /\ \E sval \in Result(call[p]), probe \in ProbesOf(call[p]) :
                  SyscallExit(p, sval, probe, stack)
      BY <1>5
    <2>2. PICK sval \in Result(call[p]), probe \in ProbesOf(call[p]) :
             SyscallExit(p, sval, probe, stack)
      BY <2>1
    <2>3. sval \in Fd /\ probe \in FdMeta \cup {None}
      BY <2>1, CallFacts DEF Inv, TypeOK
    <2> QED
      BY <1>4, <2>2, <2>3
  <1>6. CASE \/ \E p \in Pid : SyscallError(p)
             \/ TracerError \/ Finish \/ UNCHANGED vars
    <2>1. UNCHANGED tracerVars
      BY <1>6 DEF SyscallError, TracerError, Finish, vars
    <2> QED
      BY <2>1 DEF tracerVars, Provenance
  <1> QED
    BY <1>1, <1>2, <1>3, <1>5, <1>6 DEF Next

(* The invariant the next theorems are read off.                           *)
THEOREM ProvenanceInvariance == Spec => []Provenance
  <1>1. Init => Provenance
    <2> SUFFICES ASSUME Init PROVE Provenance
      OBVIOUS
    <2>1. /\ DOMAIN active = {InitPid} /\ active[InitPid].caps = {}
          /\ DOMAIN active[InitPid].functions = {}
          /\ inactive = {} /\ DOMAIN location_lookup = {}
      BY DEF Init, NewState, Empty
    <2> QED
      BY <2>1 DEF Provenance, Accounted, Charged, Explained, Placed, LookupRecorded
  <1> QED
    BY <1>1, NextProvenance, Invariance, PTL DEF Spec

(* A reader of the call graph can explain every claim: from each function  *)
(* a path leads to one that made a call with the capability it claims, in  *)
(* the same process.  It is Direct there and Transitive above, whatever    *)
(* frames had to be skipped and in whatever order the stacks came.         *)
THEOREM ClaimsLeadToCalls == Spec => []ClaimsTraceable
  <1>1. Provenance => ClaimsTraceable
    BY DEF Provenance, Accounted, Explained, ClaimsTraceable, States
  <1> QED
    BY <1>1, ProvenanceInvariance, PTL

(* No function is located in an image its pid was in at no recorded call:  *)
(* not in what ran only before an exec, in the parent, or under the pid    *)
(* before or after it was this process's.                                  *)
THEOREM PlacedWhereRecorded == Spec => []LocatedWhereRecorded
  <1>1. ASSUME NEW p, NEW s, Accounted(p, s, witnessed), LookupLocations
        PROVE  LocatedAt(p, s)
    <2> SUFFICES ASSUME NEW n \in DOMAIN s.functions
                 PROVE  \E image \in RecordedIn(p) :
                           s.functions[n].location = Located(image, n)
      BY DEF LocatedAt
    <2>1. PICK w \in witnessed : FoundIn(w, p, n, s.functions[n].location)
      BY <1>1 DEF Accounted, Placed
    <2>2. w.image \in RecordedIn(p)
      BY <2>1 DEF FoundIn, RecordedIn
    <2> QED
      BY <2>1, <2>2 DEF FoundIn
  <1>2. Provenance => LocatedWhereRecorded
    BY <1>1 DEF Provenance, LocatedWhereRecorded
  <1> QED
    BY <1>2, ProvenanceInvariance, PTL

-----------------------------------------------------------------------------
(***************************************************************************)
(* What the tracer remembers: nothing it charged to a process is ever      *)
(* dropped, and the report it writes covers all of it, as long as a pid    *)
(* that is given out again has left the map (PidsTellApart).               *)
(***************************************************************************)

Covered(w) ==
    \/ \E p \in DOMAIN active : active[p].born = w.born /\ w.caps \subseteq active[p].caps
    \/ \E e \in inactive : e[2].born = w.born /\ w.caps \subseteq e[2].caps

Remembered == \A w \in witnessed : Covered(w)

(* A pid in the map has been given out; the processes that are gone from   *)
(* the program are gone from `active` too, unless an event was lost.       *)
Tracked ==
    /\ DOMAIN active \subseteq used
    /\ MaxLost = 0 => \A p \in DOMAIN active : p = InitPid \/ stage[p] # "gone"

(* No two entries of the map are of the same process.                      *)
Distinct ==
    /\ \A p \in DOMAIN active : active[p].born <= spawned
    /\ \A e \in inactive : e[2].born <= spawned
    /\ \A p, q \in DOMAIN active : active[p].born = active[q].born => p = q
    /\ \A p \in DOMAIN active, e \in inactive : active[p].born # e[2].born

(* Once written the report stands: no process is left to change the map.   *)
ReportStands == report # None => Alive = {} /\ report = Report

History == Inv /\ Remembered /\ Tracked /\ Distinct /\ ReportStands

-----------------------------------------------------------------------------
LEMMA InitHistory == Init => History
  <1> SUFFICES ASSUME Init PROVE History
    OBVIOUS
  <1>1. Inv
    BY InitInv
  <1>2. /\ DOMAIN active = {InitPid} /\ inactive = {} /\ witnessed = {}
        /\ spawned = 0 /\ report = None /\ used = {InitPid}
    BY DEF Init
  <1>3. active[InitPid].born = 0
    BY DEF Init, NewState
  <1> QED
    BY <1>1, <1>2, <1>3 DEF History, Remembered, Tracked, Distinct, ReportStands

(* A process that changes but keeps its identity and its charges is still  *)
(* remembered, and still distinct.                                         *)
LEMMA UpdateKeeps ==
    ASSUME History, NEW p \in DOMAIN active, NEW t,
           active' = [active EXCEPT ![p] = t], inactive' = inactive,
           spawned' = spawned, witnessed' = witnessed,
           t.born = active[p].born, active[p].caps \subseteq t.caps
    PROVE  Remembered' /\ Distinct'
  <1>1. DOMAIN active' = DOMAIN active
    OBVIOUS
  <1>2. \A q \in DOMAIN active : active'[q].born = active[q].born
                                 /\ active[q].caps \subseteq active'[q].caps
    OBVIOUS
  <1>3. Remembered'
    BY <1>1, <1>2 DEF History, Remembered, Covered
  <1>4. Distinct'
    BY <1>1, <1>2 DEF History, Distinct
  <1> QED
    BY <1>3, <1>4

(* No event follows the report.                                            *)
LEMMA NoneAlive ==
    ASSUME History, report # None
    PROVE  /\ \A p \in Pid : stage[p] = "gone"
           /\ report = Report
  BY DEF History, ReportStands, Alive

(* A clone adds the child and changes no other entry: its pid is not that  *)
(* of a process of the map.                                                *)
LEMMA CloneAdds ==
    ASSUME PidsTellApart, History, NEW parent \in Pid, NEW child \in Pid,
           CloneEvent(parent, child)
    PROVE  /\ child \notin DOMAIN active
           /\ \A p \in DOMAIN active : p \in DOMAIN active' /\ active'[p] = active[p]
           /\ DOMAIN active' \subseteq DOMAIN active \cup {child}
           /\ child \in DOMAIN active' => /\ active'[child].born = spawned + 1
                                         /\ active'[child].caps = {}
  <1>1. stage[child] = "gone" /\ child \in (Pid \ used) \cup Reusable /\ spawned' = spawned + 1
    BY DEF CloneEvent, EnvClone
  <1>2. child \notin DOMAIN active
    <2>1. CASE Reusable = {}
      BY <1>1, <2>1 DEF History, Tracked
    <2>2. CASE MaxLost = 0 /\ InitPid \notin Reusable
      <3>1. InitPid \in used
        BY DEF History, Inv, InitNotMissing, Tracked
      <3>2. child # InitPid
        BY <1>1, <2>2, <3>1
      <3> QED
        BY <1>1, <2>2, <3>2 DEF History, Tracked
    <2> QED
      BY <2>1, <2>2 DEF PidsTellApart
  <1>3. CASE parent \in DOMAIN active
    <2> DEFINE s == NewState(<<>>, Inherited(active[parent]), active[parent].wd,
                             Waiting, spawned')
    <2>1. active' = Put(active, child, s)
      BY <1>3 DEF CloneEvent, Spawn
    <2>2. s.born = spawned + 1 /\ s.caps = {}
      BY <1>1 DEF NewState
    <2> HIDE DEF s
    <2> QED
      BY <1>2, <2>1, <2>2 DEF Put
  <1>4. CASE parent \notin DOMAIN active
    BY <1>2, <1>4 DEF CloneEvent, Spawn
  <1> QED
    BY <1>2, <1>3, <1>4

LEMMA NextHistory == PidsTellApart /\ History /\ [Next]_vars => History'
  <1> SUFFICES ASSUME PidsTellApart, History, [Next]_vars PROVE History'
    OBVIOUS
  <1>1. Inv /\ Inv' /\ TypeOK /\ InitNotMissing
    BY NextInv DEF History, Inv
  <1>2. Remembered /\ Tracked /\ Distinct /\ ReportStands
    BY DEF History
  <1>3. ASSUME NEW parent \in Pid, NEW child \in Pid, CloneEvent(parent, child)
        PROVE  History'
    <2>1. /\ stage[parent] = "kernel" /\ stage[child] = "gone"
          /\ child \in (Pid \ used) \cup Reusable
          /\ spawned' = spawned + 1 /\ used' = used \cup {child}
          /\ stage' = [stage EXCEPT ![parent] = "cloned", ![child] = "user"]
          /\ report' = report /\ inactive' = inactive /\ witnessed' = witnessed
      BY <1>3 DEF CloneEvent, EnvClone
    <2>2. child \notin DOMAIN active
      BY <1>3, CloneAdds DEF CloneEvent
    <2>3. /\ \A p \in DOMAIN active : p \in DOMAIN active' /\ active'[p] = active[p]
          /\ DOMAIN active' \subseteq DOMAIN active \cup {child}
          /\ child \in DOMAIN active' => active'[child].born = spawned + 1
      BY <1>3, <2>1, CloneAdds
    <2>4. Remembered'
      BY <1>2, <2>1, <2>3 DEF Remembered, Covered
    <2>5. Tracked'
      <3>1. DOMAIN active' \subseteq used'
        BY <1>2, <2>1, <2>3 DEF Tracked
      <3>2. ASSUME MaxLost = 0, NEW p \in DOMAIN active'
            PROVE  p = InitPid \/ stage'[p] # "gone"
        <4>1. p \in Pid /\ stage \in [Pid -> {"gone", "user", "kernel", "cloned"}]
          BY <1>1, <3>2 DEF Inv, TypeOK
        <4> QED
          BY <1>2, <2>1, <2>3, <3>2, <4>1 DEF Tracked
      <3> QED
        BY <3>1, <3>2 DEF Tracked
    <2>6. Distinct'
      <3>1. spawned \in Nat /\ (\A p \in DOMAIN active : active[p].born \in Nat)
            /\ (\A e \in inactive : e[2].born \in Nat)
        BY <1>1 DEF TypeOK, IsState
      <3> QED
        BY <1>2, <2>1, <2>2, <2>3, <3>1 DEF Distinct
    <2>7. ReportStands'
      BY <2>1, NoneAlive DEF ReportStands
    <2> QED
      BY <1>1, <2>4, <2>5, <2>6, <2>7 DEF History
  <1>4. ASSUME NEW p \in Pid, ExitedEvent(p)
        PROVE  History'
    <2>1. /\ p \in Alive /\ stage' = [stage EXCEPT ![p] = "gone"]
          /\ spawned' = spawned /\ used' = used
          /\ report' = report /\ witnessed' = witnessed
      BY <1>4 DEF ExitedEvent, EnvExited
    <2>2. ReportStands'
      BY <2>1, NoneAlive DEF ReportStands, Alive
    <2>3. CASE p # InitPid /\ p \in DOMAIN active
      <3>1. /\ active' = Restrict(active, DOMAIN active \ {p})
            /\ inactive' = inactive \cup {<<p, active[p]>>}
        BY <1>4, <2>3 DEF ExitedEvent, Exit
      <3>2. /\ DOMAIN active' = DOMAIN active \ {p}
            /\ \A q \in DOMAIN active \ {p} : active'[q] = active[q]
        BY <3>1 DEF Restrict
      <3> DEFINE moved == <<p, active[p]>>
      <3>3. moved[2] = active[p] /\ inactive' = inactive \cup {moved}
        BY <3>1
      <3> HIDE DEF moved
      <3>4. Remembered'
        <4>1. ASSUME NEW w, Covered(w) PROVE Covered(w)'
          <5>1. ASSUME NEW q \in DOMAIN active, active[q].born = w.born,
                       w.caps \subseteq active[q].caps
                PROVE  Covered(w)'
            <6>1. CASE q = p
              BY <3>3, <5>1, <6>1 DEF Covered
            <6>2. CASE q # p
              BY <3>2, <5>1, <6>2 DEF Covered
            <6> QED
              BY <6>1, <6>2
          <5>2. ASSUME NEW e \in inactive, e[2].born = w.born, w.caps \subseteq e[2].caps
                PROVE  Covered(w)'
            BY <3>3, <5>2 DEF Covered
          <5> QED
            BY <4>1, <5>1, <5>2 DEF Covered
        <4> QED
          BY <1>2, <2>1, <4>1 DEF Remembered
      <3>5. Tracked'
        <4>1. \A q \in DOMAIN active' : q \in Pid /\ q # p
          BY <1>1, <3>2 DEF TypeOK
        <4> QED
          BY <1>1, <1>2, <2>1, <3>2, <4>1 DEF Tracked, TypeOK
      <3>6. Distinct'
        BY <1>2, <2>1, <2>3, <3>3, <3>2 DEF Distinct
      <3> QED
        BY <1>1, <2>2, <3>4, <3>5, <3>6 DEF History
    <2>4. CASE ~(p # InitPid /\ p \in DOMAIN active)
      <3>1. active' = active /\ inactive' = inactive
        BY <1>4, <2>4 DEF ExitedEvent, Exit, mapVars
      <3>2. Tracked'
        BY <1>1, <1>2, <2>1, <2>4, <3>1 DEF Tracked, TypeOK
      <3>3. Remembered' /\ Distinct'
        BY <1>2, <2>1, <3>1 DEF Remembered, Covered, Distinct
      <3> QED
        BY <1>1, <2>2, <3>2, <3>3 DEF History
    <2> QED
      BY <2>3, <2>4
  <1>5. ASSUME NEW p \in Pid, NEW c \in Call, NEW probe \in ProbesOf(c),
               SyscallEntry(p, c, probe)
        PROVE  History'
    <2>1. /\ stage[p] = "user" /\ stage' = [stage EXCEPT ![p] = "kernel"]
          /\ spawned' = spawned /\ used' = used
          /\ report' = report /\ witnessed' = witnessed /\ inactive' = inactive
      BY <1>5 DEF SyscallEntry, EnvEntry
    <2>2. ReportStands'
      BY <2>1, NoneAlive DEF ReportStands
    <2>3. CASE p \in DOMAIN active
      <3> DEFINE t == StateAtEntry(active[p], c, probe)
      <3>1. SameReport(active[p], t)
        BY <1>1, <2>3, EntryKeeps, CallFacts DEF TypeOK
      <3>2. active' = [active EXCEPT ![p] = t]
        BY <1>5, <2>3 DEF SyscallEntry
      <3>3. Remembered' /\ Distinct'
        <4>1. t.born = active[p].born /\ active[p].caps \subseteq t.caps
          BY <3>1 DEF SameReport
        <4> QED
          BY <2>1, <2>3, <3>2, <4>1, UpdateKeeps
      <3>4. Tracked'
        BY <1>1, <1>2, <2>1, <3>2 DEF Tracked, TypeOK
      <3> QED
        BY <1>1, <2>2, <3>3, <3>4 DEF History
    <2>4. CASE p \notin DOMAIN active
      <3>1. active' = active
        BY <1>5, <2>4 DEF SyscallEntry
      <3> QED
        BY <1>1, <1>2, <2>1, <2>2, <3>1
           DEF History, Tracked, TypeOK, Remembered, Covered, Distinct
    <2> QED
      BY <2>3, <2>4
  <1>6. ASSUME NEW p \in Pid, NEW sval \in Fd, NEW probe \in FdMeta \cup {None},
               NEW stack \in Stack, SyscallExit(p, sval, probe, stack)
        PROVE  History'
    <2>1. /\ stage[p] # "gone" /\ stage' = [stage EXCEPT ![p] = "user"]
          /\ spawned' = spawned /\ used' = used
          /\ report' = report /\ inactive' = inactive
      BY <1>6 DEF SyscallExit, EnvReturn
    <2>2. ReportStands'
      BY <2>1, NoneAlive DEF ReportStands
    <2>3. CASE userdata[p] # None /\ p \in DOMAIN active
      <3> DEFINE c    == userdata[p]
                 left == StateAtExit(active[p], c, sval, probe)
                 caps == CapsAtExit(active[p], c, probe)
                 t    == active'[p]
      <3>1. HandleSyscallExit(p, sval, probe, stack)
        BY <1>6, <2>3 DEF SyscallExit
      <3>0. exe'[p] \in Image
        BY <1>1, <1>6, ExitImage DEF Inv, SyscallExit
      <3>2. /\ SameReport(active[p], left)
            /\ active' = [active EXCEPT ![p] = t]
            /\ t.born = active[p].born /\ active[p].caps \subseteq t.caps
            /\ ~left.waiting => caps \subseteq t.caps
        BY <1>1, <2>3, <3>0, <3>1, HandledGood
      <3>3. DOMAIN active' = DOMAIN active
        BY <3>2
      <3>4. \A q \in DOMAIN active : /\ active'[q].born = active[q].born
                                     /\ active[q].caps \subseteq active'[q].caps
        BY <3>2
      <3>5. Distinct'
        BY <1>2, <2>1, <3>3, <3>4 DEF Distinct
      <3>6. \A w \in witnessed : Covered(w)'
        BY <1>2, <2>1, <3>3, <3>4 DEF Remembered, Covered
      <3>7. \A w \in witnessed' \ witnessed : Covered(w)'
        <4>1. CASE caps = {} \/ left.waiting
          BY <3>1, <4>1 DEF HandleSyscallExit
        <4>2. CASE caps # {} /\ ~left.waiting
          <5>1. ASSUME NEW w \in witnessed' \ witnessed
                PROVE  w.born = left.born /\ w.caps = caps
            BY <3>1, <4>2, <5>1 DEF HandleSyscallExit, Witness
          <5> QED
            BY <2>3, <3>2, <3>3, <4>2, <5>1 DEF Covered, SameReport
        <4> QED
          BY <4>1, <4>2
      <3>8. Remembered'
        BY <3>6, <3>7 DEF Remembered
      <3>9. Tracked'
        BY <1>1, <1>2, <2>1, <3>3 DEF Tracked, TypeOK
      <3> QED
        BY <1>1, <2>2, <3>5, <3>8, <3>9 DEF History
    <2>4. CASE ~(userdata[p] # None /\ p \in DOMAIN active)
      <3>1. active' = active /\ witnessed' = witnessed
        BY <1>6, <2>4 DEF SyscallExit
      <3> QED
        BY <1>1, <1>2, <2>1, <2>2, <3>1
           DEF History, Tracked, TypeOK, Remembered, Covered, Distinct
    <2> QED
      BY <2>3, <2>4
  <1>7. ASSUME NEW p \in Pid, SyscallError(p)
        PROVE  History'
    <2>1. /\ stage[p] # "gone" /\ stage' = [stage EXCEPT ![p] = "user"]
          /\ spawned' = spawned /\ used' = used /\ report' = report
          /\ active' = active /\ inactive' = inactive /\ witnessed' = witnessed
      BY <1>7 DEF SyscallError, EnvReturn, tracerVars
    <2>2. ReportStands'
      BY <2>1, NoneAlive DEF ReportStands
    <2> QED
      BY <1>1, <1>2, <2>1, <2>2
         DEF History, Tracked, TypeOK, Remembered, Covered, Distinct
  <1>8. CASE TracerError
    <2>1. /\ active' = active /\ inactive' = inactive /\ witnessed' = witnessed
          /\ report' = report /\ MaxLost # 0
      BY <1>1, <1>8, BoundAssumption DEF TracerError, tracerVars, TypeOK
    <2>2. /\ spawned' \in Nat /\ spawned <= spawned' /\ spawned \in Nat
          /\ used \subseteq used'
          /\ \E p \in Pid : stage[p] # "gone"
      BY <1>1, <1>8 DEF TracerError, EnvClone, EnvExited, EnvEntry, EnvReturn, TypeOK, Alive
    <2>3. ReportStands'
      BY <2>1, <2>2, NoneAlive DEF ReportStands
    <2>4. /\ \A p \in DOMAIN active : active[p].born \in Nat
          /\ \A e \in inactive : e[2].born \in Nat
      BY <1>1 DEF TypeOK, IsState
    <2>5. Distinct'
      BY <1>2, <2>1, <2>2, <2>4 DEF Distinct
    <2> QED
      BY <1>1, <1>2, <2>1, <2>2, <2>3, <2>5 DEF History, Tracked, Remembered, Covered
  <1>9. CASE Finish
    <2>1. /\ active' = active /\ inactive' = inactive /\ witnessed' = witnessed
          /\ stage' = stage /\ spawned' = spawned /\ used' = used
          /\ Alive = {} /\ report' = Report
      BY <1>9 DEF Finish, tracerVars, envVars
    <2>2. ReportStands'
      BY <2>1 DEF ReportStands, Report, Alive
    <2> QED
      BY <1>1, <1>2, <2>1, <2>2 DEF History, Tracked, Remembered, Covered, Distinct
  <1>10. CASE UNCHANGED vars
    BY <1>1, <1>2, <1>10
       DEF vars, tracerVars, envVars, History, Tracked, Remembered, Covered, Distinct,
           ReportStands, Report, Alive
  <1>11. CASE \E p \in Pid, stack \in Stack :
                /\ call[p] # None
                /\ \E sval \in Result(call[p]), probe \in ProbesOf(call[p]) :
                     SyscallExit(p, sval, probe, stack)
    <2>1. PICK p \in Pid, stack \in Stack :
             /\ call[p] # None
             /\ \E sval \in Result(call[p]), probe \in ProbesOf(call[p]) :
                  SyscallExit(p, sval, probe, stack)
      BY <1>11
    <2>2. PICK sval \in Result(call[p]), probe \in ProbesOf(call[p]) :
             SyscallExit(p, sval, probe, stack)
      BY <2>1
    <2>3. sval \in Fd /\ probe \in FdMeta \cup {None}
      BY <1>1, <2>1, CallFacts DEF TypeOK
    <2> QED
      BY <1>6, <2>2, <2>3
  <1> QED
    BY <1>3, <1>4, <1>5, <1>7, <1>8, <1>9, <1>10, <1>11 DEF Next

(* The invariant the two theorems are read off.                            *)
THEOREM HistoryInvariance == ASSUME PidsTellApart PROVE Spec => []History
  <1>1. History /\ [Next]_vars => History'
    BY NextHistory
  <1> QED
    BY <1>1, InitHistory, PTL DEF Spec

(* Nothing is forgotten: a call the tracer saw a started process make is   *)
(* among that process's capabilities for good, through every later event,  *)
(* including the events the iterator lost.                                 *)
THEOREM NothingIsForgotten == ASSUME PidsTellApart PROVE Spec => []NothingForgotten
  <1>1. History => NothingForgotten
    BY DEF History, Remembered, Covered, NothingForgotten, StatesOf, States
  <1> QED
    BY <1>1, HistoryInvariance, PTL

(* The report is faithful.  With include_children it covers every call of  *)
(* every process the tracer charged, without it every call of the first;   *)
(* and it lays nothing at the door of a process that did not do it.        *)
THEOREM ReportIsFaithful == ASSUME PidsTellApart PROVE Spec => []ReportFaithful
  <1>1. History /\ Provenance => ReportFaithful
    <2> SUFFICES ASSUME History, Provenance, report # None
                 PROVE  ReportFaithful
      BY DEF ReportFaithful
    <2> DEFINE all == {report.process} \cup report.children
    <2>1. /\ InitPid \in DOMAIN active
          /\ report.process = IntoProcess(active[InitPid])
          /\ report.children =
                IF IncludeChildren
                THEN {IntoProcess(active[p]) : p \in DOMAIN active \ {InitPid}}
                     \cup {IntoProcess(e[2]) : e \in inactive}
                ELSE {}
      BY DEF History, Inv, InitNotMissing, ReportStands, Report
    <2>2. \A s : IntoProcess(s).born = s.born /\ IntoProcess(s).capabilities = s.caps
      BY DEF IntoProcess
    <2>3. ASSUME NEW w \in witnessed, IncludeChildren \/ w.born = report.process.born
          PROVE  \E q \in all : q.born = w.born /\ w.caps \subseteq q.capabilities
      <3>1. Covered(w)
        BY DEF History, Remembered
      <3>2. CASE IncludeChildren
        <4>1. /\ \A p \in DOMAIN active : IntoProcess(active[p]) \in all
              /\ \A e \in inactive : IntoProcess(e[2]) \in all
          BY <2>1, <3>2
        <4> HIDE DEF all
        <4> QED
          BY <2>2, <3>1, <4>1 DEF Covered
      <3>3. CASE ~IncludeChildren
        <4>1. w.born = active[InitPid].born
          BY <2>1, <2>2, <2>3, <3>3
        <4>2. w.caps \subseteq active[InitPid].caps
          BY <2>1, <3>1, <4>1 DEF Covered, History, Distinct
        <4> QED
          BY <2>1, <2>2, <4>1, <4>2
      <3> QED
        BY <3>2, <3>3
    <2>4. ASSUME NEW w \in witnessed, IncludeChildren \/ w.born = report.process.born
          PROVE  \E q \in all :
                    q.born = w.born /\ w.caps \ {"Safe"} \subseteq Serialized(q).capabilities
      BY <2>3, <2>4 DEF Serialized
    <2>5. ASSUME NEW q \in all
          PROVE  \E s \in States : Charged(s, witnessed) /\ q = IntoProcess(s)
      <3>1. /\ \A p \in DOMAIN active : Charged(active[p], witnessed)
            /\ \A e \in inactive : Charged(e[2], witnessed)
        BY DEF Provenance, Accounted
      <3>2. CASE q = report.process
        BY <2>1, <3>1, <3>2 DEF States
      <3>3. CASE q \in report.children
        BY <2>1, <3>1, <3>3 DEF States
      <3> QED
        BY <3>2, <3>3
    <2>6. ASSUME NEW q \in all, NEW c \in q.capabilities
          PROVE  \E w \in witnessed : w.born = q.born /\ c \in w.caps
      <3>1. PICK s \in States : Charged(s, witnessed) /\ q = IntoProcess(s)
        BY <2>5
      <3> QED
        BY <2>2, <2>6, <3>1 DEF Charged
    <2> QED
      BY <2>1, <2>4, <2>6 DEF ReportFaithful, InitNotMissing
  <1> QED
    BY <1>1, HistoryInvariance, ProvenanceInvariance, PTL

-----------------------------------------------------------------------------
(* What an account is: of a number of the map, all that its states were    *)
(* charged with.                                                           *)
LEMMA AccountsAre ==
    /\ Accounts = [b \in DOMAIN Accounts |-> Accounts[b]]
    /\ \A b : b \in DOMAIN Accounts <=> \E s \in States : s.born = b
    /\ \A b \in DOMAIN Accounts : \A c :
          c \in Accounts[b] <=> \E s \in States : s.born = b /\ c \in s.caps
  BY DEF Accounts, StatesOf

(* The same of the accounts after a step.                                  *)
LEMMA AccountsWillBe ==
    /\ Accounts' = [b \in DOMAIN Accounts' |-> Accounts'[b]]
    /\ \A b : b \in DOMAIN Accounts' <=> \E s \in States' : s.born = b
    /\ \A b \in DOMAIN Accounts' : \A c :
          c \in Accounts'[b] <=> \E s \in States' : s.born = b /\ c \in s.caps
  BY DEF Accounts, StatesOf

(* Nothing is opened, charged or dropped by a step that leaves the map the *)
(* same states under the same numbers.                                     *)
LEMMA SameAccounts ==
    ASSUME \A s : s \in States' <=> s \in States
    PROVE  Accounts' = Accounts
  <1>1. States' = States
    OBVIOUS
  <1> QED
    BY <1>1 DEF Accounts, StatesOf

(* A process of `active` has an account of its own.                        *)
LEMMA AccountOf ==
    ASSUME History, NEW p \in DOMAIN active, NEW s \in States, s.born = active[p].born
    PROVE  s = active[p]
  BY DEF History, Distinct, States

(* A process that changes, and loses no capability, is charged.            *)
LEMMA ChargesOne ==
    ASSUME History, NEW p \in DOMAIN active, NEW t,
           active' = [active EXCEPT ![p] = t], inactive' = inactive,
           t.born = active[p].born, active[p].caps \subseteq t.caps
    PROVE  /\ t.born \in DOMAIN Accounts
           /\ Accounts' = [Accounts EXCEPT ![t.born] = @ \cup t.caps]
  <1> DEFINE Others == {active[q] : q \in DOMAIN active \ {p}} \cup {e[2] : e \in inactive}
  <1>1. States = {active[p]} \cup Others /\ States' = {t} \cup Others
    <2>1. /\ DOMAIN active' = DOMAIN active /\ active'[p] = t
          /\ \A q \in DOMAIN active \ {p} : active'[q] = active[q]
      OBVIOUS
    <2>2. {active'[q] : q \in DOMAIN active'} = {t} \cup {active[q] : q \in DOMAIN active \ {p}}
      BY <2>1
    <2>3. {active[q] : q \in DOMAIN active} =
             {active[p]} \cup {active[q] : q \in DOMAIN active \ {p}}
      OBVIOUS
    <2> QED
      BY <2>2, <2>3 DEF States
  <1>2. \A s \in States : s.born = t.born => s = active[p]
    BY AccountOf
  <1>3. active[p] \in States /\ t \in States'
    BY <1>1
  <1>4. \A s \in States' : s.born = t.born => s = t
    <2>1. \A q \in DOMAIN active \ {p} : active[q].born # active[p].born
      BY DEF History, Distinct
    <2>2. \A e \in inactive : e[2].born # active[p].born
      BY DEF History, Distinct
    <2> QED
      BY <1>1, <2>1, <2>2
  <1>5. \A s : s.born # t.born => (s \in States' <=> s \in States)
    BY <1>1
  <1>6. \A b : b \in DOMAIN Accounts' <=> b \in DOMAIN Accounts
    BY <1>3, <1>5, AccountsAre, AccountsWillBe
  <1>7. t.born \in DOMAIN Accounts
    BY <1>3, AccountsAre
  <1>8. Accounts'[t.born] = Accounts[t.born] \cup t.caps
    <2>1. \A c : c \in Accounts[t.born] <=> c \in active[p].caps
      BY <1>2, <1>3, <1>7, AccountsAre
    <2>2. \A c : c \in Accounts'[t.born] <=> c \in t.caps
      BY <1>3, <1>4, <1>6, <1>7, AccountsWillBe
    <2> QED
      BY <2>1, <2>2
  <1>9. ASSUME NEW b \in DOMAIN Accounts, b # t.born
        PROVE  Accounts'[b] = Accounts[b]
    <2>1. \A s : s \in States' /\ s.born = b <=> s \in States /\ s.born = b
      BY <1>5, <1>9
    <2>2. StatesOf(b)' = StatesOf(b)
      BY <2>1 DEF StatesOf
    <2> QED
      BY <1>6, <2>2 DEF Accounts
  <1> QED
    BY <1>6, <1>7, <1>8, <1>9, AccountsAre, AccountsWillBe

(* A clone opens the account of the next number, empty, if its parent is   *)
(* known.                                                                  *)
LEMMA OpensOne ==
    ASSUME PidsTellApart, History, NEW parent \in Pid, NEW child \in Pid,
           CloneEvent(parent, child)
    PROVE  \/ Accounts' = Accounts
           \/ /\ spawned + 1 \notin DOMAIN Accounts
              /\ Accounts' = [k \in DOMAIN Accounts \cup {spawned + 1} |->
                                 IF k = spawned + 1 THEN {} ELSE Accounts[k]]
  <1>1. /\ \A p \in DOMAIN active : p \in DOMAIN active' /\ active'[p] = active[p]
        /\ DOMAIN active' \subseteq DOMAIN active \cup {child}
        /\ child \in DOMAIN active' => /\ active'[child].born = spawned + 1
                                      /\ active'[child].caps = {}
        /\ inactive' = inactive
    BY CloneAdds DEF CloneEvent
  <1>2. CASE child \notin DOMAIN active'
    <2>1. DOMAIN active' = DOMAIN active
      BY <1>1, <1>2
    <2> QED
      BY <1>1, <2>1, SameAccounts DEF States
  <1>3. CASE child \in DOMAIN active'
    <2> DEFINE n == spawned + 1
    <2>1. spawned \in Nat /\ (\A s \in States : s.born \in Nat)
      BY DEF History, Inv, TypeOK, IsState, States
    <2>2. \A s \in States : s.born <= spawned
      BY DEF History, Distinct, States
    <2>3. \A s \in States : s.born # n
      BY <2>1, <2>2
    <2> HIDE DEF n
    <2>4. States' = States \cup {active'[child]}
      BY <1>1, <1>3 DEF States
    <2>5. active'[child].born = n /\ active'[child].caps = {}
      BY <1>1, <1>3 DEF n
    <2>6. \A b : b \in DOMAIN Accounts' <=> b \in DOMAIN Accounts \/ b = n
      BY <2>4, <2>5, AccountsAre, AccountsWillBe
    <2>7. n \notin DOMAIN Accounts
      BY <2>3, AccountsAre
    <2>8. Accounts'[n] = {}
      <3>1. \A c : c \notin Accounts'[n]
        BY <2>3, <2>4, <2>5, <2>6, AccountsWillBe
      <3> QED
        BY <3>1
    <2>9. ASSUME NEW b \in DOMAIN Accounts
          PROVE  Accounts'[b] = Accounts[b]
      <3>1. b # n
        BY <2>7
      <3>2. StatesOf(b)' = StatesOf(b)
        BY <2>4, <2>5, <3>1 DEF StatesOf
      <3> QED
        BY <2>6, <3>2 DEF Accounts
    <2> DEFINE A == [k \in DOMAIN Accounts \cup {n} |-> IF k = n THEN {} ELSE Accounts[k]]
    <2>10. DOMAIN Accounts' = DOMAIN Accounts \cup {n}
      BY <2>6
    <2>11. \A k \in DOMAIN Accounts \cup {n} : Accounts'[k] = A[k]
      BY <2>7, <2>8, <2>9
    <2>12. Accounts' = A
      <3>1. Accounts' = [b \in DOMAIN Accounts' |-> Accounts'[b]]
        BY AccountsWillBe
      <3>2. Accounts' = [b \in DOMAIN Accounts \cup {n} |-> Accounts'[b]]
        BY <2>10, <3>1
      <3> QED
        BY <2>11, <3>2
    <2> QED
      BY <2>7, <2>12 DEF n
  <1> QED
    BY <1>2, <1>3

(* process::Map::exit moves a state and keeps its account.                 *)
LEMMA ExitKeepsAccounts ==
    ASSUME NEW p \in Pid, ExitedEvent(p)
    PROVE  Accounts' = Accounts
  <1>1. CASE p # InitPid /\ p \in DOMAIN active
    <2>1. /\ active' = Restrict(active, DOMAIN active \ {p})
          /\ inactive' = inactive \cup {<<p, active[p]>>}
      BY <1>1 DEF ExitedEvent, Exit
    <2>2. /\ DOMAIN active' = DOMAIN active \ {p}
          /\ \A q \in DOMAIN active \ {p} : active'[q] = active[q]
      BY <2>1 DEF Restrict
    <2>3. {active'[q] : q \in DOMAIN active'} = {active[q] : q \in DOMAIN active \ {p}}
      BY <2>2
    <2>4. {e[2] : e \in inactive'} = {e[2] : e \in inactive} \cup {active[p]}
      <3> DEFINE moved == <<p, active[p]>>
      <3>1. moved[2] = active[p] /\ inactive' = inactive \cup {moved}
        BY <2>1
      <3> HIDE DEF moved
      <3> QED
        BY <3>1
    <2>5. States' = States
      BY <1>1, <2>3, <2>4 DEF States
    <2> QED
      BY <2>5, SameAccounts
  <1>2. CASE ~(p # InitPid /\ p \in DOMAIN active)
    BY <1>2, SameAccounts DEF ExitedEvent, Exit, mapVars, States
  <1> QED
    BY <1>1, <1>2

-----------------------------------------------------------------------------
FirstIsInit == active[InitPid].born = 0

Books == History /\ FirstIsInit

LEMMA ReportShape ==
    ASSUME Books, NEW R, R = {Report.process} \cup Report.children
    PROVE  R = IF IncludeChildren THEN {IntoProcess(s) : s \in States}
               ELSE {IntoProcess(active[InitPid])}
  <1>1. InitPid \in DOMAIN active
    BY DEF Books, History, Inv, InitNotMissing
  <1>2. /\ Report.process = IntoProcess(active[InitPid])
        /\ Report.children =
              IF IncludeChildren
              THEN {IntoProcess(active[p]) : p \in DOMAIN active \ {InitPid}}
                   \cup {IntoProcess(e[2]) : e \in inactive}
              ELSE {}
    BY <1>1 DEF Report
  <1> QED
    BY <1>1, <1>2 DEF States

(* What is reported of a set of processes is a copy of their accounts.     *)
LEMMA FinishPublishes ==
    ASSUME Books, Finish
    PROVE  \/ Published' = Published
           \/ \E covered \in {{0}, DOMAIN Accounts} :
                 Published' = [i \in covered |-> Accounts[i]]
  <1>1. report = None /\ report' = Report
    BY DEF Finish
  <1>2. Published = None
    BY <1>1 DEF Published
  <1>3. CASE Report = None
    BY <1>1, <1>2, <1>3 DEF Published
  <1>4. CASE Report # None
    <2> DEFINE R == {Report.process} \cup Report.children
               Of(b) == {q \in R : q.born = b}
    <2>1. Published' = [b \in {q.born : q \in R} |-> UNION {q.capabilities : q \in Of(b)}]
      BY <1>1, <1>4 DEF Published
    <2>2. \A s : IntoProcess(s).born = s.born /\ IntoProcess(s).capabilities = s.caps
      BY DEF IntoProcess
    <2>3. CASE IncludeChildren
      <3>1. R = {IntoProcess(s) : s \in States}
        BY <2>3, ReportShape
      <3> HIDE DEF R
      <3>2. {q.born : q \in R} = DOMAIN Accounts
        <4>1. {q.born : q \in R} = {s.born : s \in States}
          BY <2>2, <3>1
        <4> QED
          BY <4>1 DEF Accounts
      <3>3. ASSUME NEW b \in DOMAIN Accounts
            PROVE  UNION {q.capabilities : q \in Of(b)} = Accounts[b]
        <4>1. Of(b) = {IntoProcess(s) : s \in StatesOf(b)}
          BY <2>2, <3>1 DEF StatesOf
        <4>2. {q.capabilities : q \in Of(b)} = {s.caps : s \in StatesOf(b)}
          BY <2>2, <4>1
        <4> QED
          BY <4>2 DEF Accounts
      <3>4. Published' = [i \in DOMAIN Accounts |-> Accounts[i]]
        BY <2>1, <3>2, <3>3
      <3> QED
        BY <3>4
    <2>4. CASE ~IncludeChildren
      <3> DEFINE s == active[InitPid]
      <3>1. R = {IntoProcess(s)}
        BY <2>4, ReportShape
      <3>2. InitPid \in DOMAIN active /\ s.born = 0
        BY DEF Books, FirstIsInit, History, Inv, InitNotMissing
      <3>3. s \in States
        BY <3>2 DEF States
      <3>4. 0 \in DOMAIN Accounts
        BY <3>2, <3>3, AccountsAre
      <3>5. StatesOf(0) = {s}
        <4>1. \A u \in States : u.born = 0 => u = s
          BY <3>2, AccountOf DEF Books
        <4> QED
          BY <3>2, <3>3, <4>1 DEF StatesOf
      <3>6. Accounts[0] = s.caps
        BY <3>4, <3>5 DEF Accounts
      <3> HIDE DEF R
      <3>7. {q.born : q \in R} = {0}
        BY <2>2, <3>1, <3>2
      <3>8. UNION {q.capabilities : q \in Of(0)} = s.caps
        <4>1. Of(0) = {IntoProcess(s)}
          BY <2>2, <3>1, <3>2
        <4> QED
          BY <2>2, <4>1
      <3>9. Published' = [i \in {0} |-> Accounts[i]]
        BY <2>1, <3>6, <3>7, <3>8
      <3> QED
        BY <3>9
    <2> QED
      BY <2>3, <2>4
  <1> QED
    BY <1>3, <1>4

(* An event before the report that moves at most one account is a step of  *)
(* the ledger.                                                             *)
LEMMA LedgerStep ==
    ASSUME report = None, report' = None,
           \/ Accounts' = Accounts
           \/ \E i \in 0..MaxSpawns :
                 /\ i \notin DOMAIN Accounts
                 /\ Accounts' = [k \in DOMAIN Accounts \cup {i} |->
                                    IF k = i THEN {} ELSE Accounts[k]]
           \/ \E i \in DOMAIN Accounts, caps \in SUBSET Capability :
                 Accounts' = [Accounts EXCEPT ![i] = @ \cup caps]
    PROVE  [Ledger!Next]_(Ledger!vars)
  <1>1. Published = None /\ Published' = None
    BY DEF Published
  <1>2. CASE Accounts' = Accounts
    BY <1>1, <1>2 DEF Ledger!vars
  <1>3. ASSUME NEW i \in 0..MaxSpawns, i \notin DOMAIN Accounts,
               Accounts' = [k \in DOMAIN Accounts \cup {i} |->
                              IF k = i THEN {} ELSE Accounts[k]]
        PROVE  Ledger!Next
    BY <1>1, <1>3 DEF Ledger!Next, Ledger!Open, Ledger!Known
  <1>4. ASSUME NEW i \in DOMAIN Accounts, NEW caps \in SUBSET Capability,
               Accounts' = [Accounts EXCEPT ![i] = @ \cup caps]
        PROVE  Ledger!Next
    BY <1>1, <1>4 DEF Ledger!Next, Ledger!Charge, Ledger!Known
  <1> QED
    BY <1>2, <1>3, <1>4

LEMMA InitBooks == Init => Books /\ Ledger!Init
  <1> SUFFICES ASSUME Init PROVE Books /\ Ledger!Init
    OBVIOUS
  <1> DEFINE s == NewState(<<InitImage>>, Empty, InitWd, Waiting, 0)
  <1>1. s.born = 0 /\ s.caps = {}
    BY DEF NewState
  <1>2. active = [p \in {InitPid} |-> s] /\ inactive = {} /\ report = None
    BY DEF Init
  <1> HIDE DEF s
  <1>3. Books
    BY <1>1, <1>2, InitHistory DEF Books, FirstIsInit
  <1>4. States = {s}
    BY <1>2 DEF States
  <1>5. DOMAIN Accounts = {0} /\ Accounts[0] = {}
    BY <1>1, <1>4 DEF Accounts, StatesOf
  <1>6. Accounts = [i \in {0} |-> {}]
    BY <1>5, AccountsAre
  <1>7. Published = None
    BY <1>2 DEF Published
  <1> QED
    BY <1>3, <1>6, <1>7 DEF Ledger!Init

LEMMA NextBooks ==
    ASSUME PidsTellApart, Books, [Next]_vars
    PROVE  Books' /\ [Ledger!Next]_(Ledger!vars)
  <1>1. History /\ History' /\ Inv /\ TypeOK /\ InitPid \in DOMAIN active
    BY NextHistory DEF Books, History, Inv, InitNotMissing
  <1>2. SUFFICES FirstIsInit' /\ [Ledger!Next]_(Ledger!vars)
    BY <1>1 DEF Books
  <1> DEFINE Kept == active'[InitPid].born = active[InitPid].born
  <1>3. Kept => FirstIsInit'
    BY DEF Books, FirstIsInit
  <1>4. ASSUME NEW p \in Pid, stage[p] # "gone" PROVE report = None
    BY <1>1, <1>4, NoneAlive
  <1>5. ASSUME NEW parent \in Pid, NEW child \in Pid, CloneEvent(parent, child)
        PROVE  Kept /\ [Ledger!Next]_(Ledger!vars)
    <2>1. /\ stage[parent] # "gone" /\ report' = report /\ spawned < MaxSpawns
      BY <1>5 DEF CloneEvent, EnvClone
    <2>2. spawned + 1 \in 0..MaxSpawns
      BY <1>1, <2>1, BoundAssumption DEF TypeOK
    <2>3. Kept
      BY <1>1, <1>5, CloneAdds
    <2>4. \/ Accounts' = Accounts
          \/ /\ spawned + 1 \notin DOMAIN Accounts
             /\ Accounts' = [k \in DOMAIN Accounts \cup {spawned + 1} |->
                                IF k = spawned + 1 THEN {} ELSE Accounts[k]]
      BY <1>1, <1>5, OpensOne
    <2>5. report = None /\ report' = None
      BY <1>4, <2>1
    <2> QED
      BY <2>2, <2>3, <2>4, <2>5, LedgerStep
  <1>6. ASSUME NEW p \in Pid, ExitedEvent(p)
        PROVE  Kept /\ [Ledger!Next]_(Ledger!vars)
    <2>1. stage[p] # "gone" /\ report' = report
      BY <1>6 DEF ExitedEvent, EnvExited, Alive
    <2>2. Kept
      BY <1>1, <1>6 DEF ExitedEvent, Exit, Restrict, mapVars
    <2> QED
      BY <1>4, <1>6, <2>1, <2>2, ExitKeepsAccounts, LedgerStep
  <1>7. ASSUME NEW p \in DOMAIN active, NEW t, IsState(t), stage[p] # "gone",
               active' = [active EXCEPT ![p] = t], inactive' = inactive, report' = report,
               t.born = active[p].born, active[p].caps \subseteq t.caps
        PROVE  Kept /\ [Ledger!Next]_(Ledger!vars)
    <2>1. p \in Pid
      BY <1>1, <1>7 DEF TypeOK
    <2>2. Kept
      BY <1>1, <1>7
    <2>3. /\ t.born \in DOMAIN Accounts
          /\ Accounts' = [Accounts EXCEPT ![t.born] = @ \cup t.caps]
      BY <1>1, <1>7, ChargesOne
    <2>4. t.caps \in SUBSET Capability
      BY <1>7 DEF IsState
    <2>5. report = None /\ report' = None
      BY <1>4, <1>7, <2>1
    <2> QED
      BY <2>2, <2>3, <2>4, <2>5, LedgerStep
  <1>8. ASSUME NEW p \in Pid, stage[p] # "gone", UNCHANGED <<active, inactive, report>>
        PROVE  Kept /\ [Ledger!Next]_(Ledger!vars)
    BY <1>4, <1>8, SameAccounts, LedgerStep DEF States
  <1>9. ASSUME NEW p \in Pid, NEW c \in Call, NEW probe \in ProbesOf(c),
               SyscallEntry(p, c, probe)
        PROVE  Kept /\ [Ledger!Next]_(Ledger!vars)
    <2>1. stage[p] # "gone" /\ report' = report /\ inactive' = inactive
      BY <1>9 DEF SyscallEntry, EnvEntry
    <2>2. CASE p \in DOMAIN active
      <3> DEFINE t == StateAtEntry(active[p], c, probe)
      <3>1. IsState(t) /\ SameReport(active[p], t)
        BY <1>1, <2>2, EntryKeeps, CallFacts DEF TypeOK
      <3>2. active' = [active EXCEPT ![p] = t]
        BY <1>9, <2>2 DEF SyscallEntry
      <3>3. t.born = active[p].born /\ active[p].caps \subseteq t.caps
        BY <3>1 DEF SameReport
      <3> HIDE DEF t
      <3> QED
        BY <1>7, <2>1, <2>2, <3>1, <3>2, <3>3
    <2>3. CASE p \notin DOMAIN active
      BY <1>8, <1>9, <2>1, <2>3 DEF SyscallEntry
    <2> QED
      BY <2>2, <2>3
  <1>10. ASSUME NEW p \in Pid, NEW sval \in Fd, NEW probe \in FdMeta \cup {None},
                NEW stack \in Stack, SyscallExit(p, sval, probe, stack)
         PROVE  Kept /\ [Ledger!Next]_(Ledger!vars)
    <2>1. stage[p] # "gone" /\ report' = report /\ inactive' = inactive
      BY <1>10 DEF SyscallExit, EnvReturn
    <2>2. CASE userdata[p] # None /\ p \in DOMAIN active
      <3>1. HandleSyscallExit(p, sval, probe, stack)
        BY <1>10, <2>2 DEF SyscallExit
      <3>2. exe'[p] \in Image
        BY <1>1, <1>10, ExitImage DEF SyscallExit
      <3>3. /\ active' = [active EXCEPT ![p] = active'[p]]
            /\ Good(active'[p]) /\ active'[p].born = active[p].born
            /\ active[p].caps \subseteq active'[p].caps
        BY <1>1, <2>2, <3>1, <3>2, HandledGood
      <3> DEFINE t == active'[p]
      <3>4. IsState(t)
        BY <3>3 DEF Good
      <3> QED
        BY <1>7, <2>1, <2>2, <3>3, <3>4
    <2>3. CASE ~(userdata[p] # None /\ p \in DOMAIN active)
      BY <1>8, <1>10, <2>1, <2>3 DEF SyscallExit
    <2> QED
      BY <2>2, <2>3
  <1>11. CASE \E p \in Pid, stack \in Stack :
                /\ call[p] # None
                /\ \E sval \in Result(call[p]), probe \in ProbesOf(call[p]) :
                     SyscallExit(p, sval, probe, stack)
    <2>1. PICK p \in Pid, stack \in Stack :
             /\ call[p] # None
             /\ \E sval \in Result(call[p]), probe \in ProbesOf(call[p]) :
                  SyscallExit(p, sval, probe, stack)
      BY <1>11
    <2>2. PICK sval \in Result(call[p]), probe \in ProbesOf(call[p]) :
             SyscallExit(p, sval, probe, stack)
      BY <2>1
    <2>3. sval \in Fd /\ probe \in FdMeta \cup {None}
      BY <1>1, <2>1, CallFacts DEF TypeOK
    <2> QED
      BY <1>3, <1>10, <2>2, <2>3
  <1>12. CASE (\E p \in Pid : SyscallError(p)) \/ TracerError
    <2>1. UNCHANGED <<active, inactive, report>>
      BY <1>12 DEF SyscallError, TracerError, tracerVars
    <2>2. PICK p \in Pid : stage[p] # "gone"
      BY <1>12 DEF SyscallError, TracerError, EnvClone, EnvExited, EnvEntry, EnvReturn, Alive
    <2> QED
      BY <1>3, <1>8, <2>1, <2>2
  <1>13. CASE Finish
    <2>1. UNCHANGED <<active, inactive>> /\ report = None
      BY <1>13 DEF Finish, tracerVars
    <2>2. Accounts' = Accounts /\ Kept
      BY <2>1, SameAccounts DEF States
    <2>3. Published = None
      BY <2>1 DEF Published
    <2>4. CASE Published' = Published
      BY <1>3, <2>2, <2>4 DEF Ledger!vars
    <2>5. CASE \E covered \in {{0}, DOMAIN Accounts} :
                 Published' = [i \in covered |-> Accounts[i]]
      <3>1. Ledger!Next
        BY <2>2, <2>3, <2>5 DEF Ledger!Next, Ledger!Publish, Ledger!Known
      <3> QED
        BY <1>3, <2>2, <3>1
    <2> QED
      BY <1>13, <2>4, <2>5, FinishPublishes
  <1>14. CASE UNCHANGED vars
    <2>1. UNCHANGED <<active, inactive, report>>
      BY <1>14 DEF vars, tracerVars
    <2>2. Accounts' = Accounts /\ Kept
      BY <2>1, SameAccounts DEF States
    <2>3. Published' = Published
      BY <2>1 DEF Published
    <2> QED
      BY <1>3, <2>2, <2>3 DEF Ledger!vars
  <1> QED
    BY <1>3, <1>5, <1>6, <1>9, <1>11, <1>12, <1>13, <1>14 DEF Next

(* The tracer implements the ledger: whatever the events and the pids, it  *)
(* opens each process's account once and empty, adds to one at a time, and *)
(* reports a copy of the first's or of all when nothing can change.        *)
THEOREM RuntimeIsALedger == ASSUME PidsTellApart PROVE Spec => ImplementsLedger
  <1>1. Books /\ [Next]_vars => Books' /\ [Ledger!Next]_(Ledger!vars)
    BY NextBooks
  <1> QED
    BY <1>1, InitBooks, PTL DEF Spec, ImplementsLedger, Ledger!Spec

-----------------------------------------------------------------------------
(***************************************************************************)
(* What the tracer believes of a descriptor is true of it, for any number  *)
(* of processes and descriptors and any calls but pipe and pipe2, whose    *)
(* two ends no entry is made for (NoPipes; the PipeDescriptor run).        *)
(***************************************************************************)

(* An entry is true of a table, or was left by an exec of the process p.   *)
TrueOf(entry, table, fd, p, left) ==
    \/ /\ fd \in DOMAIN table
       /\ Describes(entry.ty, table[fd].kind)
       /\ entry.cloexec = table[fd].cloexec
    \/ p \in left /\ entry.cloexec

AllTrue(fds, table, p, left) == \A fd \in DOMAIN fds : TrueOf(fds[fd], table, fd, p, left)

FilesOK ==
    /\ DOMAIN files = Pid /\ files = [p \in Pid |-> files[p]]
    /\ \A p \in Pid : IsMap(files[p], Fd, File)

(* No event is lost here, so the map has every process that runs.          *)
Followed == Alive \subseteq DOMAIN active

(* The library holds the Meta of the call a process is in, if there is one;*)
(* there always is of a call that closes or only looks at a descriptor.    *)
MetaHeld ==
    \A p \in Pid : call[p] # None =>
        /\ userdata[p] \in {None, call[p]}
        /\ call[p].nr \in {"close", "close_range", "ioctl"} => userdata[p] = call[p]

TracedInv ==
    /\ Inv /\ FilesOK
    /\ Followed /\ MetaHeld /\ FdTableSound

-----------------------------------------------------------------------------
LEMMA LowestFree ==
    ASSUME NEW fds, Free(fds) # {}
    PROVE  Lowest(Free(fds)) \in Fd \ DOMAIN fds
  <1>1. Free(fds) \in SUBSET Nat
    BY InputAssumption DEF Free
  <1>2. \E x \in Free(fds) : \A y \in Free(fds) : x <= y
    BY <1>1, LeastNat
  <1>3. Lowest(Free(fds)) \in Free(fds)
    BY <1>2 DEF Lowest
  <1> QED
    BY <1>3 DEF Free

-----------------------------------------------------------------------------
(* What the kernel does to a table, call by call.                          *)
LEMMA CreateOutcome ==
    ASSUME NoPipes, NEW c \in Call, Typed(c.nr) = "FdCreate", NEW fds,
           NEW out \in Outcomes(fds, c)
    PROVE  /\ out.sval \in Fd \ DOMAIN fds
           /\ \E k \in OpenKinds(c) :
                 out.files = Put(fds, out.sval, [kind |-> k, cloexec |-> c.cloexec])
  <1>1. c.nr \notin {"pipe", "pipe2"}
    BY DEF NoPipes
  <1>2. out \in CreateOutcomes(fds, c)
    BY <1>1 DEF Outcomes, Typed
  <1>3. /\ Free(fds) # {}
        /\ \E k \in OpenKinds(c) :
              out = InFirstFree(fds, [kind |-> k, cloexec |-> c.cloexec])
    BY <1>2 DEF CreateOutcomes
  <1> QED
    BY <1>3, LowestFree DEF InFirstFree

LEMMA DupOutcome ==
    ASSUME NEW c \in Call, c.nr = "dup", NEW fds, NEW out \in Outcomes(fds, c)
    PROVE  /\ out.sval \in Fd \ DOMAIN fds /\ c.fd \in DOMAIN fds
           /\ out.files = Put(fds, out.sval, [fds[c.fd] EXCEPT !.cloexec = FALSE])
  <1>1. out \in DupOutcomes(fds, c)
    BY DEF Outcomes, Typed
  <1>2. /\ Free(fds) # {} /\ c.fd \in DOMAIN fds
        /\ out = InFirstFree(fds, [fds[c.fd] EXCEPT !.cloexec = FALSE])
    BY <1>1 DEF DupOutcomes
  <1> QED
    BY <1>2, LowestFree DEF InFirstFree

(* The other calls keep of a table what they do not close.                 *)
Kept(fds, c) ==
    CASE c.nr = "close" -> DOMAIN fds \ {c.fd}
      [] c.nr = "close_range" -> DOMAIN fds \ c.fd..c.last
      [] Typed(c.nr) = "Exec" -> {fd \in DOMAIN fds : ~fds[fd].cloexec}
      [] OTHER -> DOMAIN fds

LEMMA OtherOutcomes ==
    ASSUME NEW c \in Call, NEW fds, NEW out \in Outcomes(fds, c),
           Typed(c.nr) # "FdCreate", c.nr # "dup"
    PROVE  /\ out.sval = 0 /\ out.files = Restrict(fds, Kept(fds, c))
           /\ c.nr = "ioctl" => c.fd \in DOMAIN fds
  <1>1. c.nr \notin {"pipe", "pipe2"}
    BY DEF Typed
  <1>2. out \in Leaves(fds, Kept(fds, c)) /\ (c.nr = "ioctl" => c.fd \in DOMAIN fds)
    BY <1>1 DEF Outcomes, Kept, Typed
  <1> QED
    BY <1>2 DEF Leaves

LEMMA TableStays ==
    ASSUME NoPipes, NEW c \in Call, NEW table, IsMap(table, Fd, File),
           NEW out \in Outcomes(table, c)
    PROVE  IsMap(out.files, Fd, File) /\ out.sval \in Fd
  <1>1. c \in SyscallCall /\ 0 \in Fd
    BY InputAssumption
  <1>2. CASE Typed(c.nr) = "FdCreate"
    <2>1. OpenKinds(c) \subseteq Kind /\ c.cloexec \in BOOLEAN
      BY <1>1 DEF OpenKinds, Kind, SyscallCall
    <2>2. PICK k \in OpenKinds(c) :
             out.files = Put(table, out.sval, [kind |-> k, cloexec |-> c.cloexec])
      BY <1>2, CreateOutcome
    <2>3. [kind |-> k, cloexec |-> c.cloexec] \in File
      BY <2>1 DEF File
    <2> QED
      BY <1>2, <2>2, <2>3, CreateOutcome, PutMap
  <1>3. CASE c.nr = "dup"
    <2>1. c.fd \in DOMAIN table
      BY <1>3, DupOutcome
    <2>2. [table[c.fd] EXCEPT !.cloexec = FALSE] \in File
      BY <2>1 DEF File, IsMap
    <2> QED
      BY <1>3, <2>2, DupOutcome, PutMap
  <1>4. CASE Typed(c.nr) # "FdCreate" /\ c.nr # "dup"
    <2>1. out.sval = 0 /\ out.files = Restrict(table, Kept(table, c))
      BY <1>4, OtherOutcomes
    <2>2. Kept(table, c) \subseteq DOMAIN table
      BY DEF Kept
    <2> QED
      BY <1>1, <2>1, <2>2, RestrictMap
  <1> QED
    BY <1>2, <1>3, <1>4

-----------------------------------------------------------------------------
(* infer_fd adds what /proc says, which is true.                           *)
LEMMA ProcfsTells ==
    ASSUME NEW table, IsMap(table, Fd, File), NEW fd,
           NEW probe \in FromProcfs(table, fd), probe # None
    PROVE  /\ fd \in DOMAIN table /\ probe \in FdMeta
           /\ probe.ty \in TypesFromLink(table[fd].kind)
           /\ probe.cloexec = table[fd].cloexec
           /\ Describes(probe.ty, table[fd].kind)
  <1>1. /\ fd \in DOMAIN table
        /\ \E ty \in TypesFromLink(table[fd].kind) :
              probe = [ty |-> ty, cloexec |-> table[fd].cloexec]
    BY DEF FromProcfs
  <1>2. table[fd] \in File
    BY <1>1 DEF IsMap
  <1>3. TypesFromLink(table[fd].kind) \subseteq FdType
    BY DEF TypesFromLink, FdType
  <1>4. ASSUME NEW ty \in TypesFromLink(table[fd].kind)
        PROVE  Describes(ty, table[fd].kind)
    BY <1>2 DEF File, Kind, Describes, TypesFromLink
  <1> QED
    BY <1>1, <1>2, <1>3, <1>4 DEF File, FdMeta

LEMMA ProbeType ==
    ASSUME NEW table, IsMap(table, Fd, File), NEW fd, NEW probe \in FromProcfs(table, fd)
    PROVE  probe \in FdMeta \cup {None}
  BY ProcfsTells

LEMMA InferTrue ==
    ASSUME NEW s, IsState(s), NEW table, IsMap(table, Fd, File), NEW fd \in Fd,
           NEW probe \in FromProcfs(table, fd), NEW p, NEW left,
           AllTrue(s.fds, table, p, left)
    PROVE  AllTrue(InferFd(s, fd, probe).fds, table, p, left)
  <1>1. CASE fd \in DOMAIN s.fds \/ probe = None
    BY <1>1 DEF InferFd
  <1>2. CASE fd \notin DOMAIN s.fds /\ probe # None
    <2>1. InferFd(s, fd, probe).fds = Put(s.fds, fd, probe)
      BY <1>2 DEF InferFd, InsertFd, IsState
    <2>2. TrueOf(probe, table, fd, p, left)
      BY <1>2, ProcfsTells DEF TrueOf
    <2> QED
      BY <2>1, <2>2 DEF AllTrue, Put
  <1> QED
    BY <1>1, <1>2

(* A call no entry is made for: it adds a descriptor, or it is an exec,    *)
(* which leaves the entries it made false in `left`.                       *)
LEMMA UnrecordedTrue ==
    ASSUME NoPipes, NEW c \in Call, c.nr \notin {"close", "close_range"},
           NEW fds, NEW table, NEW out \in Outcomes(table, c), NEW p, NEW left, NEW after,
           AllTrue(fds, table, p, left), left \subseteq after,
           Typed(c.nr) = "Exec" => p \in after
    PROVE  AllTrue(fds, out.files, p, after)
  <1> SUFFICES ASSUME NEW fd \in DOMAIN fds
               PROVE  TrueOf(fds[fd], out.files, fd, p, after)
    BY DEF AllTrue
  <1>1. TrueOf(fds[fd], table, fd, p, left)
    BY DEF AllTrue
  <1>2. CASE \E x, f : x \notin DOMAIN table /\ out.files = Put(table, x, f)
    BY <1>1, <1>2 DEF TrueOf, Put
  <1>3. CASE Typed(c.nr) = "Exec"
    <2>1. out.files = Restrict(table, {x \in DOMAIN table : ~table[x].cloexec})
      <3>1. c.nr # "dup" /\ Typed(c.nr) # "FdCreate"
        BY <1>3 DEF Typed
      <3>2. Kept(table, c) = {x \in DOMAIN table : ~table[x].cloexec}
        BY <1>3 DEF Kept, Typed
      <3> QED
        BY <3>1, <3>2, OtherOutcomes
    <2>2. CASE fds[fd].cloexec
      BY <1>3, <2>2 DEF TrueOf
    <2>3. CASE ~fds[fd].cloexec
      BY <1>1, <2>1, <2>3 DEF TrueOf, Restrict
    <2> QED
      BY <2>2, <2>3
  <1>4. CASE Typed(c.nr) \notin {"Exec", "FdCreate"} /\ c.nr # "dup"
    <2>1. out.files = Restrict(table, DOMAIN table)
      <3>1. Kept(table, c) = DOMAIN table
        BY <1>4 DEF Kept
      <3> QED
        BY <1>4, <3>1, OtherOutcomes
    <2> QED
      BY <1>1, <2>1 DEF TrueOf, Restrict
  <1>5. CASE Typed(c.nr) = "FdCreate" \/ c.nr = "dup"
    <2>1. out.sval \notin DOMAIN table /\ \E f : out.files = Put(table, out.sval, f)
      <3>1. CASE Typed(c.nr) = "FdCreate"
        <4>1. PICK k \in OpenKinds(c) :
                 out.files = Put(table, out.sval, [kind |-> k, cloexec |-> c.cloexec])
          BY <3>1, CreateOutcome
        <4>2. out.sval \notin DOMAIN table
          BY <3>1, CreateOutcome
        <4> QED
          BY <4>1, <4>2
      <3>2. CASE c.nr = "dup"
        BY <3>2, DupOutcome
      <3> QED
        BY <1>5, <3>1, <3>2
    <2> QED
      BY <1>2, <2>1
  <1> QED
    BY <1>3, <1>4, <1>5

(* A call whose Meta the handler has: what into_capabilities makes of the  *)
(* entries is true of the table the call leaves.                           *)
LEMMA RecordedTrue ==
    ASSUME NoPipes, NEW c \in Call, NEW s, IsState(s), NEW table, IsMap(table, Fd, File),
           NEW out \in Outcomes(table, c), NEW probe \in FromProcfs(out.files, c.fd),
           NEW p, NEW left, NEW after,
           AllTrue(s.fds, table, p, left), left \subseteq after,
           Typed(c.nr) = "Exec" => p \in after
    PROVE  AllTrue(StateAtExit(s, c, out.sval, probe).fds, out.files, p, after)
  <1> DEFINE t == StateAtExit(s, c, out.sval, probe)
  <1>1. IsMap(out.files, Fd, File)
    BY TableStays
  <1>2. CASE Typed(c.nr) \in {"Chdir", "Exec", "Untyped"}
    <2>1. t.fds = s.fds
      BY <1>2 DEF StateAtExit, SetWorkingDirectory, AddExec, IsState
    <2>2. c.nr \notin {"close", "close_range"}
      BY <1>2 DEF Typed
    <2> QED
      BY <2>1, <2>2, UnrecordedTrue
  <1>3. CASE Typed(c.nr) = "FdCreate"
    <2>1. t.fds = Put(s.fds, out.sval, Created(c))
      BY <1>3 DEF StateAtExit, InsertCreated, InsertFd, IsState
    <2>2. AllTrue(s.fds, out.files, p, after)
      <3>1. c.nr \notin {"close", "close_range"}
        BY <1>3 DEF Typed
      <3> QED
        BY <3>1, UnrecordedTrue
    <2>3. TrueOf(Created(c), out.files, out.sval, p, after)
      <3>1. PICK k \in OpenKinds(c) :
               out.files = Put(table, out.sval, [kind |-> k, cloexec |-> c.cloexec])
        BY <1>3, CreateOutcome
      <3>2. /\ out.sval \in DOMAIN out.files
            /\ out.files[out.sval] = [kind |-> k, cloexec |-> c.cloexec]
        BY <3>1 DEF Put
      <3>3. c.nr \in {"open", "openat", "openat2", "socket"} /\ c \in SyscallCall
        BY <1>3, InputAssumption DEF Typed, NoPipes
      <3>4. Created(c).cloexec = c.cloexec
        BY <3>3 DEF Created, SyscallCall
      <3>5. Describes(CreatedType(c), k)
        BY <3>3 DEF CreatedType, OpenKinds, Describes
      <3>6. Describes(Created(c).ty, k)
        BY <3>5 DEF Created
      <3> QED
        BY <3>2, <3>4, <3>6 DEF TrueOf
    <2> QED
      BY <2>1, <2>2, <2>3 DEF AllTrue, Put
  <1>4. CASE Typed(c.nr) \in {"Close", "CloseRange"}
    <2>1. /\ out.files = Restrict(table, Kept(table, c))
          /\ c.nr \in {"close", "close_range"}
      BY <1>4, OtherOutcomes DEF Typed
    <2>2. \E D : /\ t.fds = Restrict(s.fds, DOMAIN s.fds \ D)
                 /\ out.files = Restrict(table, DOMAIN table \ D)
      <3>1. CASE c.nr = "close"
        <4>1. t.fds = Restrict(s.fds, DOMAIN s.fds \ {c.fd})
          BY <3>1 DEF StateAtExit, Close, IsState, Typed
        <4>2. Kept(table, c) = DOMAIN table \ {c.fd}
          BY <3>1 DEF Kept, Typed
        <4> QED
          BY <2>1, <4>1, <4>2
      <3>2. CASE c.nr = "close_range"
        <4>1. t.fds = Restrict(s.fds, DOMAIN s.fds \ c.fd..c.last)
          BY <3>2 DEF StateAtExit, CloseRange, IsState, Typed
        <4>2. Kept(table, c) = DOMAIN table \ c.fd..c.last
          BY <3>2 DEF Kept, Typed
        <4> QED
          BY <2>1, <4>1, <4>2
      <3> QED
        BY <2>1, <3>1, <3>2
    <2> QED
      BY <2>2 DEF AllTrue, TrueOf, Restrict
  <1>5. CASE Typed(c.nr) = "Ioctl"
    <2>1. c.nr = "ioctl" /\ c.fd \in Fd
      BY <1>5, InputAssumption DEF Typed
    <2>2. t = InferFd(s, c.fd, probe)
      BY <1>5 DEF StateAtExit
    <2>3. AllTrue(s.fds, out.files, p, after)
      BY <2>1, UnrecordedTrue
    <2> QED
      BY <1>1, <2>1, <2>2, <2>3, InferTrue
  <1> QED
    BY <1>2, <1>3, <1>4, <1>5 DEF Typed

(* What handle_syscall_exit does after into_capabilities moves no entry.   *)
LEMMA UnwoundFds ==
    ASSUME NEW p, NEW s, IsState(s), NEW nr, NEW caps, NEW stack
    PROVE  Unwound(p, Charge(s, caps), nr, caps, stack).fds = s.fds
  <1> DEFINE u == Charge(s, caps)
  <1>1. /\ u.fds = s.fds
        /\ DOMAIN u = {"execs", "fds", "waiting", "wd", "edges", "caps", "functions", "born"}
    BY DEF Charge, ExtendCaps, IsState
  <1>2. StartSeen(u).fds = u.fds
    BY <1>1 DEF StartSeen
  <1>3. \A frames, kept, syscalls, location :
           RecordStack(u, frames, kept, caps, syscalls, location).fds = u.fds
    BY <1>1 DEF RecordStack
  <1> HIDE DEF u
  <1>4. Unwound(p, u, nr, caps, stack).fds = u.fds
    BY <1>2, <1>3 DEF Unwound
  <1> QED
    BY <1>1, <1>4 DEF u

LEMMA HandledFds ==
    ASSUME Inv, NEW p \in DOMAIN active, NEW sval \in Fd,
           NEW probe \in FdMeta \cup {None}, NEW stack \in Stack,
           userdata[p] # None, HandleSyscallExit(p, sval, probe, stack)
    PROVE  /\ IsState(StateAtExit(active[p], userdata[p], sval, probe))
           /\ active'[p].fds = StateAtExit(active[p], userdata[p], sval, probe).fds
  <1> DEFINE c    == userdata[p]
             left == StateAtExit(active[p], c, sval, probe)
             caps == CapsAtExit(active[p], c, probe)
             t    == Unwound(p, Charge(left, caps), c.nr, caps, stack)
  <1>1. c \in Call /\ c \in SyscallCall /\ (c.nr = "ioctl" => c.fd \in Fd)
    BY InputAssumption DEF Inv, TypeOK
  <1>2. IsState(left)
    BY <1>1, ExitKeeps DEF Inv, TypeOK
  <1>3. active' = [active EXCEPT ![p] = left] \/ active' = [active EXCEPT ![p] = t]
    BY DEF HandleSyscallExit
  <1>4. t.fds = left.fds
    BY <1>2, UnwoundFds
  <1> HIDE DEF t, left
  <1>5. active'[p].fds = left.fds
    BY <1>3, <1>4
  <1> QED
    BY <1>2, <1>5 DEF left

-----------------------------------------------------------------------------
LEMMA SoundIs ==
    FdTableSound <=>
        \A p \in Alive \cap DOMAIN active : AllTrue(active[p].fds, files[p], p, execed)
  BY DEF FdTableSound, AllTrue, TrueOf, LeftByExec

LEMMA SoundWillBe ==
    FdTableSound' <=>
        \A p \in Alive' \cap DOMAIN active' : AllTrue(active'[p].fds, files'[p], p, execed')
  BY DEF FdTableSound, AllTrue, TrueOf, LeftByExec

(* A step that touches the state, the table and the image of one process.  *)
LEMMA OneChanges ==
    ASSUME TracedInv, NEW p \in Pid,
           \A q \in DOMAIN active' \ {p} : q \in DOMAIN active /\ active'[q] = active[q],
           \A q \in Pid \ {p} : files'[q] = files[q] /\ (q \in Alive' => q \in Alive),
           execed \ {p} \subseteq execed',
           p \in Alive' \cap DOMAIN active' => AllTrue(active'[p].fds, files'[p], p, execed')
    PROVE  FdTableSound'
  <1> SUFFICES ASSUME NEW q \in Alive' \cap DOMAIN active', q # p
               PROVE  AllTrue(active'[q].fds, files'[q], q, execed')
    BY SoundWillBe
  <1>1. q \in Pid /\ q \in Alive \cap DOMAIN active /\ active'[q] = active[q] /\ files'[q] = files[q]
    BY DEF Alive
  <1>2. AllTrue(active[q].fds, files[q], q, execed)
    BY <1>1, SoundIs DEF TracedInv
  <1> QED
    BY <1>1, <1>2 DEF AllTrue, TrueOf

LEMMA ForkInv ==
    ASSUME TracedInv, NEW parent \in Pid, NEW child \in Pid, Fork(parent, child)
    PROVE  FilesOK' /\ Followed' /\ MetaHeld' /\ FdTableSound'
  <1>1. /\ stage[parent] = "kernel" /\ stage[child] = "gone" /\ parent # child
        /\ stage' = [stage EXCEPT ![parent] = "cloned", ![child] = "user"]
        /\ UNCHANGED <<call, userdata, execed>>
        /\ files' = [files EXCEPT ![child] = files[parent]]
    BY DEF Fork, CloneEvent, EnvClone
  <1>2. parent \in Alive /\ parent \in DOMAIN active /\ Inv
    BY <1>1 DEF TracedInv, Followed, Alive
  <1> DEFINE s == NewState(<<>>, Inherited(active[parent]), active[parent].wd, Waiting, spawned')
  <1>3. active' = Put(active, child, s)
    BY <1>2 DEF Fork, CloneEvent, Spawn
  <1>4. s.fds = Inherited(active[parent])
    BY DEF NewState
  <1> HIDE DEF s
  <1>5. FilesOK'
    BY <1>1 DEF TracedInv, FilesOK
  <1>6. stage \in [Pid -> {"gone", "user", "kernel", "cloned"}]
    BY <1>2 DEF Inv, TypeOK
  <1>7. \A q \in Pid \ {child} : q \in Alive' => q \in Alive
    BY <1>1, <1>6 DEF Alive
  <1>8. Followed'
    BY <1>3, <1>7 DEF TracedInv, Followed, Alive, Put
  <1>9. MetaHeld'
    BY <1>1 DEF TracedInv, MetaHeld
  <1>10. AllTrue(Inherited(active[parent]), files[parent], child, execed')
    <2>1. AllTrue(active[parent].fds, files[parent], parent, execed)
      BY <1>2, SoundIs DEF TracedInv
    <2> QED
      BY <2>1 DEF AllTrue, TrueOf, Inherited, Restrict
  <1>11. active'[child] = s /\ \A q \in DOMAIN active' \ {child} : q \in DOMAIN active /\ active'[q] = active[q]
    BY <1>3 DEF Put
  <1>12. files'[child] = files[parent] /\ \A q \in Pid \ {child} : files'[q] = files[q]
    BY <1>1 DEF TracedInv, FilesOK
  <1>13. AllTrue(active'[child].fds, files'[child], child, execed')
    BY <1>4, <1>10, <1>11, <1>12
  <1>14. FdTableSound'
    BY <1>1, <1>7, <1>11, <1>12, <1>13, OneChanges
  <1> QED
    BY <1>5, <1>8, <1>9, <1>14

LEMMA GoneInv ==
    ASSUME TracedInv, NEW p \in Pid, Gone(p)
    PROVE  FilesOK' /\ Followed' /\ MetaHeld' /\ FdTableSound'
  <1>1. /\ stage' = [stage EXCEPT ![p] = "gone"]
        /\ call' = [call EXCEPT ![p] = None]
        /\ userdata' = [userdata EXCEPT ![p] = None]
        /\ files' = [files EXCEPT ![p] = Empty]
        /\ execed' = execed \ {p}
    BY DEF Gone, ExitedEvent, EnvExited
  <1>2. /\ DOMAIN active \ {p} \subseteq DOMAIN active' /\ DOMAIN active' \subseteq DOMAIN active
        /\ \A q \in DOMAIN active' : active'[q] = active[q]
    BY DEF Gone, ExitedEvent, Exit, Restrict, mapVars
  <1>3. /\ stage \in [Pid -> {"gone", "user", "kernel", "cloned"}]
        /\ call \in [Pid -> Call \cup {None}] /\ userdata \in [Pid -> Call \cup {None}]
    BY DEF TracedInv, Inv, TypeOK
  <1>4. p \notin Alive' /\ \A q \in Pid \ {p} : q \in Alive' => q \in Alive
    BY <1>1, <1>3 DEF Alive
  <1>5. FilesOK'
    <2>1. IsMap(Empty, Fd, File)
      BY EmptyMap
    <2> QED
      BY <1>1, <2>1 DEF TracedInv, FilesOK
  <1>6. Followed'
    BY <1>2, <1>4 DEF TracedInv, Followed, Alive
  <1>7. MetaHeld'
    BY <1>1, <1>3 DEF TracedInv, MetaHeld
  <1>8. \A q \in Pid \ {p} : files'[q] = files[q]
    BY <1>1 DEF TracedInv, FilesOK
  <1>9. FdTableSound'
    BY <1>1, <1>2, <1>4, <1>8, OneChanges
  <1> QED
    BY <1>5, <1>6, <1>7, <1>9

LEMMA EnterInv ==
    ASSUME TracedInv, NEW p \in Pid, NEW c \in Call, NEW probe \in FromProcfs(files[p], c.fd),
           SyscallEntry(p, c, probe), UNCHANGED <<files, execed>>
    PROVE  FilesOK' /\ Followed' /\ MetaHeld' /\ FdTableSound'
  <1>1. stage[p] = "user" /\ stage' = [stage EXCEPT ![p] = "kernel"]
    BY DEF SyscallEntry, EnvEntry
  <1>2. p \in DOMAIN active /\ Inv
    BY <1>1 DEF TracedInv, Followed, Alive
  <1> DEFINE t == StateAtEntry(active[p], c, probe)
             held == IF EntryOk(active[p], c, probe) THEN c ELSE None
  <1>3. /\ call' = [call EXCEPT ![p] = c]
        /\ userdata' = [userdata EXCEPT ![p] = held]
        /\ active' = [active EXCEPT ![p] = t]
    BY <1>2 DEF SyscallEntry, EnvEntry
  <1>4. held \in {None, c} /\ (c.nr \in {"close", "close_range", "ioctl"} => held = c)
    BY DEF EntryOk, ArgumentsMayFail, NeedsDirectory
  <1>5. IsState(active[p]) /\ IsMap(files[p], Fd, File) /\ AllTrue(active[p].fds, files[p], p, execed)
    BY <1>1, <1>2, SoundIs DEF TracedInv, FilesOK, Inv, TypeOK, Alive
  <1>6. AllTrue(t.fds, files[p], p, execed)
    <2>1. CASE NeedsDirectory(c)
      <3>1. c.fd \in Fd /\ t = InferFd(active[p], c.fd, probe)
        BY <2>1, InputAssumption DEF NeedsDirectory, StateAtEntry, SyscallCall
      <3> QED
        BY <1>5, <3>1, InferTrue
    <2>2. CASE ~NeedsDirectory(c)
      BY <1>5, <2>2 DEF StateAtEntry
    <2> QED
      BY <2>1, <2>2
  <1> HIDE DEF t, held
  <1>7. /\ stage \in [Pid -> {"gone", "user", "kernel", "cloned"}]
        /\ call \in [Pid -> Call \cup {None}] /\ userdata \in [Pid -> Call \cup {None}]
    BY <1>2 DEF Inv, TypeOK
  <1>8. Alive' = Alive
    BY <1>1, <1>7 DEF Alive
  <1>9. FilesOK' /\ Followed'
    BY <1>3, <1>8 DEF TracedInv, FilesOK, Followed
  <1>10. MetaHeld'
    BY <1>3, <1>4, <1>7 DEF TracedInv, MetaHeld
  <1>11. /\ active'[p] = t
         /\ \A q \in DOMAIN active' \ {p} : q \in DOMAIN active /\ active'[q] = active[q]
    BY <1>2, <1>3
  <1>12. FdTableSound'
    BY <1>6, <1>8, <1>11, OneChanges
  <1> QED
    BY <1>9, <1>10, <1>12

LEMMA SucceedInv ==
    ASSUME NoPipes, TracedInv, NEW p \in Pid, NEW stack \in Stack, Succeed(p, stack)
    PROVE  FilesOK' /\ Followed' /\ MetaHeld' /\ FdTableSound'
  <1> DEFINE c == call[p]
  <1>1. PICK out \in Outcomes(files[p], c) :
           /\ files' = [files EXCEPT ![p] = out.files]
           /\ \E probe \in FromProcfs(out.files, c.fd) : SyscallExit(p, out.sval, probe, stack)
    BY DEF Succeed
  <1>2. PICK probe \in FromProcfs(out.files, c.fd) : SyscallExit(p, out.sval, probe, stack)
    BY <1>1
  <1>3. /\ c # None /\ stage[p] \in {"kernel", "cloned"}
        /\ stage' = [stage EXCEPT ![p] = "user"]
        /\ call' = [call EXCEPT ![p] = None]
        /\ userdata' = [userdata EXCEPT ![p] = None]
    BY <1>2 DEF SyscallExit, EnvReturn
  <1>4. p \in Alive /\ p \in DOMAIN active /\ Inv
    BY <1>3 DEF TracedInv, Followed, Alive
  <1>5. /\ stage \in [Pid -> {"gone", "user", "kernel", "cloned"}]
        /\ call \in [Pid -> Call \cup {None}] /\ userdata \in [Pid -> Call \cup {None}]
    BY <1>4 DEF Inv, TypeOK
  <1>6. /\ c \in Call /\ IsState(active[p]) /\ IsMap(files[p], Fd, File)
        /\ AllTrue(active[p].fds, files[p], p, execed)
    BY <1>3, <1>4, <1>5, SoundIs DEF TracedInv, FilesOK, Inv, TypeOK
  <1>7. IsMap(out.files, Fd, File) /\ out.sval \in Fd /\ probe \in FdMeta \cup {None}
    BY <1>6, TableStays, ProbeType
  <1>8. execed' = IF Typed(c.nr) = "Exec" THEN execed \cup {p} ELSE execed
    BY DEF Succeed
  <1>9. execed \subseteq execed' /\ (Typed(c.nr) = "Exec" => p \in execed')
    BY <1>8
  <1>10. /\ AllTrue(active'[p].fds, out.files, p, execed')
         /\ DOMAIN active' = DOMAIN active
         /\ \A q \in DOMAIN active \ {p} : active'[q] = active[q]
    <2>1. CASE userdata[p] # None
      <3>1. userdata[p] = c
        BY <1>3, <2>1 DEF TracedInv, MetaHeld
      <3>2. HandleSyscallExit(p, out.sval, probe, stack)
        BY <1>2, <1>4, <2>1 DEF SyscallExit
      <3>3. active'[p].fds = StateAtExit(active[p], c, out.sval, probe).fds
        BY <1>4, <1>7, <2>1, <3>1, <3>2, HandledFds
      <3>4. exe'[p] \in Image
        BY <1>2, <1>4, ExitImage DEF Inv, SyscallExit
      <3>5. active' = [active EXCEPT ![p] = active'[p]]
        BY <1>4, <1>7, <2>1, <3>2, <3>4, HandledGood
      <3>6. AllTrue(StateAtExit(active[p], c, out.sval, probe).fds, out.files, p, execed')
        BY <1>6, <1>9, RecordedTrue
      <3> QED
        BY <3>3, <3>5, <3>6
    <2>2. CASE userdata[p] = None
      <3>1. active' = active
        BY <1>2, <2>2 DEF SyscallExit
      <3>2. c.nr \notin {"close", "close_range"}
        BY <1>3, <2>2 DEF TracedInv, MetaHeld
      <3>3. AllTrue(active[p].fds, out.files, p, execed')
        BY <1>6, <1>9, <3>2, UnrecordedTrue
      <3> QED
        BY <3>1, <3>3
    <2> QED
      BY <2>1, <2>2
  <1>11. Alive' = Alive
    BY <1>3, <1>5 DEF Alive
  <1>12. files'[p] = out.files /\ \A q \in Pid \ {p} : files'[q] = files[q]
    BY <1>1 DEF TracedInv, FilesOK
  <1>13. FilesOK'
    BY <1>1, <1>7 DEF TracedInv, FilesOK
  <1>14. Followed'
    BY <1>10, <1>11 DEF TracedInv, Followed
  <1>15. MetaHeld'
    BY <1>3, <1>5 DEF TracedInv, MetaHeld
  <1>16. FdTableSound'
    BY <1>9, <1>10, <1>11, <1>12, OneChanges
  <1> QED
    BY <1>13, <1>14, <1>15, <1>16

(* The tracer is driven by events like any other: what Runtime guarantees  *)
(* of it holds here too.                                                   *)
LEMMA TracedIsAnyEvent ==
    ASSUME NoPipes, TracedInv, [TracedNext]_tracedVars
    PROVE  [AnyEvent]_vars
  <1>1. ASSUME NEW p \in Pid, NEW c \in Call, Enter(p, c) PROVE AnyEvent
    <2>1. PICK probe \in FromProcfs(files[p], c.fd) : SyscallEntry(p, c, probe)
      BY <1>1 DEF Enter
    <2>2. probe \in FdMeta \cup {None}
      BY ProbeType DEF TracedInv, FilesOK
    <2> QED
      BY <2>1, <2>2 DEF AnyEvent
  <1>2. ASSUME NEW p \in Pid, NEW stack \in Stack, Succeed(p, stack) PROVE AnyEvent
    <2>1. call[p] \in Call /\ IsMap(files[p], Fd, File)
      BY <1>2 DEF Succeed, TracedInv, FilesOK, Inv, TypeOK
    <2>2. PICK out \in Outcomes(files[p], call[p]) :
             \E probe \in FromProcfs(out.files, call[p].fd) :
                SyscallExit(p, out.sval, probe, stack)
      BY <1>2 DEF Succeed
    <2>3. IsMap(out.files, Fd, File) /\ out.sval \in Fd
      BY <2>1, TableStays
    <2> QED
      BY <2>2, <2>3, ProbeType DEF AnyEvent
  <1>3. UNCHANGED tracedVars => UNCHANGED vars
    BY DEF tracedVars
  <1> QED
    BY <1>1, <1>2, <1>3 DEF TracedNext, Fork, Gone, Fail, AnyEvent

LEMMA NextTraced == NoPipes /\ TracedInv /\ [TracedNext]_tracedVars => TracedInv'
  <1> SUFFICES ASSUME NoPipes, TracedInv, [TracedNext]_tracedVars PROVE TracedInv'
    OBVIOUS
  <1>1. Inv'
    BY TracedIsAnyEvent, AnyEventInv DEF TracedInv
  <1>2. SUFFICES FilesOK' /\ Followed' /\ MetaHeld' /\ FdTableSound'
    BY <1>1 DEF TracedInv
  <1>3. ASSUME NEW p \in Pid, NEW c \in Call, Enter(p, c)
        PROVE  FilesOK' /\ Followed' /\ MetaHeld' /\ FdTableSound'
    BY <1>3, EnterInv DEF Enter
  <1>4. ASSUME NEW p \in Pid, Fail(p)
        PROVE  FilesOK' /\ Followed' /\ MetaHeld' /\ FdTableSound'
    <2>1. /\ stage[p] # "gone" /\ stage' = [stage EXCEPT ![p] = "user"]
          /\ call' = [call EXCEPT ![p] = None]
          /\ UNCHANGED <<active, files, execed>>
      BY <1>4 DEF Fail, SyscallError, EnvReturn, tracerVars
    <2>2. userdata' = [userdata EXCEPT ![p] = None]
      BY <1>4 DEF Fail, SyscallError, EnvReturn
    <2>3. /\ stage \in [Pid -> {"gone", "user", "kernel", "cloned"}]
          /\ call \in [Pid -> Call \cup {None}] /\ userdata \in [Pid -> Call \cup {None}]
      BY DEF TracedInv, Inv, TypeOK
    <2>4. Alive' = Alive
      BY <2>1, <2>3 DEF Alive
    <2>5. MetaHeld'
      BY <2>1, <2>2, <2>3 DEF TracedInv, MetaHeld
    <2>6. FdTableSound'
      BY <2>1, <2>4, SoundIs, SoundWillBe DEF TracedInv
    <2> QED
      BY <2>1, <2>4, <2>5, <2>6 DEF TracedInv, FilesOK, Followed
  <1>5. CASE (Finish /\ UNCHANGED <<files, execed>>) \/ UNCHANGED tracedVars
    <2>1. UNCHANGED <<active, stage, call, userdata, files, execed>>
      BY <1>5 DEF Finish, tracerVars, envVars, tracedVars, vars
    <2>2. Alive' = Alive
      BY <2>1 DEF Alive
    <2>3. FdTableSound'
      BY <2>1, <2>2, SoundIs, SoundWillBe DEF TracedInv
    <2> QED
      BY <2>1, <2>2, <2>3 DEF TracedInv, FilesOK, Followed, MetaHeld
  <1> QED
    BY <1>3, <1>4, <1>5, ForkInv, GoneInv, SucceedInv DEF TracedNext

LEMMA InitTraced == TracedInit => TracedInv
  <1> SUFFICES ASSUME TracedInit PROVE TracedInv
    OBVIOUS
  <1>1. Init /\ Inv
    BY InitInv DEF TracedInit
  <1> DEFINE first == [fd \in {0} |-> [kind |-> "Char", cloexec |-> FALSE]]
  <1>2. IsMap(first, Fd, File)
    BY InputAssumption DEF IsMap, File, Kind
  <1> HIDE DEF first
  <1>3. files = [p \in Pid |-> IF p = InitPid THEN first ELSE Empty]
    BY DEF TracedInit, first
  <1>4. FilesOK
    <2>1. IsMap(Empty, Fd, File)
      BY EmptyMap
    <2> QED
      BY <1>2, <1>3, <2>1 DEF FilesOK
  <1>5. Alive \subseteq DOMAIN active
    BY <1>1 DEF Init, Alive
  <1>6. MetaHeld
    BY <1>1 DEF Init, MetaHeld
  <1>7. DOMAIN active = {InitPid} /\ active[InitPid].fds = Empty
    BY <1>1 DEF Init, NewState
  <1>8. FdTableSound
    BY <1>7, SoundIs DEF AllTrue, Empty
  <1> QED
    BY <1>1, <1>4, <1>5, <1>6, <1>8 DEF TracedInv, Followed

(* An entry of State::fds is true of the descriptor it is about, or was    *)
(* left by an exec.                                                        *)
THEOREM TableIsTrue == ASSUME NoPipes PROVE TracedSpec => []FdTableSound
  <1>1. TracedInv /\ [TracedNext]_tracedVars => TracedInv'
    BY NextTraced
  <1> QED
    BY <1>1, InitTraced, PTL DEF TracedSpec, TracedInv

-----------------------------------------------------------------------------
(* What an ioctl on an internet socket is worth.                           *)
LEMMA InetIoctlCaps ==
    ASSUME NEW s, IsState(s), NEW c, c.nr = "ioctl", c.fd \in Fd,
           NEW table, IsMap(table, Fd, File), c.fd \in DOMAIN table,
           table[c.fd].kind = "InetSocket",
           NEW probe \in FromProcfs(table, c.fd), NEW p, NEW left,
           AllTrue(s.fds, table, p, left),
           ~(c.fd \in DOMAIN s.fds /\ p \in left /\ s.fds[c.fd].cloexec)
    PROVE  "Network" \in CapsAtExit(s, c, probe)
  <1> DEFINE fds == InferFd(s, c.fd, probe).fds
  <1>1. "Network" \in LookupSysno(c.nr)
    BY DEF LookupSysno
  <1>2. Typed(c.nr) = "Ioctl"
    BY DEF Typed
  <1>3. CASE c.fd \notin DOMAIN fds
    BY <1>1, <1>3 DEF CapsAtExit
  <1>4. CASE c.fd \in DOMAIN fds
    <2>1. Describes(fds[c.fd].ty, "InetSocket") /\ fds[c.fd].ty \in FdType
      <3>1. CASE c.fd \in DOMAIN s.fds
        <4>1. fds = s.fds
          BY <3>1 DEF InferFd
        <4>2. Describes(s.fds[c.fd].ty, "InetSocket")
          BY <3>1 DEF AllTrue, TrueOf
        <4>3. s.fds[c.fd].ty \in FdType
          BY <3>1 DEF IsState, IsMap, FdMeta
        <4> QED
          BY <4>1, <4>2, <4>3
      <3>2. CASE c.fd \notin DOMAIN s.fds
        <4>1. probe # None
          BY <1>4, <3>2 DEF InferFd
        <4>2. fds = Put(s.fds, c.fd, probe)
          BY <3>2, <4>1 DEF InferFd, InsertFd, IsState
        <4>3. fds[c.fd] = probe
          BY <4>2 DEF Put
        <4>4. probe \in FdMeta /\ Describes(probe.ty, table[c.fd].kind)
          BY <4>1, ProcfsTells
        <4> QED
          BY <4>3, <4>4 DEF FdMeta
      <3> QED
        BY <3>1, <3>2
    <2>2. fds[c.fd].ty \in {"SocketInode", "OtherSocket", "Unknown"}
      BY <2>1 DEF Describes, FdType
    <2>3. "Network" \in IoctlCaps(fds[c.fd].ty) \/ IoctlCaps(fds[c.fd].ty) = {}
      BY <2>2 DEF IoctlCaps
    <2> QED
      BY <1>1, <1>2, <1>4, <2>3 DEF CapsAtExit
  <1> QED
    BY <1>3, <1>4

LEMMA IoctlStep ==
    ASSUME NoPipes, TracedInv, NEW p \in Alive \cap DOMAIN active,
           NEW stack \in Stack, Succeed(p, stack),
           call[p].nr = "ioctl", files[p][call[p].fd].kind = "InetSocket",
           ~active[p].waiting,
           ~(call[p].fd \in DOMAIN active[p].fds /\ LeftByExec(p, call[p].fd))
    PROVE  /\ "Network" \in active'[p].caps
           /\ \A w \in witnessed' \ witnessed : "Network" \in w.caps
  <1> DEFINE c == call[p]
  <1>1. PICK out \in Outcomes(files[p], c) :
           \E probe \in FromProcfs(out.files, c.fd) : SyscallExit(p, out.sval, probe, stack)
    BY DEF Succeed
  <1>2. PICK probe \in FromProcfs(out.files, c.fd) : SyscallExit(p, out.sval, probe, stack)
    BY <1>1
  <1> DEFINE caps == CapsAtExit(active[p], c, probe)
             left == StateAtExit(active[p], c, out.sval, probe)
  <1>3. /\ p \in Pid /\ c # None /\ c \in Call /\ c.fd \in Fd /\ Inv
        /\ IsState(active[p]) /\ IsMap(files[p], Fd, File)
        /\ AllTrue(active[p].fds, files[p], p, execed)
    BY InputAssumption, SoundIs DEF Succeed, Alive, TracedInv, FilesOK, Inv, TypeOK
  <1>4. userdata[p] = c
    BY <1>3 DEF TracedInv, MetaHeld
  <1>5. c.fd \in DOMAIN files[p] /\ out.sval = 0 /\ out.files = files[p]
    <2>1. /\ c.fd \in DOMAIN files[p] /\ out.sval = 0
          /\ out.files = Restrict(files[p], Kept(files[p], c))
      BY <1>3, OtherOutcomes DEF Typed
    <2>2. Kept(files[p], c) = DOMAIN files[p]
      BY DEF Kept, Typed
    <2> QED
      BY <1>3, <2>1, <2>2 DEF Restrict, IsMap
  <1>6. 0 \in Fd /\ probe \in FdMeta \cup {None}
    BY <1>3, <1>5, ProbeType, InputAssumption
  <1>7. "Network" \in caps
    BY <1>3, <1>5, InetIoctlCaps DEF LeftByExec
  <1>8. HandleSyscallExit(p, 0, probe, stack)
    BY <1>2, <1>3, <1>4, <1>5 DEF SyscallExit
  <1>9. exe'[p] \in Image
    BY <1>2, <1>3, ExitImage DEF Inv, SyscallExit
  <1>10. /\ SameReport(active[p], left)
         /\ ~left.waiting => caps \subseteq active'[p].caps
    BY <1>3, <1>4, <1>5, <1>6, <1>8, <1>9, HandledGood
  <1>11. ~left.waiting
    BY <1>10 DEF SameReport
  <1>12. \A w \in witnessed' \ witnessed : w.caps = caps
    BY <1>4, <1>7, <1>8 DEF HandleSyscallExit, Witness
  <1> QED
    BY <1>7, <1>10, <1>11, <1>12

(* No ioctl on an internet socket is taken for something milder.           *)
THEOREM NetworkIsCharged == ASSUME NoPipes PROVE TracedSpec => NetworkIoctlCharged
  <1>1. TracedInv /\ [TracedNext]_tracedVars => TracedInv'
    BY NextTraced
  <1>2. TracedInv /\ [TracedNext]_tracedVars =>
          [\A p \in Alive \cap DOMAIN active :
             /\ \E stack \in Stack : Succeed(p, stack)
             /\ call[p].nr = "ioctl" /\ files[p][call[p].fd].kind = "InetSocket"
             /\ ~active[p].waiting
             /\ ~(call[p].fd \in DOMAIN active[p].fds /\ LeftByExec(p, call[p].fd))
             => /\ "Network" \in active'[p].caps
                /\ \A w \in witnessed' \ witnessed : "Network" \in w.caps]_tracedVars
    BY IoctlStep
  <1> QED
    BY <1>1, <1>2, InitTraced, PTL DEF TracedSpec, NetworkIoctlCharged
=============================================================================
