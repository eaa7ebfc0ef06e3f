---------------------------- MODULE TextFormats ----------------------------
(***************************************************************************)
(* The text a report depends on, from end to end: the capability map that  *)
(* was compiled in, the names the demangler makes of the functions on a    *)
(* stack, and the JSON the report is written as, up to a reader that       *)
(* deserialises it.  A Symbol is the item it was mangled from.             *)
(*                                                                         *)
(* Of the tracer there is what handle_syscall_exit does with a stack of a  *)
(* function and its caller; which events there are is Runtime's.           *)
(***************************************************************************)
EXTENDS CapabilityMap, RustName, ReportFormat

CONSTANTS
    MainFunction,   \* what every stack ends with
    Traced,         \* the system calls the program makes
    MaxCalls        \* bound on the calls that are traced

(* Every item has a name, and the type and the trait of its impl block     *)
(* where it is in one.  Of working directories there is none but None.     *)
ASSUME ItemAssumption ==
    /\ Symbol \subseteq [kind : {"impl", "plain", "other"}, type : Seq(STRING),
                         trait : Seq(STRING), method : Seq(STRING) \ {<<>>}]
    /\ MainFunction \in Symbol /\ Traced \subseteq Sysno /\ MaxCalls \in Nat
    /\ Path = {None}

VARIABLES
    processes,      \* the State of each traced process, the spawned one first
    calls,          \* history: who called what, as <<process, function, call>>
    report,         \* the Report, Empty before there is one
    json,           \* what was written, Empty before
    read            \* what a reader made of it, Empty before

vars == <<mapVars, processes, calls, report, json, read>>

TypeOK ==
    /\ MapTypeOK
    /\ Len(processes) \in 1..2 /\ \A p \in DOMAIN processes : IsState(processes[p])
    /\ calls \in Seq((1..2) \X Symbol \X Traced) /\ Len(calls) <= MaxCalls
    /\ report # Empty => DOMAIN report = {"process", "children"}
    /\ json # Empty =>
          Has(json, {"path", "capabilities", "functions", "edges"})
    /\ read # Empty => DOMAIN read = {"borrowed", "report"}

Init ==
    /\ MapInit
    /\ processes = <<NewState(<<>>, Empty, None, FALSE, 1)>>
    /\ calls = <<>>
    /\ report = Empty /\ json = Empty /\ read = Empty

-----------------------------------------------------------------------------
(* External: the demangler's spelling of a method of an impl block that is *)
(* generic or of a trait, and of anything else.                            *)
Spelled(s) ==
    IF s.kind = "impl"
    THEN <<"<">> \o s.type \o (IF s.trait = <<>> THEN <<>> ELSE As \o s.trait)
            \o Closing \o s.method
    ELSE IF s.type = <<>> THEN s.method
    ELSE s.type \o <<"::">> \o s.method

(* parse_mangled_name; the Error of ParseRustName when that fails.         *)
ParseMangledName(s) ==
    IF s.kind = "other" THEN [display_name |-> Spelled(s), language |-> "c"]
    ELSE IF Parses(Spelled(s))
    THEN [display_name |-> Spelled(s), name |-> ParseRustName(Spelled(s))]
    ELSE ParseRustName(Spelled(s))

Named(s) == "error" \notin DOMAIN ParseMangledName(s)

-----------------------------------------------------------------------------
ReadMap == Generate /\ UNCHANGED <<processes, calls, report, json, read>>

Tracing == parse = "generated" /\ report = Empty

Spawn ==
    /\ Tracing /\ Len(processes) = 1
    /\ processes' = Append(processes, NewState(<<>>, Empty, None, FALSE, 2))
    /\ UNCHANGED <<mapVars, calls, report, json, read>>

(* handle_syscall_exit: the capabilities go to the process, and with the   *)
(* call to the functions it finds first.                                   *)
Call(p, symbol, nr) ==
    LET stack == <<symbol, MainFunction>>
        kept == {i \in 1..2 : Named(stack[i])}
    IN  /\ Tracing /\ Len(calls) < MaxCalls
        /\ p \in DOMAIN processes
        /\ calls' = Append(calls, <<p, symbol, nr>>)
        /\ processes' = [processes EXCEPT ![p] =
              RecordStack(ExtendCaps(@, Lookup(nr)), stack, kept, Lookup(nr), {nr},
                          [s \in Symbol |-> None])]
        /\ UNCHANGED <<mapVars, report, json, read>>

(* into_process, with the names FunctionMap's functions have.              *)
Reported(state) ==
    LET process == IntoProcess(state)
    IN  [path |-> process.path, capabilities |-> process.capabilities,
         functions |-> [s \in DOMAIN process.functions |->
                          [name |-> ParseMangledName(s)] @@ process.functions[s]],
         edges |-> process.edges]

IntoReport(include_children) ==
    [process |-> Reported(processes[1]),
     children |-> IF include_children /\ Len(processes) = 2
                  THEN <<Reported(processes[2])>> ELSE <<>>]

(* The end of main.                                                        *)
Output(include_children) ==
    /\ Tracing
    /\ report' = IntoReport(include_children)
    /\ json' = WriteReport(report')
    /\ UNCHANGED <<mapVars, processes, calls, read>>

(* External: a reader, of a text in memory or of a stream.                 *)
Read(borrowed) ==
    /\ json # Empty /\ read = Empty
    /\ read' = [borrowed |-> borrowed, report |-> ReadReport(json, borrowed)]
    /\ UNCHANGED <<mapVars, processes, calls, report, json>>

Next ==
    \/ ReadMap
    \/ Spawn
    \/ \E p \in 1..2, symbol \in Symbol, nr \in Traced : Call(p, symbol, nr)
    \/ \E flag \in BOOLEAN : Output(flag) \/ Read(flag)

Spec == Init /\ [][Next]_vars

-----------------------------------------------------------------------------
Processes(r) == <<r.process>> \o r.children

(* The words on the last line that has a name.                             *)
LastLine(name) ==
    LET about == {i \in DOMAIN lines : lines[i] # Comment /\ lines[i].name = name}
    IN  IF about = {} THEN {}
        ELSE LET last == CHOOSE i \in about : \A j \in about : j <= i
             IN  {lines[last].words[k] : k \in DOMAIN lines[last].words}

CallsOf(p) == {i \in DOMAIN calls : calls[i][1] = p}

FirstCall(p, symbol) ==
    CHOOSE i \in CallsOf(p) : /\ calls[i][2] = symbol
                              /\ \A j \in CallsOf(p) : calls[j][2] = symbol => i <= j

(* What a reader is told of a process is what the capability map says of   *)
(* its calls, on the last line where a call has more than one, without     *)
(* Safe; of a function whose name can be parsed it is what the map says of *)
(* the first call it made.                                                 *)
(* The compiler, the tracer, the writer and the reader each have a part.   *)
ReaderToldTheMap ==
    read # Empty /\ Readable(read.report) =>
        \A p \in DOMAIN Processes(read.report) :
            LET told == Processes(read.report)[p]
            IN  /\ told.capabilities =
                      (UNION {LastLine(calls[i][3]) : i \in CallsOf(p)}) \ {"Safe"}
                /\ DOMAIN told.functions \ {MainFunction} =
                      {s \in {calls[i][2] : i \in CallsOf(p)} : Named(s)} \ {MainFunction}
                /\ \A s \in DOMAIN told.functions \ {MainFunction} :
                      LET nr == calls[FirstCall(p, s)][3]
                      IN  /\ told.functions[s].capabilities = [c \in LastLine(nr) |-> "Direct"]
                          /\ told.functions[s].syscalls = {nr}

(* A report can be read back, and is then the one that was written but for *)
(* Safe, exactly when it has children, whose field is left out otherwise,  *)
(* and no type has to be read from a stream.                               *)
ReadBackExactly ==
    read # Empty =>
        LET all == Processes(report)
            Cleaned(p) == [p EXCEPT !.capabilities = @ \ {"Safe"}]
            typed == \E p \in DOMAIN all : \E s \in DOMAIN all[p].functions :
                        all[p].functions[s].capabilities # Empty
        IN  IF report.children # <<>> /\ (read.borrowed \/ ~typed)
            THEN /\ Readable(read.report)
                 /\ Processes(read.report) = [p \in DOMAIN all |-> Cleaned(all[p])]
            ELSE ~Readable(read.report)

(* The type, the trait and the method a report gives of a method are those *)
(* of its impl block exactly when the type has no qualified path in it and *)
(* the method nothing nested that is itself in an impl block.              *)
SplitTellsTheImpl ==
    read # Empty /\ Readable(read.report) =>
        \A s \in DOMAIN read.report.process.functions :
            s.kind = "impl" =>
                LET impl == IF s.trait = <<>>
                            THEN [type |-> s.type, method |-> s.method]
                            ELSE [type |-> s.type, trait |-> s.trait, method |-> s.method]
                IN  read.report.process.functions[s].name.name = impl
                        <=> ~Occurs(As, s.type) /\ ~Occurs(Closing, s.method)
=============================================================================
