--------------------------- MODULE StaticAnalysis ---------------------------
(***************************************************************************)
(* Static::main and bitcode::Builder (src/static/mod.rs, bitcode.rs): the  *)
(* bitcode files are read in the order of the directory, each adds its     *)
(* functions and its calls to what the files before it have left, and      *)
(* CallGraphBubble spreads the capabilities when all have been read.       *)
(*                                                                         *)
(* An error and a panic end the program alike, without a report.  The      *)
(* locations of functions and calls are left out.  A Function is a mangled *)
(* name.                                                                   *)
(***************************************************************************)
EXTENDS FlowGraph, CallGraphBubble

CONSTANTS File,
          Malformed,        \* those that parse_mangled_name rejects
          Type, TypeOf,     \* function types, and the one of each function
          FunctionCaps,     \* what --function-caps says of each name
          InlineAssembly, Numbered, \* callees that are no name
          Unreadable,       \* a file Module::from_bc_path rejects
          Module            \* what a file may hold

Callee == Function \cup Type \cup {InlineAssembly, Numbered}

(* A name that a module calls and neither defines nor declares is an alias *)
(* in it, which LLVM lists with neither.                                   *)
ASSUME StaticAssumption ==
    /\ Malformed \subseteq Function
    /\ TypeOf \in [Function -> Type]
    /\ FunctionCaps \in [Function -> SUBSET Capability]
    /\ Unreadable \notin Module
    /\ \A m \in Module :
          /\ m.defined \cup m.declared \subseteq Function
          /\ m.calls \subseteq m.defined \X Callee

VARIABLES module,       \* what each file holds
          unread,       \* the files WalkDir has not come to
          functions     \* the names in FunctionMap.ids

builderVars == <<module, unread, functions>>
vars == <<module, unread, functions, edges, given, capabilities, changed, todo, pc>>

TypeOK ==
    /\ unread \subseteq File
    /\ functions \subseteq Function
    /\ edges \subseteq functions \X functions
    /\ capabilities \in [Function -> [Capability -> {"Absent", "Direct", "Transitive"}]]
    /\ \A f \in Function \ functions : Held(capabilities, f) = {}
    /\ changed \in BOOLEAN
    /\ todo \subseteq edges
    /\ pc \in {"modules", "failed", "while", "for", "done"}

Init ==
    /\ module \in [File -> Module \cup {Unreadable}]
    /\ unread = File
    /\ functions = {}
    /\ edges = {}
    /\ capabilities = [f \in Function |-> [c \in Capability |-> "Absent"]]
    /\ given = capabilities
    /\ changed = FALSE
    /\ todo = {}
    /\ pc = "modules"

-----------------------------------------------------------------------------
(* add_edge_for_call: a callee that is named is the target, one that is    *)
(* not may be any function of its type that the module itself defines.     *)
TargetsAnywhere(m, callee) ==   \* mutant: functions of other modules too
    {f \in Function : f = callee \/ TypeOf[f] = callee}

Targets(m, callee) ==
    {f \in Function : f = callee \/ (f \in m.defined /\ TypeOf[f] = callee)}

(* The edges of CallGraph::new.                                            *)
Calls(m) == UNION {{call[1]} \X Targets(m, call[2]) : call \in m.calls}

Names(m) == m.defined \cup m.declared

UpsertEverything(names) ==      \* mutant: an entry for each line of --function-caps
    [f \in Function |->
       [c \in Capability |-> IF c \in FunctionCaps[f] THEN "Direct" ELSE "Absent"]]

(* upsert_with_caps: a name that is in the map already is left alone.      *)
Upsert(names) ==
    [f \in Function |->
       IF f \in names \ functions
       THEN [c \in Capability |-> IF c \in FunctionCaps[f] THEN "Direct" ELSE "Absent"]
       ELSE capabilities[f]]

(* Where add_module returns an error or panics: the file or a name does    *)
(* not parse, a numbered function is called, or an end of an edge is not   *)
(* in the map (unless another module had that name, an alias).             *)
Accepted(m) ==
    /\ m # Unreadable
    /\ Names(m) \cap Malformed = {}
    /\ \A call \in m.calls : call[2] # Numbered
    /\ Calls(m) \subseteq Function \X (functions \cup Names(m))

AddModuleReplacesGraph(file) ==     \* mutant: the graph is that of the last file
    /\ pc = "modules"
    /\ file \in unread
    /\ Accepted(module[file])
    /\ unread' = unread \ {file}
    /\ functions' = functions \cup Names(module[file])
    /\ capabilities' = Upsert(Names(module[file]))
    /\ given' = capabilities'
    /\ edges' = Calls(module[file])
    /\ UNCHANGED <<module, changed, todo, pc>>

AddModule(file) ==
    /\ pc = "modules"
    /\ file \in unread
    /\ Accepted(module[file])
    /\ unread' = unread \ {file}
    /\ functions' = functions \cup Names(module[file])
    /\ capabilities' = Upsert(Names(module[file]))
    /\ given' = capabilities'
    /\ edges' = edges \cup Calls(module[file])
    /\ UNCHANGED <<module, changed, todo, pc>>

(* add_module returns an error or panics.  Static::main ends the same way  *)
(* where a path cannot be walked, --function-caps not be read, the build   *)
(* or the writing of the report fails: those do not depend on what the     *)
(* files hold and are left out.                                            *)
Fail(file) ==
    /\ pc = "modules"
    /\ file \in unread
    /\ ~Accepted(module[file])
    /\ pc' = "failed"
    /\ UNCHANGED <<module, unread, functions, edges, given, capabilities, changed, todo>>

IntoReport ==
    /\ pc = "modules"
    /\ unread = {}
    /\ changed' = TRUE
    /\ pc' = "while"
    /\ UNCHANGED <<module, unread, functions, edges, given, capabilities, todo>>

(* What the report says of the process.                                    *)
ProcessCapabilities == UNION {Held(capabilities, f) : f \in functions}

Next ==
    \/ \E file \in File : AddModule(file) \/ Fail(file)
    \/ IntoReport
    \/ BubbleNext /\ UNCHANGED builderVars

Spec == Init /\ [][Next]_vars

-----------------------------------------------------------------------------
Read == {module[file] : file \in File}

AllCalls == UNION {Calls(m) : m \in Read}

(* The report is that of the program as a whole, whichever way it is cut   *)
(* into modules and in whatever order they come: each function has the     *)
(* capabilities of all that it reaches through calls of any module, also   *)
(* where a module only declares what another defines, and the process has  *)
(* those of all its functions.                                             *)
ReportExact ==
    pc = "done" =>
        /\ functions = UNION {m.defined \cup m.declared : m \in Read}
        /\ \A f \in functions :
              Held(capabilities, f) =
                  UNION {FunctionCaps[g] : g \in {g \in functions : Reaches(AllCalls, f, g)}}
        /\ ProcessCapabilities = UNION {FunctionCaps[f] : f \in functions}

(* Builder's unwraps are safe but for aliases: the program ends without a  *)
(* report only where a file or a name cannot be read, or where something   *)
(* is called that the module lists as no function at all.                  *)
OnlyBadInputFails ==
    pc = "failed" =>
        \E m \in Read :
            \/ m = Unreadable
            \/ (m.defined \cup m.declared) \cap Malformed # {}
            \/ \E call \in m.calls :
                  \/ call[2] = Numbered
                  \/ call[2] \in Function \ (m.defined \cup m.declared)
=============================================================================
