-------------------------- MODULE CallGraphBubble --------------------------
(***************************************************************************)
(* CallGraph::bubble_transitive_capabilities (src/graph.rs): the loop that *)
(* passes over every edge of the call graph, copying to the caller each    *)
(* capability of the callee that it lacks, until a pass changes nothing.   *)
(*                                                                         *)
(* The graph and the capabilities it starts from are chosen by Init and    *)
(* never change, so one run covers every graph over Function.  petgraph    *)
(* yields the edges in the order they were inserted; a pass here takes     *)
(* them in any order, which includes that one.                             *)
(***************************************************************************)
EXTENDS Naturals, FiniteSets

CONSTANTS Function,     \* indexes into the FunctionMap the graph refers to
          Capability

VARIABLES edges,        \* the DiGraphMap: <<caller, callee>> pairs
          given,        \* Function.capabilities when the loop is entered
          capabilities, \* Function.capabilities now
          changed,      \* the loop's flag
          todo,         \* edges the current pass has not visited
          pc

bubbleVars == <<edges, given, capabilities, changed, todo, pc>>

Absent == "Absent"      \* the BTreeMap has no such key
CapabilityType == {"Direct", "Transitive"}

Held(caps, f) == {c \in Capability : caps[f][c] # Absent}

BubbleTypeOK ==
    /\ edges \subseteq Function \X Function
    /\ given \in [Function -> [Capability -> {Absent, "Direct"}]]
    /\ capabilities \in [Function -> [Capability -> {Absent} \cup CapabilityType]]
    /\ changed \in BOOLEAN
    /\ todo \subseteq edges
    /\ pc \in {"while", "for", "done"}

(***************************************************************************)
(* The only caller is StaticAnalysis, whose functions carry nothing but    *)
(* the direct capabilities of direct_fn_caps.                              *)
(***************************************************************************)
BubbleInit ==
    /\ edges \in SUBSET (Function \X Function)
    /\ given \in [Function -> [Capability -> {Absent, "Direct"}]]
    /\ capabilities = given
    /\ changed = TRUE
    /\ todo = {}
    /\ pc = "while"

StartPass ==
    /\ pc = "while" /\ changed
    /\ changed' = FALSE
    /\ todo' = edges
    /\ pc' = "for"
    /\ UNCHANGED <<edges, given, capabilities>>

(* keys of the callee the caller's map does not contain (contains_key)      *)
MissingWithoutLookup(caller, callee) == Held(capabilities, callee)  \* mutant

Missing(caller, callee) ==
    Held(capabilities, callee) \ Held(capabilities, caller)

InsertReplacesMap(caller, caps) ==        \* mutant: the map is rebuilt, not added to
    [capabilities EXCEPT ![caller] = [c \in caps |-> "Transitive"]]

Insert(caller, caps) ==
    [capabilities EXCEPT ![caller] =
       [c \in Capability |-> IF c \in caps THEN "Transitive" ELSE @[c]]]

VisitEdgeBackwards(caller, callee) ==     \* mutant: the pair taken the other way
    /\ pc = "for"
    /\ <<caller, callee>> \in todo
    /\ todo' = todo \ {<<caller, callee>>}
    /\ capabilities' = Insert(callee, Missing(callee, caller))
    /\ changed' = (changed \/ Missing(callee, caller) # {})
    /\ UNCHANGED <<edges, given, pc>>

VisitEdgeOverwritesFlag(caller, callee) ==   \* mutant: changed = this edge's result
    /\ pc = "for"
    /\ <<caller, callee>> \in todo
    /\ todo' = todo \ {<<caller, callee>>}
    /\ capabilities' = Insert(caller, Missing(caller, callee))
    /\ changed' = (Missing(caller, callee) # {})
    /\ UNCHANGED <<edges, given, pc>>

VisitEdge(caller, callee) ==
    /\ pc = "for"
    /\ <<caller, callee>> \in todo
    /\ todo' = todo \ {<<caller, callee>>}
    /\ capabilities' = Insert(caller, Missing(caller, callee))
    /\ changed' = (changed \/ Missing(caller, callee) # {})
    /\ UNCHANGED <<edges, given, pc>>

EndPass ==
    /\ pc = "for" /\ todo = {}
    /\ pc' = "while"
    /\ UNCHANGED <<edges, given, capabilities, changed, todo>>

LeaveLoop ==
    /\ pc = "while" /\ ~changed
    /\ pc' = "done"
    /\ UNCHANGED <<edges, given, capabilities, changed, todo>>

BubbleNext ==
    \/ StartPass
    \/ \E caller, callee \in Function : VisitEdge(caller, callee)
    \/ EndPass
    \/ LeaveLoop

BubbleSpec == BubbleInit /\ [][BubbleNext]_bubbleVars /\ WF_bubbleVars(BubbleNext)

-----------------------------------------------------------------------------
(* The sets of functions a capability could be spread to: those that hold  *)
(* it at the start and are closed under "my callee is in the set".         *)
Origin(c) == {f \in Function : c \in Held(given, f)}

Spread(c) ==
    {S \in SUBSET Function :
        /\ Origin(c) \subseteq S
        /\ \A e \in edges : e[2] \in S => e[1] \in S}

(* No invented capability: at every point of the loop a function holds     *)
(* only what it, or something it reaches through calls, held when          *)
(* bubble_transitive_capabilities was entered.                             *)
OnlyReachable ==
    \A f \in Function : \A c \in Held(capabilities, f) : \A S \in Spread(c) : f \in S

(* When the loop ends no caller misses a capability of a callee, whatever  *)
(* the shape of the graph (cycles, self calls, edges visited before the    *)
(* edge that feeds them).                                                  *)
DoneIsClosed ==
    pc = "done" =>
        \A e \in edges : Held(capabilities, e[2]) \subseteq Held(capabilities, e[1])

(* A capability the function had of its own stays Direct when it also      *)
(* arrives through a callee, and one that arrives is never called Direct.  *)
DirectIsOwn ==
    \A f \in Function, c \in Capability :
        capabilities[f][c] = "Direct" <=> given[f][c] = "Direct"

(* The loop ends: `changed` cannot stay set for ever, because each pass    *)
(* that sets it has added a capability to some function.                   *)
Terminates == <>(pc = "done")

=============================================================================
