----------------------------- MODULE FlowGraph -----------------------------
(***************************************************************************)
(* Control flow graphs (llvm-ir-analysis/src/control_flow_graph.rs) and    *)
(* the textbook definitions the analyses of a function are held against.   *)
(*                                                                         *)
(* A graph is a set of edges <<from, to>>.  A set is closed under some     *)
(* edges when they do not leave it, and what can be reached is what is in  *)
(* every closed set, which needs no recursion.                             *)
(***************************************************************************)
EXTENDS Naturals, FiniteSets

Nodes(edges) == {e[1] : e \in edges} \cup {e[2] : e \in edges}

Succs(edges, n) == {e[2] : e \in {e \in edges : e[1] = n}}

Preds(edges, n) == {e[1] : e \in {e \in edges : e[2] = n}}

Reversed(edges) == {<<e[2], e[1]>> : e \in edges}

(* ControlFlowGraph::new.  Of a terminator only where it leads is kept:    *)
(* the blocks it may branch to (all of the destinations of br, switch,     *)
(* indirectbr, invoke, catchret; the handlers of a catchswitch; where a    *)
(* cleanupret unwinds to), and whether it may leave the function (ret,     *)
(* resume, and cleanupret and catchswitch that unwind to the caller).      *)
(* Unreachable has neither.                                                *)
ControlFlow(terminator, return) ==
    UNION {{<<b, dest>> : dest \in terminator[b].dests} \cup
           (IF terminator[b].returns THEN {<<b, return>>} ELSE {})
             : b \in DOMAIN terminator}

-----------------------------------------------------------------------------
Reaches(edges, from, to) ==
    \A S \in SUBSET (Nodes(edges) \cup {from, to}) :
        from \in S /\ (\A e \in edges : e[1] \in S => e[2] \in S) => to \in S

(* Every path from the entry to b goes through a: b is not among what can  *)
(* be reached when no edge may lead into a.                                *)
Dominates(edges, entry, a, b) ==
    \/ a \in {entry, b}
    \/ \E S \in SUBSET ((Nodes(edges) \cup {entry}) \ {a, b}) :
          /\ entry \in S
          /\ \A e \in edges : e[1] \in S => e[2] \in S \cup {a}

StrictlyDominates(edges, entry, a, b) == a # b /\ Dominates(edges, entry, a, b)

(* The strict dominator of b that all its other strict dominators          *)
(* dominate: the one closest to b.                                         *)
IsImmediateDominator(edges, entry, a, b) ==
    /\ StrictlyDominates(edges, entry, a, b)
    /\ \A c \in Nodes(edges) :
          StrictlyDominates(edges, entry, c, b) => Dominates(edges, entry, c, a)
=============================================================================
