------------------------- MODULE ControlDependence -------------------------
(***************************************************************************)
(* ControlDependenceGraph (llvm-ir-analysis/src/control_dep_graph.rs): the *)
(* postdominance frontiers of the blocks of a function, collected from the *)
(* leaves of the postdominator tree up, and the two ways of asking what    *)
(* depends on what.                                                        *)
(*                                                                         *)
(* DfsPostOrder comes to a node of the tree after its children; any order  *)
(* that does is allowed here.  The tree is the one DominatorTree shows the *)
(* builder to make.  Blocks from which the function cannot return are not  *)
(* in the tree, and nothing is said of them.                               *)
(***************************************************************************)
EXTENDS FlowGraph

CONSTANTS Block, Entry, Return, None

ASSUME BlockAssumption ==
    /\ IsFiniteSet(Block) /\ Entry \in Block
    /\ Return \notin Block /\ None \notin Block \cup {Return}

VARIABLES cfg,
          ipostdom,     \* postdomtree: the parent of each node, None outside it
          graph,        \* the dependences found so far
          visited,      \* the nodes DfsPostOrder has been at
          query,        \* what is asked, None when nothing is
          worklist, deps

vars == <<cfg, ipostdom, graph, visited, query, worklist, deps>>

CFGNode == Block \cup {Return}

Terminator == [dests : SUBSET (Block \ {Entry}), returns : BOOLEAN]

Returns(n) == Reaches(cfg, n, Return)

InTree == {n \in CFGNode : n = Return \/ ipostdom[n] # None}

Question == [about : Block, way : {"dependencies", "dependents"}]

ASSUME NoneAssumption == None \notin Question

TypeOK ==
    /\ cfg \subseteq Block \X CFGNode
    /\ ipostdom \in [CFGNode -> CFGNode \cup {None}]
    /\ graph \subseteq InTree \X (InTree \ {Return})
    /\ visited \subseteq InTree
    /\ query \in Question \cup {None}
    /\ worklist \cup deps \subseteq InTree

Init ==
    /\ \E terminator \in [Block -> Terminator] : cfg = ControlFlow(terminator, Return)
    /\ ipostdom = [n \in CFGNode |->
         IF n = Return \/ ~Returns(n) THEN None
         ELSE CHOOSE a \in CFGNode : IsImmediateDominator(Reversed(cfg), Return, a, n)]
    /\ graph = {}
    /\ visited = {}
    /\ query = None
    /\ worklist = {} /\ deps = {}

-----------------------------------------------------------------------------
Children(x) == {z \in CFGNode : ipostdom[z] = x}

(* Predecessors that x does not immediately postdominate, and what the     *)
(* children of x depend on with the same exception.                        *)
Frontier(x) ==
    {y \in Preds(cfg, x) \cup UNION {Succs(graph, z) : z \in Children(x)} :
        ipostdom[y] # x}

VisitInAnyOrder(x) ==       \* mutant: the tree is not walked from the leaves
    /\ x \in InTree \ visited
    /\ graph' = graph \cup {<<x, y>> : y \in Frontier(x)}
    /\ visited' = visited \cup {x}
    /\ UNCHANGED <<cfg, ipostdom, query, worklist, deps>>

VisitEveryBlock(x) ==       \* mutant: the blocks are walked, not the tree
    /\ x \in CFGNode \ visited
    /\ Children(x) \subseteq visited
    /\ graph' = graph \cup {<<x, y>> : y \in Frontier(x)}
    /\ visited' = visited \cup {x}
    /\ UNCHANGED <<cfg, ipostdom, query, worklist, deps>>

Visit(x) ==
    /\ x \in InTree \ visited
    /\ Children(x) \subseteq visited
    /\ graph' = graph \cup {<<x, y>> : y \in Frontier(x)}
    /\ visited' = visited \cup {x}
    /\ UNCHANGED <<cfg, ipostdom, query, worklist, deps>>

-----------------------------------------------------------------------------
(* get_imm_control_dependencies and get_imm_control_dependents.            *)
Immediate(n, way) ==
    IF way = "dependencies" THEN Succs(graph, n) ELSE Preds(graph, n)

(* ControlDependenciesIterator::new and ControlDependentsIterator::new: a  *)
(* worklist that starts from the immediate neighbours.  A name may be in   *)
(* the Vec twice; the second time it is popped deps.insert is false and    *)
(* nothing happens, so a set does.                                         *)
Ask(q) ==
    /\ visited = InTree /\ query = None
    /\ query' = q
    /\ worklist' = Immediate(q.about, q.way)
    /\ deps' = {}
    /\ UNCHANGED <<cfg, ipostdom, graph, visited>>

PopOnce(n) ==        \* mutant: the neighbours of what was popped are not added
    /\ n \in worklist
    /\ worklist' = worklist \ {n}
    /\ deps' = deps \cup {n}
    /\ UNCHANGED <<cfg, ipostdom, graph, visited, query>>

Pop(n) ==
    /\ n \in worklist
    /\ deps' = deps \cup {n}
    /\ worklist' = (worklist \ {n}) \cup (Immediate(n, query.way) \ deps')
    /\ UNCHANGED <<cfg, ipostdom, graph, visited, query>>

Next ==
    \/ \E x \in CFGNode : Visit(x)
    \/ \E q \in Question : Ask(q)
    \/ \E n \in CFGNode : Pop(n)

Spec == Init /\ [][Next]_vars

(* is_control_dependent, on an empty path too only when there is a cycle.  *)
is_control_dependent(a, b) ==
    IF a # b THEN Reaches(graph, a, b)
    ELSE \E succ \in Succs(graph, a) : Reaches(graph, succ, a)

-----------------------------------------------------------------------------
Postdominates(a, b) == Dominates(Reversed(cfg), Return, a, b)

(* Control dependence as it is defined: y decides whether x is executed.   *)
(* Going one way out of y leads to x for sure, while y has another way to  *)
(* the end of the function that avoids it.                                 *)
DependsOn(x, y) ==
    /\ \E s \in Succs(cfg, y) : Returns(s) /\ Postdominates(x, s)
    /\ ~(x # y /\ Postdominates(x, y))

(* What a node has once it was visited is final and exactly right, however *)
(* the graph loops and branches.                                           *)
DependenceExact ==
    \A x \in visited : Succs(graph, x) = {y \in InTree : DependsOn(x, y)}

(* The transitive questions get one answer: the iterators yield the blocks *)
(* is_control_dependent says yes to, a block itself included only when it  *)
(* is on a cycle of dependences.                                           *)
AnswersAgree ==
    query # None /\ worklist = {} =>
        deps = {n \in CFGNode :
                  IF query.way = "dependencies" THEN is_control_dependent(query.about, n)
                  ELSE is_control_dependent(n, query.about)}
=============================================================================
