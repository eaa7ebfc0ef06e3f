--------------------------- MODULE DominatorTree ---------------------------
(***************************************************************************)
(* DomTreeBuilder (llvm-ir-analysis/src/dominator_tree.rs): the iterative  *)
(* construction of the immediate dominators of a control flow graph, and,  *)
(* of the reversed graph, of the immediate postdominators.                 *)
(*                                                                         *)
(* In both graphs the entry has no predecessor: LLVM allows no branch to   *)
(* the entry block, and Return, the entry of a reversed graph, has no      *)
(* successor.  petgraph's Dfs visits the same nodes in the same order each *)
(* of the three times it is run; which of the depth-first orders that is   *)
(* depends on how the graph was built, and any is allowed here.            *)
(***************************************************************************)
EXTENDS FlowGraph, FiniteSetsExt

CONSTANTS Node, Entry, None,
          Edge          \* the edges a graph may have

ASSUME EdgeAssumption ==
    /\ Entry \in Node /\ None \notin Node
    /\ Edge \subseteq Node \X (Node \ {Entry})

VARIABLES edges,        \* cfg.graph
          rpo_numbers,  \* of the nodes Dfs has reached
          idoms,        \* the current estimates, None for the entry
          changed,
          block,        \* the number of the block the running loop is at
          pc

vars == <<edges, rpo_numbers, idoms, changed, block, pc>>

Reached == DOMAIN rpo_numbers

Numbered(i) == CHOOSE n \in Reached : rpo_numbers[n] = i

Put(f, key, value) ==
    [x \in DOMAIN f \cup {key} |-> IF x = key THEN value ELSE f[x]]

TypeOK ==
    /\ edges \subseteq Edge
    /\ Reached \subseteq Node
    /\ rpo_numbers \in [Reached -> 1..Cardinality(Reached)]
    /\ DOMAIN idoms \subseteq Reached
    /\ idoms \in [DOMAIN idoms -> Reached \cup {None}]
    /\ changed \in BOOLEAN
    /\ block \in 0..Cardinality(Reached) + 1
    /\ pc \in {"number", "estimate", "while", "for", "done"}

Init ==
    /\ edges \in SUBSET Edge
    /\ rpo_numbers = [n \in {Entry} |-> 1]
    /\ idoms = [n \in {} |-> None]
    /\ changed = TRUE
    /\ block = 0
    /\ pc = "number"

-----------------------------------------------------------------------------
(* Dfs goes on from the latest node that has a successor left.             *)
Unnumbered(n) == Succs(edges, n) \ Reached

Pending == {n \in Reached : Unnumbered(n) # {}}

NumberAny(n) ==         \* mutant: unreachable nodes are numbered too
    /\ pc = "number" /\ Pending # {}
    /\ n \in Nodes(edges) \ Reached
    /\ rpo_numbers' = Put(rpo_numbers, n, Cardinality(Reached) + 1)
    /\ UNCHANGED <<edges, idoms, changed, block, pc>>

NumberPushes(n) ==      \* mutant: counts what Dfs pushed, not what it visited
    /\ pc = "number" /\ Pending # {}
    /\ LET latest == CHOOSE m \in Pending : \A k \in Pending : rpo_numbers[k] <= rpo_numbers[m]
       IN  /\ n \in Unnumbered(latest)
           /\ rpo_numbers' = Put(rpo_numbers, n,
                                 Cardinality(Reached) + Cardinality(Unnumbered(latest)))
    /\ UNCHANGED <<edges, idoms, changed, block, pc>>

Number(n) ==
    /\ pc = "number" /\ Pending # {}
    /\ LET latest == CHOOSE m \in Pending : \A k \in Pending : rpo_numbers[k] <= rpo_numbers[m]
       IN  n \in Unnumbered(latest)
    /\ rpo_numbers' = Put(rpo_numbers, n, Cardinality(Reached) + 1)
    /\ UNCHANGED <<edges, idoms, changed, block, pc>>

AllNumbered ==
    /\ pc = "number" /\ Pending = {}
    /\ block' = 1
    /\ pc' = "estimate"
    /\ UNCHANGED <<edges, rpo_numbers, idoms, changed>>

-----------------------------------------------------------------------------
CommonDominatorTooHigh(node_a, node_b) ==   \* mutant: both nodes climb
    LET climb[a \in DOMAIN idoms, b \in DOMAIN idoms] ==
          CASE a = b -> a
            [] OTHER -> IF rpo_numbers[a] = 1 \/ rpo_numbers[b] = 1 THEN Entry
                        ELSE climb[idoms[a], idoms[b]]
    IN  climb[node_a, node_b]

(* The node with the larger number climbs to its estimate until both meet. *)
CommonDominator(node_a, node_b) ==
    LET climb[at \in (DOMAIN idoms) \X (DOMAIN idoms)] ==
          CASE rpo_numbers[at[1]] < rpo_numbers[at[2]] -> climb[<<at[1], idoms[at[2]]>>]
            [] rpo_numbers[at[1]] > rpo_numbers[at[2]] -> climb[<<idoms[at[1]], at[2]>>]
            [] OTHER -> at[1]
    IN  climb[<<node_a, node_b>>]

(* The predecessors that have an estimate already.                         *)
ReachablePreds(b) == Preds(edges, b) \cap DOMAIN idoms

ComputeIdomLatest(b) ==     \* mutant: the predecessor with the largest number
    IF b = Entry THEN None
    ELSE CHOOSE p \in ReachablePreds(b) :
            \A q \in ReachablePreds(b) : rpo_numbers[q] <= rpo_numbers[p]

ComputeIdom(b) ==
    IF b = Entry THEN None
    ELSE LET first == CHOOSE p \in ReachablePreds(b) : TRUE
         IN  FoldSet(CommonDominator, first, ReachablePreds(b) \ {first})

Estimate ==
    /\ pc = "estimate" /\ block <= Cardinality(Reached)
    /\ idoms' = Put(idoms, Numbered(block), ComputeIdom(Numbered(block)))
    /\ block' = block + 1
    /\ UNCHANGED <<edges, rpo_numbers, changed, pc>>

AllEstimated ==
    /\ pc = "estimate" /\ block > Cardinality(Reached)
    /\ pc' = "while"
    /\ UNCHANGED <<edges, rpo_numbers, idoms, changed, block>>

StartPass ==
    /\ pc = "while" /\ changed
    /\ changed' = FALSE
    /\ block' = 1
    /\ pc' = "for"
    /\ UNCHANGED <<edges, rpo_numbers, idoms>>

ReviseOverwritesFlag ==     \* mutant: changed = this block's result
    /\ pc = "for" /\ block <= Cardinality(Reached)
    /\ LET b == Numbered(block)
       IN  /\ idoms' = [idoms EXCEPT ![b] = ComputeIdom(b)]
           /\ changed' = (ComputeIdom(b) # idoms[b])
    /\ block' = block + 1
    /\ UNCHANGED <<edges, rpo_numbers, pc>>

Revise ==
    /\ pc = "for" /\ block <= Cardinality(Reached)
    /\ LET b == Numbered(block)
       IN  /\ idoms' = [idoms EXCEPT ![b] = ComputeIdom(b)]
           /\ changed' = (changed \/ ComputeIdom(b) # idoms[b])
    /\ block' = block + 1
    /\ UNCHANGED <<edges, rpo_numbers, pc>>

EndPass ==
    /\ pc = "for" /\ block > Cardinality(Reached)
    /\ pc' = "while"
    /\ UNCHANGED <<edges, rpo_numbers, idoms, changed, block>>

LeaveLoop ==
    /\ pc = "while" /\ ~changed
    /\ pc' = "done"
    /\ UNCHANGED <<edges, rpo_numbers, idoms, changed, block>>

Next ==
    \/ \E n \in Node : Number(n)
    \/ AllNumbered
    \/ Estimate
    \/ AllEstimated
    \/ StartPass
    \/ Revise
    \/ EndPass
    \/ LeaveLoop

Spec == Init /\ [][Next]_vars

(* What the builder returns, and the questions DominatorTree answers by it *)
(* (PostDominatorTree the same, about a reversed graph).                   *)
tree == {<<idoms[b], b>> : b \in {n \in DOMAIN idoms : idoms[n] # None}}

children(n) == Succs(tree, n)

dominates(node_a, node_b) == Reaches(tree, node_a, node_b)

-----------------------------------------------------------------------------
(* What the two `expect`s of the builder claim, and what keeps the loop of *)
(* common_dominator finite: the block a loop is at has a predecessor with  *)
(* an estimate, and every estimate but the entry's has a smaller number.   *)
NeverStuck ==
    /\ pc \in {"estimate", "for"} /\ block \in 2..Cardinality(Reached) =>
          ReachablePreds(Numbered(block)) # {}
    /\ \A b \in DOMAIN idoms \ {Entry} : rpo_numbers[idoms[b]] < rpo_numbers[b]

(* The estimates err on one side only: while the loop runs, whatever       *)
(* dominates a block is above it in the tree of the estimates.             *)
Above ==
    \A a, b \in DOMAIN idoms : Dominates(edges, Entry, a, b) => dominates(a, b)

(* When the loop ends, each reachable block is a child of its immediate    *)
(* dominator and of nothing else, and `dominates` says of two of them what *)
(* the paths of the graph say, although the numbers are those of a         *)
(* depth-first preorder and not the reverse postorder that the algorithm's *)
(* authors number blocks in.                                               *)
TreeIsDominance ==
    pc = "done" =>
        /\ \A b \in Reached \ {Entry}, a \in Reached :
              b \in children(a) <=> IsImmediateDominator(edges, Entry, a, b)
        /\ \A a, b \in Reached : dominates(a, b) <=> Dominates(edges, Entry, a, b)

(* A revision moves an estimate towards the entry and never back, so the   *)
(* passes must come to an end.                                             *)
EstimatesRise ==
    [][\A b \in DOMAIN idoms :
          idoms'[b] # idoms[b] => rpo_numbers[idoms'[b]] < rpo_numbers[idoms[b]]]_vars
=============================================================================
