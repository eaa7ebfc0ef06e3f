-------------------------- MODULE MCDominatorTree --------------------------
(* Every graph on the entry and a few more nodes, up to the names of those. *)
EXTENDS DominatorTree, TLC

CONSTANTS entry, n1, n2, n3, n4

(* One node may have an edge to itself, and has none from the entry: where  *)
(* all nodes have one, all are children of the entry.                       *)
MCEdge == {e \in Node \X (Node \ {Entry}) : e[1] = e[2] => e[1] = n1} \ {<<Entry, n1>>}

Renaming == Permutations(Node \ {Entry, n1})
=============================================================================
