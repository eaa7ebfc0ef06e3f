------------------------ MODULE MCControlDependence ------------------------
(* Every function of a few blocks, up to their names.                       *)
EXTENDS ControlDependence, TLC

CONSTANTS entry, b1, b2, b3, return

Renaming == Permutations(Block \ {Entry})
=============================================================================
