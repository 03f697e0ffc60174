------------------------------- MODULE MCRollup -------------------------------
(* Instances of Rollup on small process trees.                               *)
EXTENDS Rollup, MCTrees
=============================================================================
