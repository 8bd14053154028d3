------------------------------ MODULE MCJServer -------------------------------
(***************************************************************************)
(* JServer with interchangeable memory blocks: the actions only compare    *)
(* blocks, so permuting them permutes behaviours.  (Init names one block   *)
(* with CHOOSE; any other gives the same behaviours up to the permutation.)*)
(***************************************************************************)
EXTENDS JServer, TLC

BlockSymmetry == Permutations(Block)
===============================================================================
