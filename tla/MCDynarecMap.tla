---------------------------- MODULE MCDynarecMap ----------------------------
(* Small instances of DynarecMap.  The dynablocks are interchangeable.     *)
EXTENDS DynarecMap, TLC

Symmetry == Permutations(Dynablocks)
=============================================================================
