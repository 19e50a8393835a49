------------------------------ MODULE MCMapMem ------------------------------
(* Small instances of MapMem.                                              *)
EXTENDS MapMem
=============================================================================
