---------------------------- MODULE MCCustomMem ----------------------------
(* Small instances of CustomMem.                                           *)
EXTENDS CustomMem
=============================================================================
