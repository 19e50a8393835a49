----------------------------- MODULE MCMemProt -----------------------------
(***************************************************************************)
(* Small instances of MemProt: the protections a program asks for.         *)
(***************************************************************************)
EXTENDS MemProt

(* Every combination that makes a difference.                              *)
AllProts == {{}, {"R"}, {"R", "X"}, {"W"}, {"R", "W", "X"}}
(* A program that never asks for an executable page that is not writable.  *)
WritableCode == {{}, {"R"}, {"R", "W"}, {"R", "W", "X"}}
=============================================================================
