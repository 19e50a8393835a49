---------------------------- MODULE MappedPages ----------------------------
(***************************************************************************)
(* What the map of guest memory (addMapMem, removeMapMem, custommem.c)     *)
(* promises: a set of pages, to which each call adds, or from which it     *)
(* removes, the pages it names.  The pages below LOWEST are never handed   *)
(* out: a call about them alone does nothing, and a range that starts at 0 *)
(* starts at LOWEST instead.                                               *)
(***************************************************************************)
EXTENDS Integers

CONSTANTS NPages,   \* pages of the address space
          Lowest    \* LOWEST, as a page number

Page == 0 .. NPages - 1

VARIABLES
  mapped,  \* the pages in use
  call     \* the last call: its name and its first and last page

vars == <<mapped, call>>

Sane(b) == IF b = 0 THEN Lowest ELSE b
Zone(b, e) == IF e < Lowest THEN {} ELSE Sane(b) .. e

Init ==
  /\ mapped = 0 .. Lowest - 1
  /\ call = [fn |-> "none", begin |-> 0, end |-> 0]

Add(b, e) ==
  /\ call' = [fn |-> "add", begin |-> b, end |-> e]
  /\ mapped' = mapped \cup Zone(b, e)

Remove(b, e) ==
  /\ call' = [fn |-> "remove", begin |-> b, end |-> e]
  /\ mapped' = mapped \ Zone(b, e)

Next == \E b, e \in Page : b <= e /\ (Add(b, e) \/ Remove(b, e))

Spec == Init /\ [][Next]_vars
=============================================================================
