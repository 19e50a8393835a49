---------------------------- MODULE MCDynablock ----------------------------
(***************************************************************************)
(* Small instances of Dynablock.  Address 1 starts a block that covers     *)
(* pages 1 and 2 and has a son at address 2, in page 2; address 3 lies in  *)
(* box64_nodynarec_start..end.                                             *)
(***************************************************************************)
EXTENDS Dynablock, TLC

MCFirstPage == [a \in Addr |-> IF a = 2 /\ 2 \in Page THEN 2 ELSE 1]
MCPagesOf == [a \in Addr |-> IF a = 1 THEN Page ELSE {MCFirstPage[a]}]
MCSonsOf == [a \in Addr |-> IF a = 1 THEN {2} \cap Addr ELSE {}]

Cells == Permutations(Block) \cup Permutations(Content)
ThreadsAndCells == Cells \cup Permutations(Thread)
=============================================================================
