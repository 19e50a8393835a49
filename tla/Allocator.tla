----------------------------- MODULE Allocator -----------------------------
(***************************************************************************)
(* What an allocator promises: chunks of memory that never overlap.  A     *)
(* chunk stays where it is, with the size it was asked for, until its      *)
(* owner gives it back or asks for another size.                           *)
(***************************************************************************)
EXTENDS Integers

VARIABLE chunks   \* the live chunks: a function from <<block, address>> to the size

Overlap(p, m, q, n) == p[1] = q[1] /\ p[2] < q[2] + n /\ q[2] < p[2] + m

Init == chunks = [p \in {} |-> 0]

(* A chunk of n bytes at p, clear of every other chunk.                    *)
Give(p, n) ==
  /\ \A q \in DOMAIN chunks \ {p} : ~Overlap(p, n, q, chunks[q])
  /\ chunks' = [q \in DOMAIN chunks \cup {p} |-> IF q = p THEN n ELSE chunks[q]]

Alloc == \E p \in DOMAIN chunks' \ DOMAIN chunks : Give(p, chunks'[p])

Resize == \E p \in DOMAIN chunks : p \in DOMAIN chunks' /\ Give(p, chunks'[p])

TakeBack == \E p \in DOMAIN chunks : chunks' = [q \in DOMAIN chunks \ {p} |-> chunks[q]]

Next == Alloc \/ Resize \/ TakeBack

Spec == Init /\ [][Next]_chunks

(* An allocator without realloc: a chunk never changes its size.           *)
FixedSpec == Init /\ [][Alloc \/ TakeBack]_chunks
=============================================================================
