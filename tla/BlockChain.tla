----------------------------- MODULE BlockChain -----------------------------
(***************************************************************************)
(* The chain of marks that src/custommem.c keeps inside a block of memory  *)
(* to cut it into subblocks (blockmark_t and the functions that walk, cut  *)
(* and merge).  Two users share it: the allocator of box64's own tables    *)
(* (CustomMem) and the memory for native code (DynarecMap).                *)
(*                                                                         *)
(* A chain is a function from the offsets that hold a mark to the mark.    *)
(* Each half of a mark (mark_t) has the size of the subblock on that side  *)
(* and whether it is filled; a half that is all zero (x32 = 0) ends the    *)
(* walk on that side.  A mark that a merge drops becomes plain memory, so  *)
(* it leaves the domain: a walk that would still use it has no value.      *)
(***************************************************************************)
EXTENDS Integers

CONSTANT MarkSize   \* sizeof(blockmark_t), 8 bytes

ASSUME MarkSizeAssumption == MarkSize \in Nat \ {0}

Half == [size : Nat, fill : BOOLEAN]
Zero == [size |-> 0, fill |-> FALSE]
X32(h) == h # Zero   \* the word is not zero
Free(n) == [size |-> n, fill |-> FALSE]
Filled(n) == [size |-> n, fill |-> TRUE]

NoSub == -1   \* NULL

NextBlock(mk, m) == m + mk[m].next.size + MarkSize
PrevBlock(mk, m) == m - mk[m].prev.size - MarkSize
LastBlock(bsize) == bsize - MarkSize

(* The two marks of a new block of bsize bytes: one free subblock.         *)
NewChain(bsize) ==
  [m \in {0, LastBlock(bsize)} |->
     IF m = 0 THEN [prev |-> Zero, next |-> Free(bsize - 2 * MarkSize)]
              ELSE [prev |-> Free(bsize - 2 * MarkSize), next |-> Zero]]

(* The subblocks from start on, as the walks of the code meet them.        *)
Subblocks(mk, start) ==
  LET walk[m \in DOMAIN mk] ==
        IF X32(mk[m].next) THEN {m} \cup walk[NextBlock(mk, m)] ELSE {}
  IN walk[start]

(* The first free subblock of at least maxsize bytes from start on.        *)
GetFirstBlock(mk, maxsize, start) ==
  LET walk[m \in DOMAIN mk] ==
        IF ~X32(mk[m].next) THEN NoSub
        ELSE IF ~mk[m].next.fill /\ mk[m].next.size >= maxsize THEN m
        ELSE walk[NextBlock(mk, m)]
  IN walk[start]

(* A free subblock smaller than a mark is not worth reporting.             *)
Worth(n) == IF n >= MarkSize THEN n ELSE 0

(* The largest free subblock, looking forward from start.                  *)
GetMaxFreeFrom(mk, start) ==
  LET walk[m \in DOMAIN mk] ==
        [best \in Nat |->
          IF ~X32(mk[m].next) THEN Worth(best)
          ELSE walk[NextBlock(mk, m)][IF ~mk[m].next.fill /\ mk[m].next.size > best
                                      THEN mk[m].next.size ELSE best]]
  IN walk[start][0]

(* Mutant of GetMaxFreeBack: the walk stops at the first filled subblock.  *)
GetMaxFreeBackStopsEarly(mk, bsize) ==
  LET walk[m \in DOMAIN mk] ==
        [best \in Nat |->
          IF ~X32(mk[m].prev) \/ mk[m].prev.fill THEN Worth(best)
          ELSE walk[PrevBlock(mk, m)][mk[m].prev.size]]
  IN walk[LastBlock(bsize)][0]
(* The largest free subblock, looking backwards from the end and giving up *)
(* when less than the best found so far is left before the mark.           *)
GetMaxFreeBack(mk, bsize) ==
  LET walk[m \in DOMAIN mk] ==
        [best \in Nat |->
          IF ~X32(mk[m].prev) THEN Worth(best)
          ELSE IF mk[m].prev.fill \/ mk[m].prev.size <= best
               THEN walk[PrevBlock(mk, m)][best]
          ELSE IF mk[m].prev.size > m THEN Worth(mk[m].prev.size)
          ELSE walk[PrevBlock(mk, m)][mk[m].prev.size]]
  IN walk[LastBlock(bsize)][0]

(* A new mark is worth it only if more than two marks are left.            *)
CutSize(have, size) == IF have > size + 2 * MarkSize THEN size ELSE have

(* allocBlock: fill the subblock at s, cut to size if that is worth it.    *)
AllocBlock(mk, s, size) ==
  LET n    == NextBlock(mk, s)
      got  == CutSize(mk[s].next.size, size)
      m    == s + got + MarkSize
      rest == Free(n - m - MarkSize)
  IN IF m = n
     THEN [mk EXCEPT ![s].next = Filled(got), ![n].prev.fill = TRUE]
     ELSE [x \in DOMAIN mk \cup {m} |->
             CASE x = m -> [prev |-> Filled(got), next |-> rest]
               [] x = s -> [mk[s] EXCEPT !.next = Filled(got)]
               [] x = n -> [mk[n] EXCEPT !.prev = rest]
               [] OTHER -> mk[x]]

(* allocBlock with pstart: the first free subblock, or the end, from f on. *)
NextFree(mk, f) ==
  LET walk[m \in DOMAIN mk] == IF mk[m].next.fill THEN walk[NextBlock(mk, m)] ELSE m
  IN walk[f]

(* Mutant of MergesPrev: the subblock before is never looked at.           *)
MergesPrevNever(mk, s) == FALSE
(* Mutant of MergesPrev: a filled subblock before is merged as well.       *)
MergesPrevFilled(mk, s) == X32(mk[s].prev)
MergesPrev(mk, s) == X32(mk[s].prev) /\ ~mk[s].prev.fill
MergesNext(mk, n) == X32(mk[n].next) /\ ~mk[n].next.fill

(* freeBlock: mark s free, merge it with a free neighbour on either side.  *)
(* FreedAt is the subblock s is part of afterwards.                        *)
FreedAt(mk, s) == IF MergesPrev(mk, s) THEN PrevBlock(mk, s) ELSE s
FreeBlock(mk, s) ==
  LET n    == NextBlock(mk, s)
      f    == FreedAt(mk, s)
      e    == IF MergesNext(mk, n) THEN NextBlock(mk, n) ELSE n
      gone == ({s} \ {f}) \cup ({n} \ {e})
      whole == Free(mk[s].next.size
                    + (IF f = s THEN 0 ELSE mk[f].next.size + MarkSize)
                    + (IF e = n THEN 0 ELSE mk[n].next.size + MarkSize))
  IN [x \in DOMAIN mk \ gone |->
        CASE x = f -> [mk[f] EXCEPT !.next = whole]
          [] x = e -> [mk[e] EXCEPT !.prev = whole]
          [] OTHER -> mk[x]]

-----------------------------------------------------------------------------
(* What a chain of a block of bsize bytes has to be: it ends at the last   *)
(* mark, every mark is on it, neighbouring marks agree about the subblock  *)
(* between them, and no two free subblocks touch.                          *)
ChainSound(mk, bsize) ==
  LET subs == Subblocks(mk, 0)
      last == LastBlock(bsize)
  IN /\ DOMAIN mk = subs \cup {last}
     /\ last \notin subs
     /\ ~X32(mk[last].next) /\ ~X32(mk[0].prev)
     /\ \A m \in subs :
          LET n == NextBlock(mk, m) IN
          /\ n \in DOMAIN mk
          /\ mk[n].prev = mk[m].next
          /\ X32(mk[n].next) => (mk[m].next.fill \/ mk[n].next.fill)

FreeSizes(mk) == {mk[m].next.size : m \in {x \in DOMAIN mk : ~mk[x].next.fill}}
=============================================================================
