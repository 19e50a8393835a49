----------------------------- MODULE CustomMem -----------------------------
(***************************************************************************)
(* The allocator of box64's own tables in src/custommem.c: customMalloc,   *)
(* customCalloc, customRealloc and customFree over a growing list of       *)
(* blocks (p_blocks), each cut up by a chain of marks.  khash calls them   *)
(* (kmalloc, kcalloc, krealloc, kfree of include/custommem.h) for every    *)
(* hash table of the program.                                              *)
(*                                                                         *)
(* A call runs under mutex_blocks from start to end, so it is one step,    *)
(* but customRealloc drops the lock between its attempt to keep the chunk, *)
(* the new allocation, and the copy and free of the old chunk.             *)
(***************************************************************************)
EXTENDS BlockChain, Sequences

CONSTANTS
  Threads,
  BlockSize,    \* MMAPSIZE: bytes of a new block
  Align,        \* expandBlock rounds a size up to this many bytes (4)
  Sizes,        \* the sizes khash asks for: multiples of Align, above 0
  MaxBlocks     \* bound: blocks the list may grow to

ASSUME CustomMemAssumption ==
  /\ BlockSize \in Nat /\ Align \in Nat \ {0} /\ MaxBlocks \in Nat
  /\ BlockSize > 2 * MarkSize
  /\ Sizes \subseteq Nat \ {0}
  /\ \A n \in Sizes : n % Align = 0

VARIABLES
  blocks,   \* p_blocks: size, maxfree and the chain of each block
  chunks,   \* the chunks the callers hold: pointer -> size asked for
  realloc   \* thread -> the step of customRealloc it is at

vars == <<blocks, chunks, realloc>>

Idle == [at |-> "idle"]

Init ==
  /\ blocks = <<>>
  /\ chunks = [p \in {} |-> 0]
  /\ realloc = [t \in Threads |-> Idle]

-----------------------------------------------------------------------------
(* maxfree is computed again when the largest free subblock was used.      *)
Refresh(b, rsize, mk) ==
  [b EXCEPT !.mk = mk,
            !.maxfree = IF rsize = @ THEN GetMaxFreeBack(mk, b.size) ELSE @]

(* The blocks customMalloc tries: maxfree says that size bytes fit.        *)
Fits(i, size) ==
  /\ blocks[i].maxfree >= size
  /\ GetFirstBlock(blocks[i].mk, size, 0) # NoSub

(* customMalloc: the first block with room, else a new one.  The result is *)
(* the new list and the pointer.                                           *)
MallocIn(i, size) ==
  LET mk == blocks[i].mk
      s  == GetFirstBlock(mk, size, 0)
  IN [blocks |-> [blocks EXCEPT ![i] = Refresh(@, mk[s].next.size, AllocBlock(mk, s, size))],
      p |-> <<i, s + MarkSize>>]

NewBlockSize(size) ==
  IF size + 2 * MarkSize > BlockSize THEN size + 2 * MarkSize ELSE BlockSize

MallocNew(size) ==
  LET bsize == NewBlockSize(size)
      mk    == AllocBlock(NewChain(bsize), 0, size)
  IN [blocks |-> Append(blocks, [size |-> bsize, maxfree |-> GetMaxFreeBack(mk, bsize), mk |-> mk]),
      p |-> <<Len(blocks) + 1, MarkSize>>]

Room(size) == {i \in DOMAIN blocks : Fits(i, size)}
CanMalloc(size) == Room(size) # {} \/ Len(blocks) < MaxBlocks

CustomMalloc(size) ==
  IF Room(size) # {}
  THEN MallocIn(CHOOSE i \in Room(size) : \A j \in Room(size) : i <= j, size)
  ELSE MallocNew(size)

(* customFree of the subblock that holds p.                                *)
Released(b, s) ==
  LET new == FreeBlock(b.mk, s)
      got == new[FreedAt(b.mk, s)].next.size
  IN [b EXCEPT !.mk = new, !.maxfree = IF b.maxfree < got THEN got ELSE b.maxfree]
CustomFree(p) == [blocks EXCEPT ![p[1]] = Released(@, p[2] - MarkSize)]

Hold(p, size) == [q \in DOMAIN chunks \cup {p} |-> IF q = p THEN size ELSE chunks[q]]
Drop(p) == [q \in DOMAIN chunks \ {p} |-> chunks[q]]

-----------------------------------------------------------------------------
(* customMalloc(size), and customCalloc, which also clears the chunk.      *)
Malloc(t, size) ==
  /\ realloc[t] = Idle
  /\ CanMalloc(size)
  /\ blocks' = CustomMalloc(size).blocks
  /\ chunks' = Hold(CustomMalloc(size).p, size)
  /\ UNCHANGED realloc

(* A thread frees and resizes only what nobody is resizing.                *)
Unused(p) == \A u \in Threads : realloc[u] # Idle => p \notin {realloc[u].old, realloc[u].new}

(* customFree(p)                                                           *)
FreeChunk(t, p) ==
  /\ realloc[t] = Idle
  /\ p \in DOMAIN chunks /\ Unused(p)
  /\ blocks' = CustomFree(p)
  /\ chunks' = Drop(p)
  /\ UNCHANGED realloc

(* sizeBlock of the subblock that holds p.                                 *)
SizeBlock(p) == blocks[p[1]].mk[p[2] - MarkSize].next.size

(* Mutant of BigEnough: the answer for a filled neighbour is 1.            *)
BigEnoughAlways(have, size) == TRUE
(* Mutant of BigEnough: a chunk that is larger than asked is moved too.    *)
BigEnoughExact(have, size) == have = ((size + Align - 1) \div Align) * Align
(* expandBlock: the chunk is kept if it is large enough.  The test that    *)
(* follows looks at the fill bit of the chunk itself, which is set, so a   *)
(* chunk never grows into the free subblock behind it.                     *)
BigEnough(have, size) == have >= ((size + Align - 1) \div Align) * Align

Recomputed(b) == [b EXCEPT !.maxfree = GetMaxFreeBack(b.mk, b.size)]

(* customRealloc(p, size): keep the chunk, or go on without the lock.      *)
ReallocTry(t, p, size) ==
  /\ realloc[t] = Idle
  /\ p \in DOMAIN chunks /\ Unused(p)
  /\ \/ /\ BigEnough(SizeBlock(p), size)
        /\ blocks' = [blocks EXCEPT ![p[1]] = Recomputed(@)]
        /\ chunks' = Hold(p, size)
        /\ UNCHANGED realloc
     \/ /\ ~BigEnough(SizeBlock(p), size)
        /\ realloc' = [realloc EXCEPT ![t] = [at |-> "malloc", old |-> p, new |-> p, size |-> size]]
        /\ UNCHANGED <<blocks, chunks>>

ReallocMalloc(t) ==
  /\ realloc[t].at = "malloc"
  /\ CanMalloc(realloc[t].size)
  /\ LET r == CustomMalloc(realloc[t].size) IN
     /\ blocks' = r.blocks
     /\ chunks' = Hold(r.p, realloc[t].size)
     /\ realloc' = [realloc EXCEPT ![t].at = "copy", ![t].new = r.p]

(* memcpy of sizeBlock(old) bytes, a size that is read without the lock,   *)
(* and customFree of the old chunk.                                        *)
ReallocCopy(t) ==
  /\ realloc[t].at = "copy"
  /\ blocks' = CustomFree(realloc[t].old)
  /\ chunks' = Drop(realloc[t].old)
  /\ realloc' = [realloc EXCEPT ![t] = Idle]

Next ==
  \E t \in Threads :
    \/ \E size \in Sizes :
         \/ Malloc(t, size)
         \/ \E p \in DOMAIN chunks : ReallocTry(t, p, size)
    \/ \E p \in DOMAIN chunks : FreeChunk(t, p)
    \/ ReallocMalloc(t)
    \/ ReallocCopy(t)

Spec == Init /\ [][Next]_vars

-----------------------------------------------------------------------------
(* Type invariant.                                                         *)
TypeOK ==
  /\ \A i \in DOMAIN blocks :
       /\ blocks[i].size \in Nat /\ blocks[i].maxfree \in 0 .. blocks[i].size
       /\ DOMAIN blocks[i].mk \subseteq 0 .. blocks[i].size
       /\ \A m \in DOMAIN blocks[i].mk : blocks[i].mk[m] \in [prev : Half, next : Half]
  /\ \A p \in DOMAIN chunks : p[1] \in DOMAIN blocks /\ chunks[p] \in Sizes
  /\ \A t \in Threads : realloc[t].at \in {"idle", "malloc", "copy"}

(* After any sequence of customMalloc, customRealloc and customFree the    *)
(* marks of every block form one chain from its start to its end: the two  *)
(* marks around a subblock agree about it and free neighbours are merged.  *)
ChainsSound == \A i \in DOMAIN blocks : ChainSound(blocks[i].mk, blocks[i].size)

(* The filled subblocks are exactly the chunks the callers hold, each with *)
(* room for what was asked: nothing is lost when a chunk moves, and no     *)
(* mark lies inside a chunk.                                               *)
FilledIsHeld ==
  \A i \in DOMAIN blocks :
    LET mk == blocks[i].mk IN
    /\ {m \in DOMAIN mk : mk[m].next.fill}
         = {p[2] - MarkSize : p \in {q \in DOMAIN chunks : q[1] = i}}
    /\ \A p \in DOMAIN chunks :
         p[1] = i => mk[p[2] - MarkSize].next.size >= chunks[p]

(* The blocks after any sequence of calls of several threads, the steps of *)
(* customRealloc in between: the types, the chains and what they stand for.*)
BlocksSound == TypeOK /\ ChainsSound /\ FilledIsHeld

(* maxfree of a block is what the block has: it never promises more than   *)
(* the largest free subblock, and never less than it when that is worth a  *)
(* mark.  customMalloc skips a block on the word of maxfree alone, and     *)
(* grows the process if it is too low.                                     *)
MaxFreeTrue ==
  \A i \in DOMAIN blocks :
    LET mk   == blocks[i].mk
        free == FreeSizes(mk)
    IN /\ \E n \in free : blocks[i].maxfree <= n
       /\ \A n \in free : n >= MarkSize => n <= blocks[i].maxfree

(* The memcpy of customRealloc copies the whole old subblock, not what the *)
(* caller asked for: it must stay inside the new subblock.                 *)
CopyFits ==
  [][\A t \in Threads :
       realloc[t].at = "copy" /\ realloc'[t] = Idle =>
         SizeBlock(realloc[t].old) <= SizeBlock(realloc[t].new)]_vars

Chunks == INSTANCE Allocator
(* The chunks never overlap and change only by the caller's calls: the     *)
(* allocator implements the abstract one.                                  *)
ImplementsAllocator == Chunks!Spec
=============================================================================
