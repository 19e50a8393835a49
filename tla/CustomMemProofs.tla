-------------------------- MODULE CustomMemProofs --------------------------
(***************************************************************************)
(* The allocator of box64's own tables, for any number of threads, sizes   *)
(* and blocks: the chains stay sound and hold exactly the chunks of the    *)
(* callers, maxfree is right, realloc copies no more than fits, and chunks *)
(* never overlap (CustomMem implements Allocator).                         *)
(***************************************************************************)
EXTENDS CustomMem, ChainProofs

(* A block: its chain is sound and maxfree is what the chain has.          *)
BlockSound(b) ==
  /\ b = [size |-> b.size, maxfree |-> b.maxfree, mk |-> b.mk]
  /\ b.size \in Nat /\ LastBlock(b.size) # 0
  /\ Chained(b.mk, LastBlock(b.size))
  /\ MaxFreeOK(b.mk, LastBlock(b.size), b.maxfree)

ListSound(bs) == IsList(bs) /\ \A i \in DOMAIN bs : BlockSound(bs[i])

(* The chunks of the callers are the filled subblocks, with room for what  *)
(* was asked.                                                              *)
HeldIn(bs, ck) ==
  /\ DOMAIN ck = FilledIn(bs)
  /\ \A p \in DOMAIN ck : ck[p] \in Sizes /\ SizeIn(bs, p) >= ck[p]
ChunksHeld == HeldIn(blocks, chunks)

(* A thread in customRealloc holds the old chunk, too small for what it    *)
(* asked, and the new one once it has it; nobody else resizes either.      *)
Resizing == [at : {"malloc", "copy"}, old : DOMAIN chunks, new : DOMAIN chunks, size : Sizes]
Holding(t, r) ==
  /\ SizeIn(blocks, r.old) < r.size
  /\ r.at = "malloc" => r.new = r.old
  /\ r.at = "copy" => r.new # r.old /\ chunks[r.new] = r.size
  /\ \A u \in Threads : u # t /\ realloc[u] # Idle =>
       {r.old, r.new} \cap {realloc[u].old, realloc[u].new} = {}
ReallocOK ==
  /\ realloc \in [Threads -> {Idle} \cup Resizing]
  /\ \A t \in Threads : realloc[t] # Idle => Holding(t, realloc[t])

ArenaInv == ListSound(blocks) /\ ChunksHeld /\ ReallocOK

-----------------------------------------------------------------------------
(* The blocks of the list are chains.                                      *)
LEMMA ListChained ==
  ASSUME NEW bs, ListSound(bs)
  PROVE  AllChained(bs)
BY DEF ListSound, BlockSound, AllChained

(* A block of a sound list replaced by a sound block.                      *)
LEMMA BlockReplaced ==
  ASSUME NEW bs, ListSound(bs), NEW i \in DOMAIN bs, NEW b, BlockSound(b),
         NEW new, new = [bs EXCEPT ![i] = b]
  PROVE  /\ ListSound(new) /\ DOMAIN new = DOMAIN bs
         /\ new[i] = b /\ \A j \in DOMAIN bs : j # i => new[j] = bs[j]
BY ListChanged DEF ListSound

(* Block i with its subblock s filled.                                     *)
LEMMA RefreshSound ==
  ASSUME NEW b, BlockSound(b), NEW size \in Nat \ {0}, b.maxfree >= size,
         NEW s \in DOMAIN b.mk, Roomy(b.mk, LastBlock(b.size), size, s),
         NEW mk, mk = AllocBlock(b.mk, s, size),
         NEW new, new = Refresh(b, b.mk[s].next.size, mk)
  PROVE  BlockSound(new) /\ new.mk = mk
<1> DEFINE last == LastBlock(b.size)
           mf == IF b.mk[s].next.size = b.maxfree THEN GetMaxFreeBack(mk, b.size) ELSE b.maxfree
<1>1. new = [size |-> b.size, maxfree |-> mf, mk |-> mk]
  <2>1. b = [size |-> b.size, maxfree |-> b.maxfree, mk |-> b.mk]
    BY DEF BlockSound
  <2>2. new = [b EXCEPT !.mk = mk, !.maxfree = mf]
    BY <2>1 DEF Refresh
  <2> HIDE DEF mf
  <2> QED  BY <2>1, <2>2
<1>2. Chained(mk, last)
  BY AllocChained DEF BlockSound
<1>3. MaxFreeOK(mk, last, mf)
  <2>1. CASE b.mk[s].next.size = b.maxfree
    BY <1>2, <2>1, MaxFreeFromEnd
  <2>2. CASE b.mk[s].next.size # b.maxfree
    <3>1. b.maxfree # 0 /\ Chained(b.mk, last) /\ MaxFreeOK(b.mk, last, b.maxfree)
      BY DEF BlockSound, MaxFreeOK
    <3>2. MaxFreeOK(mk, last, b.maxfree)
      BY <2>2, <3>1, MaxFreeStays
    <3> QED  BY <2>2, <3>2
  <2> QED  BY <2>1, <2>2
<1> HIDE DEF mf
<1>4. new.size = b.size /\ new.maxfree = mf /\ new.mk = mk
  BY <1>1
<1> QED  BY <1>1, <1>2, <1>3, <1>4 DEF BlockSound

(* What customMalloc does to the list, whether it finds room or not.       *)
Takes(bs, new, p, size) ==
  /\ ListSound(new)
  /\ p \notin FilledIn(bs) /\ FilledIn(new) = FilledIn(bs) \cup {p}
  /\ \A q \in FilledIn(bs) : SizeIn(new, q) = SizeIn(bs, q)
  /\ SizeIn(new, p) >= size

(* customMalloc from a block that has room takes one subblock, ...         *)
LEMMA MallocInTakes ==
  ASSUME ListSound(blocks), NEW size \in Nat \ {0}, NEW i \in DOMAIN blocks, Fits(i, size),
         NEW r, r = MallocIn(i, size)
  PROVE  Takes(blocks, r.blocks, r.p, size)
<1> DEFINE b == blocks[i]
           s == GetFirstBlock(b.mk, size, 0)
           mk == AllocBlock(b.mk, s, size)
           nb == Refresh(b, b.mk[s].next.size, mk)
           new == [blocks EXCEPT ![i] = nb]
<1>1. BlockSound(b) /\ b.maxfree >= size /\ s # NoSub
  BY DEF ListSound, Fits
<1>2. Chained(b.mk, LastBlock(b.size)) /\ 0 \in DOMAIN b.mk
  BY <1>1 DEF BlockSound, Chained, Marked
<1>3. r.blocks = new /\ r.p = <<i, s + MarkSize>>
  BY DEF MallocIn
<1> HIDE DEF s
<1>4. s \in DOMAIN b.mk /\ Roomy(b.mk, LastBlock(b.size), size, s)
  BY <1>1, <1>2, FirstFound DEF s
<1>5. s \in Nat
  BY <1>2, <1>4, MarkFacts
<1> HIDE DEF b
<1>6. /\ s \notin FilledOf(b.mk) /\ FilledOf(mk) = FilledOf(b.mk) \cup {s}
      /\ \A x \in FilledOf(b.mk) : mk[x].next = b.mk[x].next
      /\ mk[s].next.size >= size
  BY <1>2, <1>4, AllocFills
<1>7. BlockSound(nb) /\ nb.mk = mk
  BY <1>1, <1>4, RefreshSound
<1> HIDE DEF nb, mk
<1>8. /\ ListSound(new) /\ DOMAIN new = DOMAIN blocks
      /\ new[i] = nb /\ \A j \in DOMAIN blocks : j # i => new[j] = blocks[j]
  BY <1>7, BlockReplaced
<1> HIDE DEF new
<1> DEFINE p == <<i, s + MarkSize>>
<1>9. /\ p \notin FilledIn(blocks) /\ FilledIn(new) = FilledIn(blocks) \cup {p}
      /\ \A q \in FilledIn(blocks) : SizeIn(new, q) = SizeIn(blocks, q)
      /\ SizeIn(new, p) = new[i].mk[s].next.size
  <2>1. FilledOf(new[i].mk) = FilledOf(blocks[i].mk) \cup {s} /\ s \notin FilledOf(blocks[i].mk)
        /\ s \in FilledOf(new[i].mk)
        /\ \A x \in FilledOf(blocks[i].mk) : new[i].mk[x].next = blocks[i].mk[x].next
    BY <1>6, <1>7, <1>8 DEF b
  <2> HIDE DEF p
  <2> QED  BY <1>5, <1>8, <2>1, ListChained, FilledAdds DEF p
<1> QED  BY <1>3, <1>6, <1>7, <1>8, <1>9 DEF Takes

(* and so it does from a new block.                                        *)
LEMMA MallocNewTakes ==
  ASSUME ListSound(blocks), NEW size \in Nat \ {0}, NEW r, r = MallocNew(size)
  PROVE  Takes(blocks, r.blocks, r.p, size)
<1> DEFINE bsize == NewBlockSize(size)
           last == LastBlock(bsize)
           new0 == NewChain(bsize)
           mk == AllocBlock(new0, 0, size)
           nb == [size |-> bsize, maxfree |-> GetMaxFreeBack(mk, bsize), mk |-> mk]
           new == Append(blocks, nb)
           i == Len(blocks) + 1
<1>1. MarkSize \in Nat /\ MarkSize > 0 /\ BlockSize \in Nat /\ BlockSize > 2 * MarkSize
  BY MarkSizeAssumption, CustomMemAssumption
<1>2. bsize \in Nat /\ bsize > 2 * MarkSize /\ bsize - 2 * MarkSize >= size
  BY <1>1 DEF NewBlockSize
<1>3. r.blocks = new /\ r.p = <<i, MarkSize>>
  BY DEF MallocNew
<1> HIDE DEF bsize
<1>4. /\ Chained(new0, last) /\ DOMAIN new0 = {0, last} /\ last # 0
      /\ new0[0].next = Free(bsize - 2 * MarkSize)
  BY <1>2, NewChained
<1> HIDE DEF new0, last
<1>5. Roomy(new0, last, size, 0) /\ 0 \in DOMAIN new0
  BY <1>2, <1>4 DEF Roomy, Free
<1>6. Chained(mk, last)
  BY <1>4, <1>5, AllocChained
<1>7. /\ FilledOf(mk) = FilledOf(new0) \cup {0} /\ mk[0].next.size >= size
  BY <1>4, <1>5, AllocFills
<1>8. FilledOf(new0) = {}
  <2>1. ~new0[0].next.fill
    BY <1>4 DEF Free
  <2>2. ~new0[last].next.fill
    BY <1>4 DEF Chained, Zero
  <2> QED  BY <1>4, <2>1, <2>2 DEF FilledOf
<1> HIDE DEF mk
<1>9. MaxFreeOK(mk, last, GetMaxFreeBack(mk, bsize))
  BY <1>6, MaxFreeFromEnd DEF last
<1>10. BlockSound(nb) /\ nb.mk = mk
  BY <1>2, <1>4, <1>6, <1>9 DEF BlockSound, last
<1> HIDE DEF nb
<1>11. /\ IsList(new) /\ Len(blocks) \in Nat
       /\ DOMAIN blocks = 1 .. Len(blocks) /\ DOMAIN new = 1 .. Len(blocks) + 1
       /\ \A j \in 1 .. Len(blocks) : new[j] = blocks[j]
       /\ new[i] = nb
  BY ListGrown DEF ListSound
<1> HIDE DEF new
<1>12. ListSound(new)
  <2>1. \A j \in DOMAIN new : BlockSound(new[j])
    BY <1>10, <1>11 DEF ListSound
  <2> QED  BY <1>11, <2>1 DEF ListSound
<1>13. /\ i \in DOMAIN new /\ i \notin DOMAIN blocks
       /\ DOMAIN blocks \subseteq DOMAIN new /\ DOMAIN new \subseteq DOMAIN blocks \cup {i}
       /\ \A j \in DOMAIN blocks : j # i => new[j] = blocks[j]
  BY <1>11
<1>14. FilledOf(new[i].mk) = {0} /\ 0 \in FilledOf(new[i].mk)
  BY <1>7, <1>8, <1>10, <1>11
<1> DEFINE p == <<i, 0 + MarkSize>>
<1> HIDE DEF i
<1>15. /\ p \notin FilledIn(blocks) /\ FilledIn(new) = FilledIn(blocks) \cup {p}
       /\ \A q \in FilledIn(blocks) : SizeIn(new, q) = SizeIn(blocks, q)
       /\ SizeIn(new, p) = new[i].mk[0].next.size
  <2> HIDE DEF p
  <2> QED  BY <1>12, <1>13, <1>14, ListChained, FilledAdds DEF p
<1>16. p = <<i, MarkSize>>
  BY <1>1
<1> HIDE DEF p
<1> QED  BY <1>3, <1>7, <1>10, <1>11, <1>12, <1>15, <1>16 DEF Takes

(* customMalloc takes a subblock that was free, in the first block with    *)
(* room or in a new one.                                                   *)
LEMMA MallocTakes ==
  ASSUME ListSound(blocks), NEW size \in Nat \ {0}, NEW r, r = CustomMalloc(size)
  PROVE  Takes(blocks, r.blocks, r.p, size)
<1>1. CASE Room(size) # {}
  <2>1. DOMAIN blocks \subseteq Nat
    BY ListGrown DEF ListSound
  <2>2. Room(size) \in SUBSET Nat
    BY <2>1 DEF Room
  <2>3. \E i \in Room(size) : \A j \in Room(size) : i <= j
    BY <1>1, <2>2, LeastNat
  <2>4. PICK i \in Room(size) : r = MallocIn(i, size)
    BY <1>1, <2>3 DEF CustomMalloc
  <2>5. i \in DOMAIN blocks /\ Fits(i, size)
    BY DEF Room
  <2> QED  BY <2>4, <2>5, MallocInTakes
<1>2. CASE Room(size) = {}
  <2>1. r = MallocNew(size)
    BY <1>2 DEF CustomMalloc
  <2> QED  BY <2>1, MallocNewTakes
<1> QED  BY <1>1, <1>2

(* A block whose subblock s is freed, ...                                  *)
LEMMA ReleasedSound ==
  ASSUME NEW b, BlockSound(b), NEW s \in FilledOf(b.mk), NEW nb, nb = Released(b, s)
  PROVE  /\ BlockSound(nb)
         /\ FilledOf(nb.mk) = FilledOf(b.mk) \ {s}
         /\ \A x \in FilledOf(nb.mk) : nb.mk[x].next = b.mk[x].next
<1> DEFINE last == LastBlock(b.size)
           mk == FreeBlock(b.mk, s)
           got == mk[FreedAt(b.mk, s)].next.size
           mf == IF b.maxfree < got THEN got ELSE b.maxfree
<1>1. /\ b = [size |-> b.size, maxfree |-> b.maxfree, mk |-> b.mk]
      /\ b.size \in Nat /\ last # 0
      /\ Chained(b.mk, last) /\ MaxFreeOK(b.mk, last, b.maxfree)
  BY DEF BlockSound
<1>2. s \in DOMAIN b.mk /\ b.mk[s].next.fill /\ s # last
  BY <1>1 DEF FilledOf, Chained, Zero
<1>3. Chained(mk, last)
  BY <1>1, <1>2, FreeChained
<1>4. MaxFreeOK(mk, last, mf)
  BY <1>1, <1>2, MaxFreeRaised
<1>5. /\ FilledOf(mk) = FilledOf(b.mk) \ {s}
      /\ \A x \in FilledOf(mk) : mk[x].next = b.mk[x].next
  BY <1>1, <1>2, FreeFills
<1>6. nb = [size |-> b.size, maxfree |-> mf, mk |-> mk]
  <2>1. b = [size |-> b.size, maxfree |-> b.maxfree, mk |-> b.mk]
    BY <1>1
  <2>2. nb = [b EXCEPT !.mk = mk, !.maxfree = mf]
    BY DEF Released
  <2> HIDE DEF mk, mf
  <2> QED  BY <2>1, <2>2
<1> HIDE DEF mk, mf
<1>7. nb.size = b.size /\ nb.maxfree = mf /\ nb.mk = mk
  BY <1>6
<1> QED  BY <1>1, <1>3, <1>4, <1>5, <1>6, <1>7 DEF BlockSound

(* ... or whose maxfree is computed again.                                 *)
LEMMA RecomputedSound ==
  ASSUME NEW b, BlockSound(b), NEW nb, nb = Recomputed(b)
  PROVE  BlockSound(nb) /\ nb.mk = b.mk
<1> DEFINE mf == GetMaxFreeBack(b.mk, b.size)
<1>1. /\ b = [size |-> b.size, maxfree |-> b.maxfree, mk |-> b.mk]
      /\ b.size \in Nat /\ LastBlock(b.size) # 0
      /\ Chained(b.mk, LastBlock(b.size))
  BY DEF BlockSound
<1>2. MaxFreeOK(b.mk, LastBlock(b.size), mf)
  BY <1>1, MaxFreeFromEnd
<1>3. nb = [size |-> b.size, maxfree |-> mf, mk |-> b.mk]
  <2>1. nb = [b EXCEPT !.maxfree = mf]
    BY DEF Recomputed
  <2> HIDE DEF mf
  <2> QED  BY <1>1, <2>1
<1> HIDE DEF mf
<1>4. nb.size = b.size /\ nb.maxfree = mf /\ nb.mk = b.mk
  BY <1>3
<1> QED  BY <1>1, <1>2, <1>3, <1>4 DEF BlockSound

(* customFree gives one filled subblock back.                              *)
LEMMA FreeReleases ==
  ASSUME ListSound(blocks), NEW p \in FilledIn(blocks), NEW new, new = CustomFree(p)
  PROVE  /\ ListSound(new) /\ FilledIn(new) = FilledIn(blocks) \ {p}
         /\ \A q \in FilledIn(new) : SizeIn(new, q) = SizeIn(blocks, q)
<1> DEFINE i == p[1]
           s == p[2] - MarkSize
           b == blocks[i]
           nb == Released(b, s)
<1>0. AllChained(blocks)
  BY ListChained
<1>1. i \in DOMAIN blocks /\ s \in FilledOf(b.mk) /\ BlockSound(b)
  BY <1>0, PointerParts DEF ListSound
<1>2. new = [blocks EXCEPT ![i] = nb]
  BY DEF CustomFree
<1>3. /\ BlockSound(nb) /\ FilledOf(nb.mk) = FilledOf(b.mk) \ {s}
      /\ \A x \in FilledOf(nb.mk) : nb.mk[x].next = b.mk[x].next
  BY <1>1, ReleasedSound
<1> HIDE DEF nb, s, b, i
<1>4. /\ ListSound(new) /\ DOMAIN new = DOMAIN blocks
      /\ new[i] = nb /\ \A j \in DOMAIN blocks : j # i => new[j] = blocks[j]
  <2>1. i \in DOMAIN blocks /\ BlockSound(nb)
    BY <1>1, <1>3
  <2> QED  BY <1>2, <2>1, BlockReplaced
<1>5. /\ FilledOf(new[p[1]].mk) = FilledOf(blocks[p[1]].mk) \ {p[2] - MarkSize}
      /\ \A x \in FilledOf(new[p[1]].mk) : new[p[1]].mk[x].next = blocks[p[1]].mk[x].next
      /\ \A j \in DOMAIN blocks : j # p[1] => new[j] = blocks[j]
  BY <1>3, <1>4 DEF i, s, b
<1>6. DOMAIN new = DOMAIN blocks /\ ListSound(new)
  BY <1>4
<1> QED  BY <1>5, <1>6, ListChained, FilledRemoves

(* maxfree computed again, as customRealloc does, changes no subblock.     *)
LEMMA RecomputeKeeps ==
  ASSUME ListSound(blocks), NEW p \in FilledIn(blocks), NEW new,
         new = [blocks EXCEPT ![p[1]] = Recomputed(blocks[p[1]])]
  PROVE  /\ ListSound(new) /\ FilledIn(new) = FilledIn(blocks)
         /\ \A q \in FilledIn(new) : SizeIn(new, q) = SizeIn(blocks, q)
<1> DEFINE i == p[1]
           b == blocks[i]
           nb == Recomputed(b)
<1>0. AllChained(blocks)
  BY ListChained
<1>1. i \in DOMAIN blocks /\ BlockSound(b)
  BY <1>0, PointerParts DEF ListSound
<1>2. new = [blocks EXCEPT ![i] = nb]
  OBVIOUS
<1>3. BlockSound(nb) /\ nb.mk = b.mk
  BY <1>1, RecomputedSound
<1> HIDE DEF nb, b, i
<1>4. /\ ListSound(new) /\ DOMAIN new = DOMAIN blocks
      /\ new[i] = nb /\ \A j \in DOMAIN blocks : j # i => new[j] = blocks[j]
  BY <1>1, <1>2, <1>3, BlockReplaced
<1>5. \A j \in DOMAIN blocks : new[j].mk = blocks[j].mk
  BY <1>3, <1>4 DEF b
<1>6. FilledIn(new) = FilledIn(blocks)
  BY <1>4, <1>5 DEF FilledIn
<1>7. \A q \in FilledIn(new) : SizeIn(new, q) = SizeIn(blocks, q)
  BY <1>5, <1>6, ListChained, PointerParts DEF SizeIn
<1> QED  BY <1>4, <1>6, <1>7

-----------------------------------------------------------------------------
(* A size khash asks for is not rounded up.                                *)
LEMMA Rounded ==
  ASSUME NEW size \in Sizes
  PROVE  /\ size \in Nat \ {0}
         /\ ((size + Align - 1) \div Align) * Align = size
<1>1. /\ size \in Nat \ {0} /\ Align \in Nat /\ Align > 0 /\ size % Align = 0
  BY CustomMemAssumption
<1> DEFINE k == size \div Align
<1>2. k \in Nat /\ size = k * Align
  BY <1>1
<1> HIDE DEF k
<1>3. (k * Align + (Align - 1)) \div Align = k
  BY <1>1, <1>2
<1>4. size + Align - 1 = k * Align + (Align - 1)
  BY <1>1, <1>2
<1> QED  BY <1>1, <1>2, <1>3, <1>4

-----------------------------------------------------------------------------
(* The chunks of a list never overlap.                                     *)
LEMMA ChunksApart ==
  ASSUME NEW bs, ListSound(bs), NEW ck, HeldIn(bs, ck),
         NEW p \in DOMAIN ck, NEW q \in DOMAIN ck, p # q
  PROVE  ~Chunks!Overlap(p, ck[p], q, ck[q])
<1>1. /\ p \in FilledIn(bs) /\ q \in FilledIn(bs)
      /\ SizeIn(bs, p) >= ck[p] /\ SizeIn(bs, q) >= ck[q]
      /\ ck[p] \in Nat /\ ck[q] \in Nat
  BY CustomMemAssumption DEF HeldIn
<1>2. p[2] \in Nat /\ q[2] \in Nat
  BY <1>1, ListChained, PointerParts
<1>3. SizeIn(bs, p) \in Nat /\ SizeIn(bs, q) \in Nat
  BY <1>1, ListChained, FilledNat
<1>4. p[1] = q[1] => p[2] + SizeIn(bs, p) < q[2] \/ q[2] + SizeIn(bs, q) < p[2]
  BY <1>1, ListChained, FilledApart
<1> QED  BY <1>1, <1>2, <1>3, <1>4 DEF Chunks!Overlap

(* A chunk that is taken: the list holds it and the abstract allocator     *)
(* gives it.                                                               *)
LEMMA Taken ==
  ASSUME ListSound(blocks), ChunksHeld, NEW size \in Sizes, NEW p,
         Takes(blocks, blocks', p, size), chunks' = Hold(p, size)
  PROVE  /\ ListSound(blocks)' /\ ChunksHeld'
         /\ p \notin DOMAIN chunks /\ DOMAIN chunks' = DOMAIN chunks \cup {p}
         /\ chunks'[p] = size
         /\ \A q \in DOMAIN chunks : /\ chunks'[q] = chunks[q]
                                     /\ SizeIn(blocks', q) = SizeIn(blocks, q)
         /\ Chunks!Alloc
<1>1. /\ ListSound(blocks')
      /\ p \notin DOMAIN chunks /\ FilledIn(blocks') = DOMAIN chunks \cup {p}
      /\ \A q \in DOMAIN chunks : SizeIn(blocks', q) = SizeIn(blocks, q)
      /\ SizeIn(blocks', p) >= size
  BY DEF Takes, ChunksHeld, HeldIn
<1>2. /\ DOMAIN chunks' = DOMAIN chunks \cup {p}
      /\ chunks'[p] = size
      /\ \A q \in DOMAIN chunks : chunks'[q] = chunks[q]
  BY <1>1 DEF Hold
<1>3. HeldIn(blocks', chunks')
  BY <1>1, <1>2 DEF ChunksHeld, HeldIn
<1>4. Chunks!Alloc
  <2>1. \A q \in DOMAIN chunks \ {p} : ~Chunks!Overlap(p, chunks'[p], q, chunks'[q])
    BY <1>1, <1>2, <1>3, ChunksApart
  <2>2. Chunks!Give(p, chunks'[p])
    BY <1>2, <2>1 DEF Chunks!Give, Hold
  <2> QED  BY <1>1, <1>2, <2>2 DEF Chunks!Alloc
<1> QED  BY <1>1, <1>2, <1>3, <1>4 DEF ChunksHeld

(* A chunk that is given back.                                             *)
LEMMA Dropped ==
  ASSUME ListSound(blocks), ChunksHeld, NEW p \in DOMAIN chunks,
         blocks' = CustomFree(p), chunks' = Drop(p)
  PROVE  /\ ListSound(blocks)' /\ ChunksHeld'
         /\ DOMAIN chunks' = DOMAIN chunks \ {p}
         /\ \A q \in DOMAIN chunks' : /\ chunks'[q] = chunks[q]
                                      /\ SizeIn(blocks', q) = SizeIn(blocks, q)
         /\ Chunks!TakeBack
<1>1. p \in FilledIn(blocks)
  BY DEF ChunksHeld, HeldIn
<1>2. /\ ListSound(blocks') /\ FilledIn(blocks') = FilledIn(blocks) \ {p}
      /\ \A q \in FilledIn(blocks') : SizeIn(blocks', q) = SizeIn(blocks, q)
  BY <1>1, FreeReleases
<1>3. DOMAIN chunks' = DOMAIN chunks \ {p} /\ \A q \in DOMAIN chunks' : chunks'[q] = chunks[q]
  BY DEF Drop
<1>4. HeldIn(blocks', chunks')
  BY <1>2, <1>3 DEF ChunksHeld, HeldIn
<1>5. Chunks!TakeBack
  BY DEF Drop, Chunks!TakeBack
<1> QED  BY <1>2, <1>3, <1>4, <1>5 DEF ChunksHeld, HeldIn

(* A chunk that keeps its place with another size.                         *)
LEMMA Resized ==
  ASSUME ListSound(blocks), ChunksHeld, NEW p \in DOMAIN chunks, NEW size \in Sizes,
         SizeIn(blocks, p) >= size,
         blocks' = [blocks EXCEPT ![p[1]] = Recomputed(@)], chunks' = Hold(p, size)
  PROVE  /\ ListSound(blocks)' /\ ChunksHeld'
         /\ DOMAIN chunks' = DOMAIN chunks
         /\ \A q \in DOMAIN chunks : SizeIn(blocks', q) = SizeIn(blocks, q)
         /\ \A q \in DOMAIN chunks : q # p => chunks'[q] = chunks[q]
         /\ Chunks!Resize
<1>1. p \in FilledIn(blocks)
  BY DEF ChunksHeld, HeldIn
<1>2. /\ ListSound(blocks') /\ FilledIn(blocks') = FilledIn(blocks)
      /\ \A q \in FilledIn(blocks') : SizeIn(blocks', q) = SizeIn(blocks, q)
  BY <1>1, RecomputeKeeps
<1>3. /\ DOMAIN chunks' = DOMAIN chunks /\ chunks'[p] = size
      /\ \A q \in DOMAIN chunks : q # p => chunks'[q] = chunks[q]
  BY DEF Hold
<1>4. HeldIn(blocks', chunks')
  BY <1>1, <1>2, <1>3 DEF ChunksHeld, HeldIn
<1>5. Chunks!Resize
  <2>1. \A q \in DOMAIN chunks \ {p} : ~Chunks!Overlap(p, chunks'[p], q, chunks'[q])
    BY <1>2, <1>3, <1>4, ChunksApart
  <2>2. Chunks!Give(p, chunks'[p])
    BY <1>3, <2>1 DEF Chunks!Give, Hold
  <2> QED  BY <1>3, <2>2 DEF Chunks!Resize
<1> QED  BY <1>2, <1>3, <1>4, <1>5 DEF ChunksHeld, HeldIn

-----------------------------------------------------------------------------
(* The threads in customRealloc, after a step that is nobody's of them.    *)
LEMMA ReallocStays ==
  ASSUME ReallocOK, realloc' = realloc,
         \A t \in Threads : realloc[t] # Idle =>
           /\ realloc[t].old \in DOMAIN chunks' /\ realloc[t].new \in DOMAIN chunks'
           /\ SizeIn(blocks', realloc[t].old) = SizeIn(blocks, realloc[t].old)
           /\ chunks'[realloc[t].new] = chunks[realloc[t].new]
  PROVE  ReallocOK'
<1>1. ASSUME NEW t \in Threads, realloc[t] # Idle
      PROVE  realloc[t] \in Resizing' /\ Holding(t, realloc[t])'
  <2>1. realloc[t] \in Resizing /\ Holding(t, realloc[t])
    BY <1>1 DEF ReallocOK
  <2>2. realloc[t] \in Resizing'
    BY <1>1, <2>1 DEF Resizing
  <2>3. Holding(t, realloc[t])'
    BY <1>1, <2>1 DEF Holding
  <2> QED  BY <2>2, <2>3
<1> QED  BY <1>1 DEF ReallocOK

(* ... and after a step of the one thread t.                               *)
LEMMA ReallocMoves ==
  ASSUME ReallocOK, NEW t \in Threads, NEW r, realloc' = [realloc EXCEPT ![t] = r],
         \A u \in Threads \ {t} : realloc[u] # Idle =>
           /\ realloc[u].old \in DOMAIN chunks' /\ realloc[u].new \in DOMAIN chunks'
           /\ SizeIn(blocks', realloc[u].old) = SizeIn(blocks, realloc[u].old)
           /\ chunks'[realloc[u].new] = chunks[realloc[u].new],
         r # Idle =>
           /\ r \in Resizing'
           /\ SizeIn(blocks', r.old) < r.size
           /\ r.at = "malloc" => r.new = r.old
           /\ r.at = "copy" => r.new # r.old /\ chunks'[r.new] = r.size
           /\ \A u \in Threads \ {t} : realloc[u] # Idle =>
                {r.old, r.new} \cap {realloc[u].old, realloc[u].new} = {}
  PROVE  ReallocOK'
<1>1. realloc'[t] = r /\ \A u \in Threads \ {t} : realloc'[u] = realloc[u]
  BY DEF ReallocOK
<1>2. DOMAIN realloc' = Threads /\ realloc' = [u \in Threads |-> realloc'[u]]
  BY DEF ReallocOK
<1>3. ASSUME NEW u \in Threads \ {t}, realloc[u] # Idle
      PROVE  realloc'[u] \in Resizing' /\ Holding(u, realloc[u])'
  <2>1. realloc[u] \in Resizing /\ Holding(u, realloc[u])
    BY <1>3 DEF ReallocOK
  <2>2. realloc[u] \in Resizing'
    BY <1>3, <2>1 DEF Resizing
  <2>3. \A v \in Threads : v # u /\ realloc'[v] # Idle =>
          {realloc[u].old, realloc[u].new} \cap {realloc'[v].old, realloc'[v].new} = {}
    <3> SUFFICES ASSUME NEW v \in Threads, v # u, realloc'[v] # Idle
                 PROVE  {realloc[u].old, realloc[u].new}
                          \cap {realloc'[v].old, realloc'[v].new} = {}
      OBVIOUS
    <3>1. CASE v = t
      BY <1>1, <1>3, <3>1
    <3>2. CASE v # t
      BY <1>1, <2>1, <3>2 DEF Holding
    <3> QED  BY <3>1, <3>2
  <2>4. Holding(u, realloc[u])'
    <3>1. SizeIn(blocks', realloc[u].old) < realloc[u].size
      BY <1>3, <2>1 DEF Holding
    <3>2. realloc[u].at = "copy" =>
            realloc[u].new # realloc[u].old /\ chunks'[realloc[u].new] = realloc[u].size
      BY <1>3, <2>1 DEF Holding
    <3> QED  BY <1>1, <1>3, <2>1, <2>3, <3>1, <3>2 DEF Holding
  <2> QED  BY <1>1, <2>2, <2>4
<1>4. ASSUME r # Idle PROVE Holding(t, realloc[t])'
  BY <1>1, <1>4 DEF Holding
<1>5. ASSUME NEW u \in Threads
      PROVE  /\ realloc'[u] \in ({Idle} \cup Resizing')
             /\ realloc'[u] # Idle => Holding(u, realloc[u])'
  <2>1. CASE u = t
    BY <1>1, <1>4, <2>1
  <2>2. CASE u # t
    BY <1>1, <1>3, <2>2
  <2> QED  BY <2>1, <2>2
<1> QED  BY <1>2, <1>5 DEF ReallocOK

-----------------------------------------------------------------------------
(* Every step keeps the invariant, and is a step of the abstract allocator *)
(* or leaves the chunks alone.                                             *)
StepOK == ArenaInv' /\ (Chunks!Next \/ chunks' = chunks)

(* The steps of the calls: customMalloc, ...                               *)
LEMMA MallocStep ==
  ASSUME ArenaInv, NEW t \in Threads, NEW size \in Sizes, Malloc(t, size)
  PROVE  StepOK
<1> DEFINE r == CustomMalloc(size)
           p == r.p
<1>1. blocks' = r.blocks /\ chunks' = Hold(p, size) /\ realloc' = realloc
  BY DEF Malloc
<1>2. Takes(blocks, r.blocks, r.p, size)
  BY Rounded, MallocTakes DEF ArenaInv
<1>3. Takes(blocks, blocks', p, size)
  BY <1>1, <1>2
<1> HIDE DEF r, p
<1>4. /\ ListSound(blocks)' /\ ChunksHeld'
      /\ p \notin DOMAIN chunks /\ DOMAIN chunks' = DOMAIN chunks \cup {p}
      /\ \A q \in DOMAIN chunks : /\ chunks'[q] = chunks[q]
                                  /\ SizeIn(blocks', q) = SizeIn(blocks, q)
      /\ Chunks!Alloc
  BY <1>1, <1>3, Taken DEF ArenaInv
<1>5. \A u \in Threads : realloc[u] # Idle =>
        realloc[u].old \in DOMAIN chunks /\ realloc[u].new \in DOMAIN chunks
  BY DEF ArenaInv, ReallocOK, Resizing
<1>6. ReallocOK'
  BY <1>1, <1>4, <1>5, ReallocStays DEF ArenaInv
<1> QED  BY <1>4, <1>6 DEF StepOK, ArenaInv, Chunks!Next

(* customFree, ...                                                         *)
LEMMA FreeStep ==
  ASSUME ArenaInv, NEW t \in Threads, NEW p \in DOMAIN chunks, FreeChunk(t, p)
  PROVE  StepOK
<1>1. blocks' = CustomFree(p) /\ chunks' = Drop(p) /\ realloc' = realloc /\ Unused(p)
  BY DEF FreeChunk
<1>2. /\ ListSound(blocks)' /\ ChunksHeld'
      /\ DOMAIN chunks' = DOMAIN chunks \ {p}
      /\ \A q \in DOMAIN chunks' : /\ chunks'[q] = chunks[q]
                                   /\ SizeIn(blocks', q) = SizeIn(blocks, q)
      /\ Chunks!TakeBack
  BY <1>1, Dropped DEF ArenaInv
<1>3. \A u \in Threads : realloc[u] # Idle =>
        /\ realloc[u].old \in DOMAIN chunks /\ realloc[u].new \in DOMAIN chunks
        /\ realloc[u].old # p /\ realloc[u].new # p
  BY <1>1 DEF ArenaInv, ReallocOK, Resizing, Unused
<1>4. ReallocOK'
  BY <1>1, <1>2, <1>3, ReallocStays DEF ArenaInv
<1> QED  BY <1>2, <1>4 DEF StepOK, ArenaInv, Chunks!Next

(* the start of customRealloc, which keeps the chunk or goes on, ...       *)
LEMMA TryStep ==
  ASSUME ArenaInv, NEW t \in Threads, NEW size \in Sizes, NEW p \in DOMAIN chunks,
         ReallocTry(t, p, size)
  PROVE  StepOK
<1>1. BigEnough(SizeBlock(p), size) <=> SizeIn(blocks, p) >= size
  BY Rounded DEF BigEnough, SizeBlock, SizeIn
<1>2. Unused(p)
  BY DEF ReallocTry
<1>3. p \in FilledIn(blocks)
  BY DEF ArenaInv, ChunksHeld, HeldIn
<1>4. SizeIn(blocks, p) \in Nat /\ size \in Nat
  BY <1>3, ListChained, FilledNat, Rounded DEF ArenaInv
<1>5. \A u \in Threads : realloc[u] # Idle =>
        /\ realloc[u].old \in DOMAIN chunks /\ realloc[u].new \in DOMAIN chunks
        /\ realloc[u].old # p /\ realloc[u].new # p
  BY <1>2 DEF ArenaInv, ReallocOK, Resizing, Unused
<1>6. CASE /\ BigEnough(SizeBlock(p), size)
           /\ blocks' = [blocks EXCEPT ![p[1]] = Recomputed(@)]
           /\ chunks' = Hold(p, size)
           /\ UNCHANGED realloc
  <2>1. SizeIn(blocks, p) >= size
    BY <1>1, <1>6
  <2>2. /\ ListSound(blocks)' /\ ChunksHeld'
        /\ DOMAIN chunks' = DOMAIN chunks
        /\ \A q \in DOMAIN chunks : SizeIn(blocks', q) = SizeIn(blocks, q)
        /\ \A q \in DOMAIN chunks : q # p => chunks'[q] = chunks[q]
        /\ Chunks!Resize
    BY <1>6, <2>1, Resized DEF ArenaInv
  <2>3. ReallocOK'
    BY <1>5, <1>6, <2>2, ReallocStays DEF ArenaInv
  <2> QED  BY <2>2, <2>3 DEF StepOK, ArenaInv, Chunks!Next
<1>7. CASE /\ ~BigEnough(SizeBlock(p), size)
           /\ realloc' = [realloc EXCEPT ![t] = [at |-> "malloc", old |-> p, new |-> p, size |-> size]]
           /\ UNCHANGED <<blocks, chunks>>
  <2> DEFINE r == [at |-> "malloc", old |-> p, new |-> p, size |-> size]
  <2>1. SizeIn(blocks, p) < size
    BY <1>1, <1>4, <1>7
  <2>2. blocks' = blocks /\ chunks' = chunks /\ realloc' = [realloc EXCEPT ![t] = r]
    BY <1>7
  <2>3. /\ r \in Resizing /\ r.at = "malloc" /\ r.new = p /\ r.old = p /\ r.size = size
    BY DEF Resizing
  <2> HIDE DEF r
  <2>4. ReallocOK
    BY DEF ArenaInv
  <2>5. r \in Resizing' /\ r.at # "copy"
    BY <2>2, <2>3 DEF Resizing
  <2>6. \A u \in Threads \ {t} : realloc[u] # Idle =>
          {r.old, r.new} \cap {realloc[u].old, realloc[u].new} = {}
    BY <1>5, <2>3
  <2>7. ReallocOK'
    BY <1>5, <2>1, <2>2, <2>3, <2>4, <2>5, <2>6, ReallocMoves
  <2> QED  BY <2>2, <2>7 DEF StepOK, ArenaInv, ChunksHeld
<1> QED  BY <1>6, <1>7 DEF ReallocTry

(* (a realloc that has its new chunk) ...                                  *)
LEMMA CopyRecord ==
  ASSUME NEW at, NEW old, NEW was, NEW size, NEW new, NEW r, NEW n,
         r = [at |-> at, old |-> old, new |-> was, size |-> size],
         n = [r EXCEPT !.at = "copy", !.new = new]
  PROVE  n = [at |-> "copy", old |-> old, new |-> new, size |-> size]
OBVIOUS

(* its customMalloc, ...                                                   *)
LEMMA ReallocMallocStep ==
  ASSUME ArenaInv, NEW t \in Threads, ReallocMalloc(t)
  PROVE  StepOK
<1> DEFINE old == realloc[t].old
           size == realloc[t].size
           r == CustomMalloc(size)
           p == r.p
           now == [at |-> "copy", old |-> old, new |-> p, size |-> size]
<1>1. /\ blocks' = r.blocks /\ chunks' = Hold(p, size)
      /\ realloc' = [realloc EXCEPT ![t].at = "copy", ![t].new = p]
      /\ realloc[t].at = "malloc"
  BY DEF ReallocMalloc
<1>2. /\ ReallocOK /\ realloc[t] # Idle /\ realloc[t] \in Resizing
      /\ Holding(t, realloc[t])
  BY <1>1 DEF ArenaInv, ReallocOK, Idle
<1>3. old \in DOMAIN chunks /\ size \in Sizes /\ SizeIn(blocks, old) < size
  BY <1>2 DEF Resizing, Holding
<1>4. realloc' = [realloc EXCEPT ![t] = now]
  <2>1. realloc[t] = [at |-> realloc[t].at, old |-> old, new |-> realloc[t].new, size |-> size]
    BY <1>2 DEF Resizing
  <2>2. realloc' = [realloc EXCEPT ![t] = [realloc[t] EXCEPT !.at = "copy", !.new = p]]
    BY <1>1
  <2> DEFINE n == [realloc[t] EXCEPT !.at = "copy", !.new = p]
  <2>3. n = [realloc[t] EXCEPT !.at = "copy", !.new = p]
    OBVIOUS
  <2> HIDE DEF old, size, p, n
  <2>4. n = now
    <3> DEFINE r0 == realloc[t]
               at == realloc[t].at
               was == realloc[t].new
    <3>1. r0 = [at |-> at, old |-> old, new |-> was, size |-> size]
      BY <2>1
    <3>2. n = [r0 EXCEPT !.at = "copy", !.new = p]
      BY <2>3
    <3> HIDE DEF r0, at, was
    <3> QED  BY <3>1, <3>2, CopyRecord
  <2> HIDE DEF now
  <2> QED  BY <2>2, <2>3, <2>4
<1>5. Takes(blocks, r.blocks, r.p, size)
  BY <1>3, Rounded, MallocTakes DEF ArenaInv
<1>6. Takes(blocks, blocks', p, size)
  BY <1>1, <1>5
<1> HIDE DEF r, p, size
<1>7. /\ ListSound(blocks)' /\ ChunksHeld'
      /\ p \notin DOMAIN chunks /\ DOMAIN chunks' = DOMAIN chunks \cup {p}
      /\ chunks'[p] = size
      /\ \A q \in DOMAIN chunks : /\ chunks'[q] = chunks[q]
                                  /\ SizeIn(blocks', q) = SizeIn(blocks, q)
      /\ Chunks!Alloc
  BY <1>1, <1>3, <1>6, Taken DEF ArenaInv
<1>8. \A u \in Threads : realloc[u] # Idle =>
        /\ realloc[u].old \in DOMAIN chunks /\ realloc[u].new \in DOMAIN chunks
        /\ u # t => old # realloc[u].old /\ old # realloc[u].new
  BY <1>2 DEF ReallocOK, Resizing, Holding
<1> HIDE DEF old
<1>9. now \in Resizing' /\ now.at = "copy" /\ now.old = old /\ now.new = p /\ now.size = size
  BY <1>3, <1>7 DEF Resizing
<1> HIDE DEF now
<1>10. SizeIn(blocks', now.old) < now.size /\ now.new # now.old /\ chunks'[now.new] = now.size
  BY <1>3, <1>7, <1>9
<1>11. \A u \in Threads \ {t} : realloc[u] # Idle =>
         {now.old, now.new} \cap {realloc[u].old, realloc[u].new} = {}
  BY <1>7, <1>8, <1>9
<1>12. \A u \in Threads \ {t} : realloc[u] # Idle =>
         /\ realloc[u].old \in DOMAIN chunks' /\ realloc[u].new \in DOMAIN chunks'
         /\ SizeIn(blocks', realloc[u].old) = SizeIn(blocks, realloc[u].old)
         /\ chunks'[realloc[u].new] = chunks[realloc[u].new]
  BY <1>7, <1>8
<1>13. ReallocOK'
  BY <1>2, <1>4, <1>9, <1>10, <1>11, <1>12, ReallocMoves
<1> QED  BY <1>7, <1>13 DEF StepOK, ArenaInv, Chunks!Next

(* and its end.                                                            *)
LEMMA CopyStep ==
  ASSUME ArenaInv, NEW t \in Threads, ReallocCopy(t)
  PROVE  StepOK
<1> DEFINE p == realloc[t].old
<1>1. /\ blocks' = CustomFree(p) /\ chunks' = Drop(p)
      /\ realloc' = [realloc EXCEPT ![t] = Idle] /\ realloc[t].at = "copy"
  BY DEF ReallocCopy
<1>2. ReallocOK /\ realloc[t] # Idle /\ realloc[t] \in Resizing /\ Holding(t, realloc[t])
  BY <1>1 DEF ArenaInv, ReallocOK, Idle
<1>3. p \in DOMAIN chunks
  BY <1>2 DEF Resizing
<1>4. /\ ListSound(blocks)' /\ ChunksHeld'
      /\ DOMAIN chunks' = DOMAIN chunks \ {p}
      /\ \A q \in DOMAIN chunks' : /\ chunks'[q] = chunks[q]
                                   /\ SizeIn(blocks', q) = SizeIn(blocks, q)
      /\ Chunks!TakeBack
  BY <1>1, <1>3, Dropped DEF ArenaInv
<1>5. \A u \in Threads \ {t} : realloc[u] # Idle =>
        /\ realloc[u].old \in DOMAIN chunks /\ realloc[u].new \in DOMAIN chunks
        /\ realloc[u].old # p /\ realloc[u].new # p
  BY <1>2 DEF ReallocOK, Resizing, Holding
<1>6. ReallocOK'
  BY <1>1, <1>2, <1>4, <1>5, ReallocMoves
<1> QED  BY <1>4, <1>6 DEF StepOK, ArenaInv, Chunks!Next

(* Every step keeps the invariant and is one of the abstract allocator.    *)
LEMMA ArenaStep ==
  ASSUME ArenaInv, [Next]_vars
  PROVE  StepOK
<1>1. ASSUME NEW t \in Threads, NEW size \in Sizes, Malloc(t, size) PROVE StepOK
  BY <1>1, MallocStep
<1>2. ASSUME NEW t \in Threads, NEW size \in Sizes, NEW p \in DOMAIN chunks,
             ReallocTry(t, p, size)
      PROVE  StepOK
  BY <1>2, TryStep
<1>3. ASSUME NEW t \in Threads, NEW p \in DOMAIN chunks, FreeChunk(t, p) PROVE StepOK
  BY <1>3, FreeStep
<1>4. ASSUME NEW t \in Threads, ReallocMalloc(t) PROVE StepOK
  BY <1>4, ReallocMallocStep
<1>5. ASSUME NEW t \in Threads, ReallocCopy(t) PROVE StepOK
  BY <1>5, CopyStep
<1>6. ASSUME UNCHANGED vars PROVE StepOK
  <2>1. blocks' = blocks /\ chunks' = chunks /\ realloc' = realloc
    BY <1>6 DEF vars
  <2>2. ReallocOK'
    BY <2>1 DEF ArenaInv, ReallocOK, Resizing, Holding
  <2> QED  BY <2>1, <2>2 DEF StepOK, ArenaInv, ChunksHeld
<1> QED  BY <1>1, <1>2, <1>3, <1>4, <1>5, <1>6 DEF Next

(* Nothing is allocated at first.                                          *)
LEMMA ArenaInit == Init => ArenaInv
<1> SUFFICES ASSUME Init PROVE ArenaInv
  OBVIOUS
<1>1. blocks = <<>> /\ DOMAIN chunks = {} /\ realloc = [t \in Threads |-> Idle]
  BY DEF Init
<1>2. DOMAIN blocks = {} /\ blocks \in Seq({blocks[i] : i \in DOMAIN blocks})
  BY <1>1
<1>3. ListSound(blocks) /\ FilledIn(blocks) = {}
  BY <1>2 DEF ListSound, IsList, FilledIn
<1>4. ChunksHeld
  BY <1>1, <1>3 DEF ChunksHeld, HeldIn
<1>5. ReallocOK
  BY <1>1 DEF ReallocOK
<1> QED  BY <1>3, <1>4, <1>5 DEF ArenaInv

(* The inductive invariant holds throughout.                               *)
LEMMA ArenaAlways == Spec => []ArenaInv
<1>1. ArenaInv /\ [Next]_vars => ArenaInv'
  BY ArenaStep DEF StepOK
<1> QED  BY <1>1, ArenaInit, PTL DEF Spec

-----------------------------------------------------------------------------
(* The filled subblocks of a block, seen from the chunks of the callers.   *)
LEMMA FilledPointers ==
  ASSUME ArenaInv, NEW i \in DOMAIN blocks
  PROVE  FilledOf(blocks[i].mk)
           = {p[2] - MarkSize : p \in {q \in DOMAIN chunks : q[1] = i}}
<1> DEFINE P == {q \in DOMAIN chunks : q[1] = i}
<1>1. BlockSound(blocks[i]) /\ DOMAIN chunks = FilledIn(blocks) /\ ListSound(blocks)
  BY DEF ArenaInv, ListSound, ChunksHeld, HeldIn
<1>2. ASSUME NEW m \in FilledOf(blocks[i].mk) PROVE \E p \in P : m = p[2] - MarkSize
  <2>1. <<i, m + MarkSize>> \in P
    BY <1>1, InFilled
  <2>2. m \in Nat /\ MarkSize \in Nat
    BY <1>1, MarkFacts DEF BlockSound, FilledOf
  <2>3. m = <<i, m + MarkSize>>[2] - MarkSize
    BY <2>2
  <2> QED  BY <2>1, <2>3
<1>3. ASSUME NEW p \in P PROVE p[2] - MarkSize \in FilledOf(blocks[i].mk)
  BY <1>1, ListChained, PointerParts
<1> QED  BY <1>2, <1>3

(* The invariant implies what the run checks.                              *)
LEMMA ArenaBlocksSound == ArenaInv => BlocksSound
<1> SUFFICES ASSUME ArenaInv PROVE BlocksSound
  OBVIOUS
<1>1. ListSound(blocks) /\ DOMAIN chunks = FilledIn(blocks)
      /\ \A p \in DOMAIN chunks : chunks[p] \in Sizes /\ SizeIn(blocks, p) >= chunks[p]
  BY DEF ArenaInv, ChunksHeld, HeldIn
<1>2. ASSUME NEW i \in DOMAIN blocks
      PROVE  /\ blocks[i].size \in Nat /\ blocks[i].maxfree \in 0 .. blocks[i].size
             /\ DOMAIN blocks[i].mk \subseteq 0 .. blocks[i].size
             /\ \A m \in DOMAIN blocks[i].mk : blocks[i].mk[m] \in [prev : Half, next : Half]
             /\ ChainSound(blocks[i].mk, blocks[i].size)
  <2> DEFINE b == blocks[i]
             last == LastBlock(b.size)
  <2>1. BlockSound(b)
    BY <1>1 DEF ListSound
  <2>2. /\ b.size \in Nat /\ last # 0 /\ Chained(b.mk, last) /\ MaxFreeOK(b.mk, last, b.maxfree)
    BY <2>1 DEF BlockSound
  <2> HIDE DEF b
  <2>3. last = b.size - MarkSize /\ MarkSize \in Nat
    BY MarkSizeAssumption DEF LastBlock
  <2>4. DOMAIN b.mk \subseteq 0 .. last /\ \A m \in DOMAIN b.mk : b.mk[m] \in [prev : Half, next : Half]
        /\ last \in Nat
    BY <2>2 DEF Chained, Marked
  <2>5. ChainSound(b.mk, b.size)
    BY <2>2, ChainedIsSound
  <2>6. b.maxfree \in 0 .. b.size
    <3>1. CASE b.maxfree = 0
      BY <2>2, <3>1
    <3>2. CASE b.maxfree # 0
      <4>1. PICK x \in DOMAIN b.mk : FreeSub(b.mk, last, x) /\ b.mk[x].next.size = b.maxfree
        BY <2>2, <3>2 DEF MaxFreeOK
      <4>2. /\ NextBlock(b.mk, x) \in DOMAIN b.mk
            /\ NextBlock(b.mk, x) = x + b.mk[x].next.size + MarkSize
        BY <2>2, <4>1, LinkFacts DEF FreeSub
      <4>3. x \in Nat /\ b.maxfree \in Nat
        BY <2>2, <4>1, MarkFacts
      <4> HIDE DEF last
      <4> QED  BY <2>2, <2>3, <2>4, <4>1, <4>2, <4>3
    <3> QED  BY <3>1, <3>2
  <2>7. DOMAIN b.mk \subseteq 0 .. b.size
    <3> HIDE DEF last
    <3> QED  BY <2>2, <2>3, <2>4
  <2> QED  BY <2>2, <2>4, <2>5, <2>6, <2>7 DEF b
<1>3. TypeOK
  <2>1. \A p \in DOMAIN chunks : p[1] \in DOMAIN blocks /\ chunks[p] \in Sizes
    BY <1>1, ListChained, PointerParts
  <2>2. \A t \in Threads : realloc[t].at \in {"idle", "malloc", "copy"}
    BY DEF ArenaInv, ReallocOK, Resizing, Idle
  <2> QED  BY <1>2, <2>1, <2>2 DEF TypeOK
<1>4. ChainsSound
  BY <1>2 DEF ChainsSound
<1>5. FilledIsHeld
  <2>1. \A i \in DOMAIN blocks : FilledOf(blocks[i].mk)
           = {p[2] - MarkSize : p \in {q \in DOMAIN chunks : q[1] = i}}
    BY FilledPointers
  <2>2. \A p \in DOMAIN chunks : blocks[p[1]].mk[p[2] - MarkSize].next.size >= chunks[p]
    BY <1>1 DEF SizeIn
  <2> QED  BY <2>1, <2>2 DEF FilledIsHeld, FilledOf
<1> QED  BY <1>3, <1>4, <1>5 DEF BlocksSound

(* Whatever customMalloc, customRealloc and customFree do, in any number   *)
(* of threads and blocks of any size, the marks of every block form one    *)
(* chain with its free neighbours merged, and the filled subblocks are     *)
(* exactly the chunks of the callers, each with room for what was asked.   *)
THEOREM BlocksAlwaysSound == Spec => []BlocksSound
BY ArenaAlways, ArenaBlocksSound, PTL

(* The maxfree that customMalloc trusts when it skips a block is right     *)
(* after any sequence of calls: never more than the largest free subblock, *)
(* nor less if that one is worth a mark.                                   *)
THEOREM MaxFreeAlwaysTrue == Spec => []MaxFreeTrue
<1>1. ArenaInv => MaxFreeTrue
  <2> SUFFICES ASSUME ArenaInv, NEW i \in DOMAIN blocks
               PROVE  /\ \E n \in FreeSizes(blocks[i].mk) : blocks[i].maxfree <= n
                      /\ \A n \in FreeSizes(blocks[i].mk) :
                           n >= MarkSize => n <= blocks[i].maxfree
    BY DEF MaxFreeTrue
  <2> DEFINE b == blocks[i]
             last == LastBlock(b.size)
  <2>1. Chained(b.mk, last) /\ MaxFreeOK(b.mk, last, b.maxfree)
    BY DEF ArenaInv, ListSound, BlockSound
  <2> HIDE DEF b, last
  <2>2. last \in DOMAIN b.mk /\ ~b.mk[last].next.fill /\ b.mk[last].next.size = 0
    BY <2>1 DEF Chained, Marked, Zero
  <2>3. b.maxfree \in Nat /\ MarkSize \in Nat \ {0}
    BY <2>1, MarkSizeAssumption DEF MaxFreeOK
  <2>4. \E n \in FreeSizes(b.mk) : b.maxfree <= n
    <3>1. CASE b.maxfree = 0
      BY <2>2, <3>1 DEF FreeSizes
    <3>2. CASE b.maxfree # 0
      <4>1. PICK x \in DOMAIN b.mk : FreeSub(b.mk, last, x) /\ b.mk[x].next.size = b.maxfree
        BY <2>1, <3>2 DEF MaxFreeOK
      <4>2. b.maxfree \in FreeSizes(b.mk)
        BY <4>1 DEF FreeSizes, FreeSub
      <4> QED  BY <2>3, <4>2
    <3> QED  BY <3>1, <3>2
  <2>5. ASSUME NEW n \in FreeSizes(b.mk), n >= MarkSize PROVE n <= b.maxfree
    <3>1. PICK x \in DOMAIN b.mk : ~b.mk[x].next.fill /\ n = b.mk[x].next.size
      BY DEF FreeSizes
    <3>2. x # last
      BY <2>2, <2>3, <2>5, <3>1
    <3> QED  BY <2>1, <2>5, <3>1, <3>2 DEF MaxFreeOK, FreeSub
  <2> QED  BY <2>4, <2>5 DEF b
<1> QED  BY <1>1, ArenaAlways, PTL

(* customRealloc copies the whole old subblock, whose size it reads with   *)
(* the lock dropped: it always fits in the new one.                        *)
THEOREM CopyAlwaysFits == Spec => CopyFits
<1>1. ASSUME ArenaInv, NEW t \in Threads, realloc[t].at = "copy"
      PROVE  SizeBlock(realloc[t].old) <= SizeBlock(realloc[t].new)
  <2> DEFINE old == realloc[t].old
             new == realloc[t].new
  <2>1. realloc[t] # Idle /\ realloc[t] \in Resizing /\ Holding(t, realloc[t])
    BY <1>1 DEF ArenaInv, ReallocOK, Idle
  <2>2. /\ old \in DOMAIN chunks /\ new \in DOMAIN chunks /\ realloc[t].size \in Sizes
        /\ SizeIn(blocks, old) < realloc[t].size /\ chunks[new] = realloc[t].size
    BY <1>1, <2>1 DEF Resizing, Holding
  <2>3. /\ ListSound(blocks) /\ old \in FilledIn(blocks) /\ new \in FilledIn(blocks)
        /\ SizeIn(blocks, new) >= chunks[new]
    BY <1>1, <2>2 DEF ArenaInv, ChunksHeld, HeldIn
  <2>4. SizeIn(blocks, old) \in Nat /\ SizeIn(blocks, new) \in Nat /\ realloc[t].size \in Nat
    BY <2>2, <2>3, ListChained, FilledNat, Rounded
  <2>5. SizeIn(blocks, old) <= SizeIn(blocks, new)
    BY <2>2, <2>3, <2>4
  <2> QED  BY <2>5 DEF SizeBlock, SizeIn
<1>2. ArenaInv /\ [Next]_vars =>
        [\A t \in Threads :
           realloc[t].at = "copy" /\ realloc'[t] = Idle =>
             SizeBlock(realloc[t].old) <= SizeBlock(realloc[t].new)]_vars
  BY <1>1
<1> QED  BY <1>2, ArenaAlways, PTL DEF Spec, CopyFits

(* The chunks never overlap, stay where they are, and change only by the   *)
(* caller's own calls: the chains and the three steps of customRealloc     *)
(* implement the abstract allocator.                                       *)
THEOREM CustomMemImplementsAllocator == Spec => ImplementsAllocator
<1>1. Init => Chunks!Init
  BY DEF Init, Chunks!Init
<1>2. ArenaInv /\ [Next]_vars => [Chunks!Next]_chunks
  BY ArenaStep DEF StepOK
<1> QED  BY <1>1, <1>2, ArenaAlways, PTL DEF Spec, ImplementsAllocator, Chunks!Spec
=============================================================================
