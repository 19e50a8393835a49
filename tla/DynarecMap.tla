----------------------------- MODULE DynarecMap -----------------------------
(***************************************************************************)
(* The memory for native code of src/custommem.c: AllocDynarecMap and      *)
(* FreeDynarecMap over the list of maps mmaplist, and the way back from a  *)
(* native address to its block, FindDynablockFromNativeAddress.            *)
(*                                                                         *)
(* A map is cut up by the chain of marks of BlockChain.  It remembers its  *)
(* first free subblock (first) and its largest (maxfree), has a table of   *)
(* the blocks by their address (dblist), and for each byte how far back    *)
(* the start of its block is, at most HelperMax (helper).                  *)
(*                                                                         *)
(* Every allocation and every free happens under mutex_dyndump, so each is *)
(* one step.                                                               *)
(***************************************************************************)
EXTENDS BlockChain, Sequences

CONSTANTS
  Dynablocks,
  MapSize,        \* MMAPSIZE: bytes of a map
  HelperMax,      \* largest step of the helper, 255
  Sizes,          \* the sizes of native code FillBlock64 asks for
  MaxMaps,        \* bound: maps the list may grow to
  OversizedAt     \* the addresses the kernel may pick for a large block

ASSUME DynarecMapAssumption ==
  /\ MapSize \in Nat /\ HelperMax \in Nat \ {0} /\ MaxMaps \in Nat
  /\ MapSize > 2 * MarkSize
  /\ Sizes \subseteq Nat \ {0} /\ OversizedAt \subseteq Nat

VARIABLES
  maps,        \* mmaplist
  oversized,   \* dblist_oversized: the blocks with a mapping of their own
  chunks,      \* ghost: native code in use, <<map, offset>> -> size
  owner        \* ghost: the block each chunk was asked for

vars == <<maps, oversized, chunks, owner>>

Init ==
  /\ maps = <<>>
  /\ oversized = [k \in {} |-> 0]
  /\ chunks = [p \in {} |-> 0]
  /\ owner = [p \in {} |-> 0]

With(f, x, v) == [y \in DOMAIN f \cup {x} |-> IF y = x THEN v ELSE f[y]]
Without(f, x) == [y \in DOMAIN f \ {x} |-> f[y]]

-----------------------------------------------------------------------------
(* FindFreeDynarecMap writes the helper of a chunk at r: byte HelperMax    *)
(* keeps what it had, and the byte behind a long chunk is written.         *)
HelperFind(h, r, size) ==
  LET short == IF size < HelperMax + 1 THEN size ELSE HelperMax IN
  [x \in DOMAIN h |->
     IF x \in r .. r + short - 1 THEN x - r
     ELSE IF size # short /\ x \in r + HelperMax + 1 .. r + size THEN HelperMax
     ELSE h[x]]

(* Mutant of HelperNew: the bytes past HelperMax are not written.          *)
HelperNewShort(h, r, size) ==
  [x \in DOMAIN h |-> IF x \in r .. r + size - 1 /\ x - r <= HelperMax THEN x - r ELSE h[x]]
(* AddNewDynarecMap writes every byte of the chunk.                        *)
HelperNew(h, r, size) ==
  [x \in DOMAIN h |->
     IF x \in r .. r + size - 1
     THEN IF x - r < HelperMax + 1 THEN x - r ELSE HelperMax
     ELSE h[x]]

(* The maps FindFreeDynarecMap stops at, and what it finds there.          *)
Asked(i, size) == maps[i].maxfree >= size + MarkSize /\ maps[i].locked = 0
Sub(i, size) == GetFirstBlock(maps[i].mk, size, maps[i].first)

(* Mutant of NewFirst: first stays on the subblock that was filled.        *)
NewFirstStays(mk, first, s) == first
(* allocBlock moves first on when the first free subblock is used.         *)
NewFirst(mk, first, s) == IF s = first THEN NextFree(mk, first) ELSE first

(* Mutant of NewMaxFree: maxfree stays when the largest subblock is used.  *)
NewMaxFreeStays(m, s, mk, first) == m.maxfree
(* maxfree is computed again when the largest free subblock was used.      *)
NewMaxFree(m, s, mk, first) ==
  IF m.mk[s].next.size = m.maxfree THEN GetMaxFreeFrom(mk, first) ELSE m.maxfree

(* The chunk is cut out of the chain of map m at s, and entered in its     *)
(* tables.                                                                 *)
CutSub(m, s, size) ==
  LET mk    == AllocBlock(m.mk, s, size)
      first == NewFirst(mk, m.first, s)
  IN [m EXCEPT !.mk = mk, !.first = first, !.maxfree = NewMaxFree(m, s, mk, first)]
TakeSub(m, s, db, size) ==
  LET r == s + MarkSize IN
  [CutSub(m, s, size) EXCEPT !.dblist = With(@, r, db), !.helper = HelperFind(@, r, size)]

(* FindFreeDynarecMap: the first map that says it has room and has it.  A  *)
(* map that says so and has not is left locked.                            *)
FindFree(i, db, size) ==
  /\ Asked(i, size) /\ Sub(i, size) # NoSub
  /\ \A j \in 1 .. i - 1 : ~(Asked(j, size) /\ Sub(j, size) # NoSub)
  /\ maps' = [j \in DOMAIN maps |->
                IF j = i THEN TakeSub(maps[i], Sub(i, size), db, size)
                ELSE IF j < i /\ Asked(j, size) THEN [maps[j] EXCEPT !.locked = 1]
                ELSE maps[j]]
  /\ chunks' = With(chunks, <<i, Sub(i, size) + MarkSize>>, size)
  /\ owner' = With(owner, <<i, Sub(i, size) + MarkSize>>, db)

(* AddNewDynarecMap: a new map, the chunk at its start.                    *)
NewMap(db, size) ==
  LET mk    == AllocBlock(NewChain(MapSize), 0, size)
      first == NextFree(mk, 0)
  IN [mk |-> mk, first |-> first, locked |-> 0,
      maxfree |-> GetMaxFreeFrom(mk, first),
      dblist |-> With([k \in {} |-> db], MarkSize, db),
      helper |-> HelperNew([x \in 0 .. MapSize - 1 |-> 0], MarkSize, size)]

AddNew(db, size) ==
  /\ \A i \in DOMAIN maps : ~(Asked(i, size) /\ Sub(i, size) # NoSub)
  /\ Len(maps) < MaxMaps
  /\ maps' = Append([j \in DOMAIN maps |->
                        IF Asked(j, size) THEN [maps[j] EXCEPT !.locked = 1] ELSE maps[j]],
                     NewMap(db, size))
  /\ chunks' = With(chunks, <<Len(maps) + 1, MarkSize>>, size)
  /\ owner' = With(owner, <<Len(maps) + 1, MarkSize>>, db)

Oversize(size) == size > MapSize - 2 * MarkSize
Unused(db) == \A p \in DOMAIN owner : owner[p] # db

(* AllocDynarecMap: a mapping of its own for a large block, else a chunk.  *)
AllocDynarecMap(db, size) ==
  /\ Unused(db)
  /\ ~Oversize(size)
  /\ AddNew(db, size) \/ \E i \in DOMAIN maps : FindFree(i, db, size)
  /\ UNCHANGED oversized

(* The kernel picks an address where nothing is mapped.                    *)
Overlap(p, m, q, n) == p[1] = q[1] /\ p[2] < q[2] + n /\ q[2] < p[2] + m
AllocOversized(db, size) ==
  /\ Unused(db)
  /\ Oversize(size)
  /\ \E a \in OversizedAt :
       /\ \A p \in DOMAIN chunks : ~Overlap(<<0, a>>, size, p, chunks[p])
       /\ oversized' = With(oversized, a, db)
       /\ chunks' = With(chunks, <<0, a>>, size)
       /\ owner' = With(owner, <<0, a>>, db)
  /\ UNCHANGED maps

(* freeBlock moves first back to a subblock that is freed before it.       *)
BackFirst(first, s, f) == IF first > s THEN f ELSE first

(* ActuallyFreeDynarecMap: the chunk behind the mark s goes back to the    *)
(* chain.  The entry of dblist is looked for, and the helper is cleared,   *)
(* from the mark on and not from the chunk on.                             *)
FreeSubblock(m, s) ==
  LET f   == FreedAt(m.mk, s)
      mk  == FreeBlock(m.mk, s)
      got == mk[f].next.size
  IN [m EXCEPT !.mk = mk,
               !.first = BackFirst(@, s, f),
               !.maxfree = IF @ < got THEN got ELSE @]
Cleared(h, s, size) == [x \in DOMAIN h |-> IF x \in s .. s + size - 1 THEN 0 ELSE h[x]]
GiveBack(m, s, size) ==
  [FreeSubblock(m, s) EXCEPT !.dblist = Without(@, s),
                             !.helper = Cleared(@, s, size),
                             !.locked = IF @ = 0 THEN 0 ELSE @ + 1]
ActuallyFree(p) ==
  maps' = [maps EXCEPT ![p[1]] = GiveBack(@, p[2] - MarkSize, chunks[p])]

FreeDynarecMap(p) ==
  /\ p \in DOMAIN chunks
  /\ \/ /\ Oversize(chunks[p])
        /\ oversized' = Without(oversized, p[2])
        /\ UNCHANGED maps
     \/ /\ ~Oversize(chunks[p])
        /\ ActuallyFree(p)
        /\ UNCHANGED oversized
  /\ chunks' = Without(chunks, p)
  /\ owner' = Without(owner, p)

Next ==
  \/ \E db \in Dynablocks, size \in Sizes : AllocDynarecMap(db, size) \/ AllocOversized(db, size)
  \/ \E p \in DOMAIN chunks : FreeDynarecMap(p)

Spec == Init /\ [][Next]_vars

-----------------------------------------------------------------------------
NoDynablock == "none"

(* FindDynablockFromNativeAddress: from byte p of map i follow the helper  *)
(* back to a byte that says 0, and look that up.                           *)
FindDynablock(i, p) ==
  LET m == maps[i]
      back[q \in DOMAIN m.helper] == IF m.helper[q] = 0 THEN q ELSE back[q - m.helper[q]]
  IN IF back[p] \in DOMAIN m.dblist THEN m.dblist[back[p]] ELSE NoDynablock

(* Type invariant.                                                         *)
TypeOK ==
  /\ Len(maps) <= MaxMaps
  /\ \A i \in DOMAIN maps :
       /\ maps[i].maxfree \in 0 .. MapSize
       /\ maps[i].first \in DOMAIN maps[i].mk
       /\ \A x \in DOMAIN maps[i].helper : maps[i].helper[x] \in 0 .. HelperMax
       /\ \A x \in DOMAIN maps[i].dblist : maps[i].dblist[x] \in Dynablocks
  /\ DOMAIN owner = DOMAIN chunks

(* The marks of every map form one sound chain and its filled subblocks    *)
(* are exactly the native code in use: a freed block of code gives all its *)
(* memory back, and no mark lies in code that can still run.               *)
CodeIsFilled ==
  \A i \in DOMAIN maps :
    /\ ChainSound(maps[i].mk, MapSize)
    /\ {m \in DOMAIN maps[i].mk : maps[i].mk[m].next.fill}
         = {p[2] - MarkSize : p \in {q \in DOMAIN chunks : q[1] = i}}
    /\ \A p \in DOMAIN chunks :
         p[1] = i => maps[i].mk[p[2] - MarkSize].next.size >= chunks[p]

(* first is the first free subblock of the map, or its end when it is      *)
(* full: the searches that start there miss nothing.                       *)
FirstIsFirstFree ==
  \A i \in DOMAIN maps :
    /\ ~maps[i].mk[maps[i].first].next.fill
    /\ \A m \in DOMAIN maps[i].mk : m < maps[i].first => maps[i].mk[m].next.fill

(* The maps after any sequence of allocations and frees: the types, the    *)
(* chains and the code they stand for, and where the searches start.       *)
MapsSound == TypeOK /\ CodeIsFilled /\ FirstIsFirstFree

(* A map that promises room has it: the branch "sub not found, corrupted   *)
(* mmaplist" of FindFreeDynarecMap, which leaves the map locked for ever,  *)
(* is never taken.                                                         *)
NeverLocked == \A i \in DOMAIN maps : maps[i].locked = 0

(* A native address inside a block in use leads back to that block, unless *)
(* it lies a positive multiple of HelperMax after its start: there the     *)
(* byte that FindFreeDynarecMap does not write can stop the walk.          *)
LookupFinds ==
  \A p \in DOMAIN chunks :
    p[1] # 0 => \A o \in 0 .. chunks[p] - 1 :
      (o % HelperMax # 0 \/ o = 0) => FindDynablock(p[1], p[2] + o) = owner[p]

Chunks == INSTANCE Allocator
(* Pieces of native code never overlap: the maps implement the abstract    *)
(* allocator.                                                              *)
ImplementsAllocator == Chunks!FixedSpec
=============================================================================
