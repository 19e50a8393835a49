-------------------------- MODULE GuestMutexProofs --------------------------
(***************************************************************************)
(* The pool of host mutexes, for any number of threads, mutexes, blocks    *)
(* and slots, and however many mutexes are raced for (MaxRaced).  What     *)
(* holds without races (Unraced) is a part of the invariant of its own;    *)
(* after a race, destroying a mutex gives back the slot of its index,      *)
(* which is why the indexes have an invariant (IndexOwned).                *)
(***************************************************************************)
EXTENDS GuestMutex, FiniteSetTheorems, WellFoundedInduction, TLAPS

PCs == {"idle", "check", "new", "again", "giveback", "kind", "self", "sign", "index",
        "pointer", "use", "crashed"}

CallRec == [pc : PCs, op : Ops \cup {None}, g : Mutexes \cup {None},
            k : Slot \cup {None}, m : Slot \cup {None}]

(* Types that TypeOK leaves out.                                           *)
TableOK ==
  /\ blocks \in Seq([free : 0 .. BlockSize, taken : SUBSET (0 .. BlockSize - 1)])
  /\ Len(blocks) <= MaxBlocks
CallsOK ==
  /\ call \in [Threads -> CallRec]
  /\ \A t \in Threads :
       /\ call[t].pc = "idle" => call[t].g = None
       /\ call[t].pc # "idle" => call[t].g \in Mutexes /\ call[t].op \in Ops
       /\ Carried(t) \subseteq Slot
HostsOK == \A k \in Slot : host[k].owner = None <=> host[k].depth = 0

(* The calls that will still store to the object of their mutex.           *)
Installing(t) ==
  \/ call[t].pc \in {"kind", "self", "sign", "index", "pointer"}
  \/ call[t].pc = "use" /\ call[t].op = "init"

(* A mutex owns the slot it points to once no call is about to change the  *)
(* pointer.  Settled is stronger: a call that will give its slot back does *)
(* not count here.                                                         *)
Ready(g) == g \in alive /\ Installed(g) /\ \A t \in In(g) : ~Installing(t)

SlotsExclusive ==
  /\ \A t \in Threads : Carried(t) \subseteq Taken
  /\ \A t, u \in Threads : t # u => Carried(t) \cap Carried(u) = {}
  /\ \A g \in Mutexes : Ready(g) => obj[g].m \in Taken
  /\ \A g, c \in Mutexes : Ready(g) /\ Ready(c) /\ g # c => obj[g].m # obj[c].m
  /\ \A g \in Mutexes, t \in Threads : Ready(g) => obj[g].m \notin Carried(t)

(* A mutex that is being initialised is dead and no other call is in it;   *)
(* the other calls are in mutexes that are alive.                          *)
InitCall(t) ==
  LET c == call[t] IN
  /\ c.pc # "idle" /\ c.op # "init" => c.g \in alive
  /\ c.pc # "idle" /\ c.op = "init" =>
       /\ c.g \notin alive /\ \A u \in Threads : call[u].g = c.g => u = t
       /\ c.pc \in {"new", "self", "sign", "index", "pointer", "use"}
       /\ c.pc \in {"sign", "index", "pointer", "use"} => obj[c.g].self = c.g
       /\ c.pc \in {"index", "pointer", "use"} => obj[c.g].sign
       /\ c.pc \in {"pointer", "use"} => obj[c.g].k = c.k
       /\ c.pc = "use" => obj[c.g].m = c.k /\ c.m = c.k
InitAlone == \A t \in Threads : InitCall(t)

(* Without races: a call that has company finds the mutex installed, a     *)
(* call that installs has none and knows how far it got.                   *)
Company(t, u) ==
  t # u /\ call[t].g = call[u].g /\ call[t].g \in Mutexes =>
    Installed(call[t].g) /\ call[t].pc \in {"check", "use"}
InstallCall(t) ==
  LET c == call[t] IN
  /\ c.pc \notin {"giveback", "crashed"}
  /\ c.pc \in {"new", "again", "kind", "self"} /\ c.op # "init" => ~Installed(c.g)
  /\ c.pc \in {"sign", "index", "pointer"} => obj[c.g].self = c.g
  /\ c.pc \in {"index", "pointer"} => obj[c.g].sign
  /\ c.pc = "pointer" => obj[c.g].k = c.k
  /\ c.pc = "use" /\ c.op # "init" => Installed(c.g) /\ c.m = obj[c.g].m
InstallAlone ==
  /\ \A t, u \in Threads : Company(t, u)
  /\ \A t \in Threads : InstallCall(t)
  /\ \A g \in Mutexes : Ready(g) => obj[g].k = obj[g].m

(* Without races: every taken slot has its owner ...                       *)
SlotsOwned ==
  \A k \in Taken : \/ \E t \in Threads : k \in Carried(t)
                   \/ \E g \in Mutexes : Ready(g) /\ obj[g].m = k

(* ... only a mutex that is ready is locked ...                            *)
OwnersHold ==
  /\ \A k \in Slot : host[k].owner # None => \E g \in Mutexes : Ready(g) /\ obj[g].m = k
  /\ \A g \in Mutexes :
       held[g] = IF Ready(g) THEN {host[obj[g].m].owner} \ {None} ELSE {}

(* ... and kinds are kept: by the host mutex, by the object until it has   *)
(* one, by the original of a copy and by the slot being installed.         *)
KindsKept ==
  /\ \A g \in Mutexes : Ready(g) => host[obj[g].m].kind = want[g]
  /\ \A g \in alive : ~obj[g].sign => obj[g].kind = want[g]
  /\ \A g \in alive : obj[g].sign /\ obj[g].self # g =>
       \E h \in Mutexes : h = obj[g].self /\ Ready(h) /\ obj[h].m = obj[g].m /\ want[h] = want[g]
  /\ \A t \in Threads :
       call[t].pc \in {"self", "sign", "index", "pointer"} /\ call[t].op # "init" =>
         host[call[t].k].kind = want[call[t].g]

(* The index stored in an object once nobody is about to store one: it is  *)
(* of a slot that is taken, and nobody else's.  After a race it need not   *)
(* be the slot the object points to.                                       *)
Indexing(t) == call[t].pc \in {"kind", "self", "sign", "index"}
Indexed(g) == g \in alive /\ Installed(g) /\ \A t \in In(g) : ~Indexing(t)
IndexOwned ==
  /\ \A g \in Mutexes : Indexed(g) => obj[g].k \in Taken
  /\ \A g \in Mutexes, t \in Threads :
       Indexed(g) /\ obj[g].k \in Carried(t) => call[t].g = g /\ call[t].pc = "pointer"
  /\ \A g, h \in Mutexes : Indexed(g) /\ Indexed(h) /\ g # h => obj[g].k # obj[h].k
  /\ \A g, h \in Mutexes : Indexed(g) /\ Ready(h) /\ g # h => obj[g].k # obj[h].m

Unraced == InstallAlone /\ SlotsOwned /\ OwnersHold /\ KindsKept

MutexInv ==
  /\ TypeOK /\ TableOK /\ CallsOK /\ HostsOK /\ FreeCount
  /\ SlotsExclusive /\ InitAlone
  /\ raced = {} => Unraced

-----------------------------------------------------------------------------
(* A set of natural numbers has a least element.                           *)
LEMMA LeastNat ==
  ASSUME NEW T \in SUBSET Nat, T # {}
  PROVE  \E x \in T : \A y \in T : x <= y
<1>1. PICK x \in T : \A y \in T : <<y, x>> \notin OpToRel(<, Nat)
  BY NatLessThanWellFounded, WFMin
<1>2. ASSUME NEW y \in T, y < x PROVE FALSE
  BY <1>1, <1>2 DEF OpToRel
<1> QED  BY <1>2

(* Where FreeMutex finds a slot: the block and the place in it.            *)
LEMMA SlotParts ==
  ASSUME NEW b \in Nat, NEW i \in 0 .. BlockSize - 1
  PROVE  /\ (b * BlockSize + i) \div BlockSize = b
         /\ (b * BlockSize + i) % BlockSize = i
<1>1. BlockSize \in Nat /\ BlockSize > 0
  BY GuestMutexAssumption
<1>2. b * BlockSize \in Nat
  BY <1>1
<1> QED  BY <1>1, <1>2, SMTT(30)

(* The slots of the blocks are slots of the table.                         *)
LEMMA SlotRange ==
  ASSUME NEW b \in 1 .. MaxBlocks, NEW i \in 0 .. BlockSize - 1
  PROVE  (b - 1) * BlockSize + i \in Slot
<1>1. BlockSize \in Nat /\ MaxBlocks \in Nat /\ b - 1 \in Nat
  BY GuestMutexAssumption
<1>2. (b - 1) * BlockSize \in Nat
  BY <1>1
<1>3. (b - 1) * BlockSize + BlockSize <= BlockSize * MaxBlocks
  BY <1>1, SMTT(30)
<1> QED  BY <1>1, <1>2, <1>3 DEF Slot

(* NewMutex finds a block with room and a free slot in it: the part of the *)
(* code after its loops is unreachable.                                    *)
LEMMA ChosenHasRoom ==
  ASSUME NEW bs \in Seq([free : 0 .. BlockSize, taken : SUBSET (0 .. BlockSize - 1)]),
         \E b \in DOMAIN bs : bs[b].free # 0
  PROVE  Chosen(bs) \in DOMAIN bs /\ bs[Chosen(bs)].free # 0
<1> DEFINE T == {b \in DOMAIN bs : bs[b].free # 0}
<1>1. T \in SUBSET Nat /\ T # {}
  OBVIOUS
<1>2. PICK b \in T : \A c \in T : b <= c
  BY <1>1, LeastNat
<1>3. \A c \in 1 .. b - 1 : bs[c].free = 0
  BY <1>2
<1>4. \E x \in DOMAIN bs : bs[x].free # 0 /\ \A c \in 1 .. x - 1 : bs[c].free = 0
  BY <1>2, <1>3
<1> QED  BY <1>4 DEF Chosen

(* The place NewMutex finds in that block is free.                         *)
LEMMA FirstFreeIsFree ==
  ASSUME NEW b \in [free : 0 .. BlockSize, taken : SUBSET (0 .. BlockSize - 1)],
         b.free = BlockSize - Cardinality(b.taken), b.free # 0
  PROVE  FirstFree(b) \in 0 .. BlockSize - 1 /\ FirstFree(b) \notin b.taken
<1> DEFINE T == (0 .. BlockSize - 1) \ b.taken
<1>0. BlockSize \in Nat /\ BlockSize > 0
  BY GuestMutexAssumption
<1>1. T # {}
  <2>1. Cardinality(0 .. BlockSize - 1) = BlockSize
    BY <1>0, FS_Interval
  <2>2. SUFFICES ASSUME T = {} PROVE FALSE
    OBVIOUS
  <2>3. b.taken = 0 .. BlockSize - 1
    BY <2>2
  <2> QED  BY <1>0, <2>1, <2>3
<1>2. T \in SUBSET Nat
  OBVIOUS
<1>3. PICK i \in T : \A j \in T : i <= j
  BY <1>1, <1>2, LeastNat
<1>4. \A j \in 0 .. i - 1 : j \in b.taken
  BY <1>0, <1>3
<1>5. \E x \in 0 .. BlockSize - 1 : x \notin b.taken /\ \A j \in 0 .. x - 1 : j \in b.taken
  BY <1>3, <1>4
<1> QED  BY <1>5 DEF FirstFree

-----------------------------------------------------------------------------
Block == [free : 0 .. BlockSize, taken : SUBSET (0 .. BlockSize - 1)]
Place(b, i) == (b - 1) * BlockSize + i
TakenOf(bs) == UNION {{Place(b, i) : i \in bs[b].taken} : b \in DOMAIN bs}
Counts(bs) == \A b \in DOMAIN bs : bs[b].free = BlockSize - Cardinality(bs[b].taken)

(* A taken slot, by its block and its place in it.                         *)
LEMMA InTaken ==
  ASSUME NEW bs, NEW k
  PROVE  k \in TakenOf(bs) <=> \E b \in DOMAIN bs : \E i \in bs[b].taken : k = Place(b, i)
BY DEF TakenOf

(* A slot number stands for one block and one place in it.                 *)
LEMMA SlotUnique ==
  ASSUME NEW b \in Nat \ {0}, NEW c \in Nat \ {0},
         NEW i \in 0 .. BlockSize - 1, NEW j \in 0 .. BlockSize - 1,
         Place(b, i) = Place(c, j)
  PROVE  b = c /\ i = j
<1>1. b - 1 \in Nat /\ c - 1 \in Nat
  OBVIOUS
<1>2. /\ Place(b, i) \div BlockSize = b - 1 /\ Place(b, i) % BlockSize = i
      /\ Place(c, j) \div BlockSize = c - 1 /\ Place(c, j) % BlockSize = j
  BY <1>1, SlotParts DEF Place
<1>3. b - 1 = c - 1 /\ i = j
  BY <1>2
<1> QED  BY <1>3

(* The blocks of a table, one by one.                                      *)
LEMMA BlockOf ==
  ASSUME NEW bs \in Seq(Block)
  PROVE  /\ Len(bs) \in Nat /\ DOMAIN bs = 1 .. Len(bs)
         /\ \A b \in DOMAIN bs :
              /\ b \in Nat \ {0} /\ bs[b] \in Block
              /\ bs[b].free \in 0 .. BlockSize /\ bs[b].taken \subseteq 0 .. BlockSize - 1
<1>1. Len(bs) \in Nat /\ DOMAIN bs = 1 .. Len(bs) /\ \A b \in DOMAIN bs : bs[b] \in Block
  OBVIOUS
<1>2. \A b \in DOMAIN bs : b \in Nat \ {0}
  BY <1>1
<1>3. \A r \in Block : r.free \in 0 .. BlockSize /\ r.taken \subseteq 0 .. BlockSize - 1
  BY DEF Block
<1> QED  BY <1>1, <1>2, <1>3

(* EXCEPT at one block leaves the others.                                  *)
LEMMA BlockChanged ==
  ASSUME NEW bs \in Seq(Block), NEW b \in DOMAIN bs, NEW r \in Block
  PROVE  LET new == [bs EXCEPT ![b] = r] IN
         /\ new \in Seq(Block) /\ DOMAIN new = DOMAIN bs /\ Len(new) = Len(bs) /\ new[b] = r
         /\ \A c \in DOMAIN bs : c # b => new[c] = bs[c]
OBVIOUS

(* One block gets the slot i, or loses it.                                 *)
LEMMA TakenAdds ==
  ASSUME NEW bs \in Seq(Block), NEW b \in DOMAIN bs, NEW i \in 0 .. BlockSize - 1,
         NEW bs2, DOMAIN bs2 = DOMAIN bs, bs2[b].taken = bs[b].taken \cup {i},
         \A c \in DOMAIN bs : c # b => bs2[c] = bs[c]
  PROVE  TakenOf(bs2) = TakenOf(bs) \cup {Place(b, i)}
<1>1. ASSUME NEW k \in TakenOf(bs2) PROVE k \in TakenOf(bs) \cup {Place(b, i)}
  <2>1. PICK c \in DOMAIN bs2 : \E j \in bs2[c].taken : k = Place(c, j)
    BY <1>1, InTaken
  <2>2. PICK j \in bs2[c].taken : k = Place(c, j)
    BY <2>1
  <2>3. j \in bs[c].taken \/ (c = b /\ j = i)
    OBVIOUS
  <2> QED  BY <2>2, <2>3, InTaken
<1>2. ASSUME NEW k \in TakenOf(bs) PROVE k \in TakenOf(bs2)
  BY InTaken
<1>3. Place(b, i) \in TakenOf(bs2)
  BY InTaken
<1> QED  BY <1>1, <1>2, <1>3

(* One block loses the slot i.                                             *)
LEMMA TakenRemoves ==
  ASSUME NEW bs \in Seq(Block), NEW b \in DOMAIN bs, NEW i \in 0 .. BlockSize - 1,
         NEW bs2, DOMAIN bs2 = DOMAIN bs, bs2[b].taken = bs[b].taken \ {i},
         \A c \in DOMAIN bs : c # b => bs2[c] = bs[c]
  PROVE  TakenOf(bs2) = TakenOf(bs) \ {Place(b, i)}
<1>0. \A c \in DOMAIN bs : c \in Nat \ {0} /\ bs[c].taken \subseteq 0 .. BlockSize - 1
  BY BlockOf
<1>1. ASSUME NEW c \in DOMAIN bs, NEW j \in 0 .. BlockSize - 1
      PROVE  Place(c, j) = Place(b, i) <=> c = b /\ j = i
  BY <1>0, SlotUnique
<1>2. ASSUME NEW k \in TakenOf(bs2) PROVE k \in TakenOf(bs) \ {Place(b, i)}
  <2>1. PICK c \in DOMAIN bs2 : \E j \in bs2[c].taken : k = Place(c, j)
    BY <1>2, InTaken
  <2>2. PICK j \in bs2[c].taken : k = Place(c, j)
    BY <2>1
  <2>3. j \in bs[c].taken /\ (c = b => j # i)
    OBVIOUS
  <2>4. k # Place(b, i)
    BY <1>0, <1>1, <2>2, <2>3
  <2> QED  BY <2>2, <2>3, <2>4, InTaken
<1>3. ASSUME NEW k \in TakenOf(bs), k # Place(b, i) PROVE k \in TakenOf(bs2)
  <2>1. PICK c \in DOMAIN bs : \E j \in bs[c].taken : k = Place(c, j)
    BY <1>3, InTaken
  <2>2. PICK j \in bs[c].taken : k = Place(c, j)
    BY <2>1
  <2>3. j \in bs2[c].taken
    BY <1>3, <2>2
  <2> QED  BY <2>2, <2>3, InTaken
<1> QED  BY <1>2, <1>3

(* The taken slots of a block are finitely many.                           *)
LEMMA TakenFinite ==
  ASSUME NEW T \in SUBSET (0 .. BlockSize - 1)
  PROVE  IsFiniteSet(T) /\ Cardinality(T) \in Nat /\ Cardinality(T) <= BlockSize
<1>1. BlockSize \in Nat /\ BlockSize > 0
  BY GuestMutexAssumption
<1>2. IsFiniteSet(0 .. BlockSize - 1) /\ Cardinality(0 .. BlockSize - 1) = BlockSize
  BY <1>1, FS_Interval
<1> QED  BY <1>2, FS_Subset, FS_CardinalityType

(* The table NewMutex works on: a block was added if none had room.        *)
LEMMA GrownTable ==
  ASSUME blocks \in Seq(Block), Counts(blocks)
  PROVE  /\ Grown \in Seq(Block) /\ Counts(Grown) /\ TakenOf(Grown) = TakenOf(blocks)
         /\ \E x \in DOMAIN Grown : Grown[x].free # 0
<1>0. BlockSize \in Nat /\ BlockSize > 0
  BY GuestMutexAssumption
<1>1. CASE \E x \in DOMAIN blocks : blocks[x].free # 0
  BY <1>1 DEF Grown
<1>2. CASE ~\E x \in DOMAIN blocks : blocks[x].free # 0
  <2>1. Grown = Append(blocks, NewMutexesBlock) /\ NewMutexesBlock \in Block
    BY <1>0, <1>2 DEF Grown, NewMutexesBlock, Block
  <2>2. /\ Grown \in Seq(Block) /\ DOMAIN Grown = DOMAIN blocks \cup {Len(blocks) + 1}
        /\ \A x \in DOMAIN blocks : Grown[x] = blocks[x]
        /\ Grown[Len(blocks) + 1] = NewMutexesBlock
    BY <2>1
  <2>3. NewMutexesBlock.free = BlockSize /\ NewMutexesBlock.taken = {} /\ Cardinality({}) = 0
    BY FS_EmptySet DEF NewMutexesBlock
  <2>4. Counts(Grown)
    <3>1. ASSUME NEW x \in DOMAIN Grown PROVE Grown[x].free = BlockSize - Cardinality(Grown[x].taken)
      <4>1. CASE x \in DOMAIN blocks
        BY <2>2, <4>1 DEF Counts
      <4>2. CASE x = Len(blocks) + 1
        <5>1. Grown[x].free = BlockSize /\ Cardinality(Grown[x].taken) = 0
          BY <2>2, <2>3, <4>2
        <5> QED  BY <1>0, <5>1
      <4> QED  BY <2>2, <4>1, <4>2
    <3> QED  BY <3>1 DEF Counts
  <2>5. \A x : x \in TakenOf(Grown) <=> x \in TakenOf(blocks)
    BY <2>2, <2>3, InTaken
  <2>6. TakenOf(Grown) = TakenOf(blocks)
    BY <2>5
  <2>7. \E x \in DOMAIN Grown : Grown[x].free # 0
    <3>1. Len(blocks) + 1 \in DOMAIN Grown /\ Grown[Len(blocks) + 1].free # 0
      BY <1>0, <2>2, <2>3
    <3> QED  BY <3>1
  <2> QED  BY <2>2, <2>4, <2>6, <2>7
<1> QED  BY <1>1, <1>2

(* NewMutex takes one slot that was free.                                  *)
LEMMA NewMutexTable ==
  ASSUME NEW bs \in Seq(Block), Counts(bs), \E x \in DOMAIN bs : bs[x].free # 0, Len(bs) <= MaxBlocks
  PROVE  LET k   == Place(Chosen(bs), FirstFree(bs[Chosen(bs)]))
             new == NewMutex(bs, Chosen(bs))
         IN /\ new \in Seq(Block) /\ Len(new) <= MaxBlocks /\ Counts(new)
            /\ k \in Slot /\ k \notin TakenOf(bs) /\ TakenOf(new) = TakenOf(bs) \cup {k}
<1> DEFINE b == Chosen(bs)
           i == FirstFree(bs[b])
           r == [free |-> bs[b].free - 1, taken |-> bs[b].taken \cup {i}]
           new == [bs EXCEPT ![b] = r]
<1>0. BlockSize \in Nat /\ BlockSize > 0 /\ MaxBlocks \in Nat
  BY GuestMutexAssumption
<1>1. b \in DOMAIN bs /\ bs[b].free # 0
  BY ChosenHasRoom DEF Block
<1>2. /\ b \in 1 .. Len(bs) /\ b \in Nat \ {0} /\ bs[b] \in Block
      /\ bs[b].free \in 0 .. BlockSize /\ bs[b].taken \subseteq 0 .. BlockSize - 1
      /\ bs[b].free = BlockSize - Cardinality(bs[b].taken)
  BY <1>1, BlockOf DEF Counts
<1>3. i \in 0 .. BlockSize - 1 /\ i \notin bs[b].taken
  BY <1>1, <1>2, FirstFreeIsFree DEF Block
<1>4. NewMutex(bs, b) = new
  BY DEF NewMutex
<1> HIDE DEF b, i
<1>5. r \in Block
  BY <1>0, <1>1, <1>2, <1>3 DEF Block
<1>6. /\ new \in Seq(Block) /\ Len(new) = Len(bs) /\ DOMAIN new = DOMAIN bs /\ new[b] = r
      /\ \A c \in DOMAIN bs : c # b => new[c] = bs[c]
  BY <1>1, <1>5, BlockChanged
<1>7. TakenOf(new) = TakenOf(bs) \cup {Place(b, i)}
  <2>1. new[b].taken = bs[b].taken \cup {i}
    BY <1>6
  <2> HIDE DEF r, new
  <2> QED  BY <1>1, <1>3, <1>6, <2>1, TakenAdds
<1>8. Place(b, i) \notin TakenOf(bs)
  <2>1. SUFFICES ASSUME NEW c \in DOMAIN bs, NEW j \in bs[c].taken, Place(b, i) = Place(c, j) PROVE FALSE
    BY InTaken
  <2>2. c \in Nat \ {0} /\ j \in 0 .. BlockSize - 1
    BY <2>1, BlockOf
  <2>3. b = c /\ i = j
    BY <1>2, <1>3, <2>1, <2>2, SlotUnique
  <2> QED  BY <1>3, <2>3
<1>9. Place(b, i) \in Slot
  <2>1. b \in 1 .. MaxBlocks
    BY <1>0, <1>2, BlockOf
  <2> QED  BY <1>3, <2>1, SlotRange DEF Place
<1>10. Counts(new)
  <2>1. IsFiniteSet(bs[b].taken) /\ Cardinality(bs[b].taken) \in Nat
    BY <1>2, TakenFinite
  <2>2. Cardinality(bs[b].taken \cup {i}) = Cardinality(bs[b].taken) + 1
    BY <1>3, <2>1, FS_AddElement
  <2>3. r.free = BlockSize - Cardinality(r.taken)
    BY <1>0, <1>2, <2>1, <2>2
  <2> QED  BY <1>6, <2>3 DEF Counts
<1> QED  BY <1>4, <1>6, <1>7, <1>8, <1>9, <1>10 DEF b, i

(* FreeMutex gives back one slot that was taken.                           *)
LEMMA FreeMutexTable ==
  ASSUME NEW bs \in Seq(Block), Counts(bs), NEW k \in TakenOf(bs)
  PROVE  LET new == FreeMutex(bs, k) IN
         new \in Seq(Block) /\ Len(new) = Len(bs) /\ Counts(new) /\ TakenOf(new) = TakenOf(bs) \ {k}
<1>0. BlockSize \in Nat /\ BlockSize > 0
  BY GuestMutexAssumption
<1>a. PICK b \in DOMAIN bs : \E i \in bs[b].taken : k = Place(b, i)
  BY InTaken
<1>1. PICK i \in bs[b].taken : k = Place(b, i)
  BY <1>a
<1>2. /\ b \in Nat \ {0} /\ b - 1 \in Nat /\ i \in 0 .. BlockSize - 1
      /\ bs[b].free \in 0 .. BlockSize /\ bs[b].taken \subseteq 0 .. BlockSize - 1
      /\ bs[b].free = BlockSize - Cardinality(bs[b].taken)
  BY BlockOf DEF Counts
<1>3. k \div BlockSize + 1 = b /\ k % BlockSize = i
  <2>1. k \div BlockSize = b - 1 /\ k % BlockSize = i
    BY <1>1, <1>2, SlotParts DEF Place
  <2> QED  BY <1>2, <2>1
<1> DEFINE r == [free |-> bs[b].free + 1, taken |-> bs[b].taken \ {i}]
           new == [bs EXCEPT ![b] = r]
<1>4. FreeMutex(bs, k) = new
  BY <1>3 DEF FreeMutex
<1>5. /\ Cardinality(bs[b].taken \ {i}) = Cardinality(bs[b].taken) - 1
      /\ Cardinality(bs[b].taken \ {i}) \in Nat /\ Cardinality(bs[b].taken) \in Nat
  <2>1. IsFiniteSet(bs[b].taken)
    BY <1>2, TakenFinite
  <2> QED  BY <2>1, FS_RemoveElement, FS_CardinalityType
<1>6. r \in Block /\ r.free = BlockSize - Cardinality(r.taken)
  <2> DEFINE n == bs[b].free
             c == Cardinality(bs[b].taken)
             d == Cardinality(bs[b].taken \ {i})
  <2>0. n \in 0 .. BlockSize /\ n = BlockSize - c /\ c \in Nat /\ d \in Nat /\ d = c - 1
    BY <1>2, <1>5
  <2> HIDE DEF n, c, d
  <2>1. n + 1 \in 0 .. BlockSize /\ n + 1 = BlockSize - d
    BY <1>0, <2>0
  <2> USE DEF n, d
  <2>2. bs[b].taken \ {i} \in SUBSET (0 .. BlockSize - 1)
    BY <1>2
  <2> QED  BY <2>1, <2>2 DEF Block
<1>7. /\ new \in Seq(Block) /\ Len(new) = Len(bs) /\ DOMAIN new = DOMAIN bs /\ new[b] = r
      /\ \A c \in DOMAIN bs : c # b => new[c] = bs[c]
  BY <1>6, BlockChanged
<1>8. TakenOf(new) = TakenOf(bs) \ {k}
  <2>1. new[b].taken = bs[b].taken \ {i}
    BY <1>7
  <2> HIDE DEF r, new
  <2>2. TakenOf(new) = TakenOf(bs) \ {Place(b, i)}
    <3>1. i \in 0 .. BlockSize - 1
      BY <1>2
    <3>2. DOMAIN new = DOMAIN bs /\ \A c \in DOMAIN bs : c # b => new[c] = bs[c]
      BY <1>7
    <3> QED  BY <2>1, <3>1, <3>2, TakenRemoves
  <2> QED  BY <1>1, <2>2
<1>9. Counts(new)
  BY <1>6, <1>7 DEF Counts
<1> QED  BY <1>4, <1>7, <1>8, <1>9

-----------------------------------------------------------------------------
(* A step that changes the call of t only, field by field.                 *)
Moved(t, pc, op, g, k, m) ==
  /\ call' \in [Threads -> CallRec]
  /\ call'[t].pc = pc /\ call'[t].op = op /\ call'[t].g = g /\ call'[t].k = k /\ call'[t].m = m
  /\ \A u \in Threads : u # t => call'[u] = call[u]

(* The fields of a call have their types.                                  *)
LEMMA CallFields ==
  ASSUME CallsOK, NEW t \in Threads
  PROVE  /\ call[t] \in CallRec
         /\ call[t].pc \in PCs /\ call[t].op \in Ops \cup {None} /\ call[t].g \in Mutexes \cup {None}
         /\ call[t].k \in Slot \cup {None} /\ call[t].m \in Slot \cup {None}
BY DEF CallsOK, CallRec

(* A call replaced by a record that is a call is moved there.              *)
LEMMA CallTo ==
  ASSUME CallsOK, NEW t \in Threads,
         NEW pc \in PCs, NEW op \in Ops \cup {None}, NEW g \in Mutexes \cup {None},
         NEW k \in Slot \cup {None}, NEW m \in Slot \cup {None},
         call' = [call EXCEPT ![t] = [pc |-> pc, op |-> op, g |-> g, k |-> k, m |-> m]]
  PROVE  Moved(t, pc, op, g, k, m)
BY DEF CallsOK, CallRec, Moved

(* What a changed call means for the slots in the hands of calls and for   *)
(* the calls in a mutex.                                                   *)
LEMMA MovedFrame ==
  ASSUME CallsOK, NEW t \in Threads, NEW pc, NEW op, NEW g, NEW k, NEW m, Moved(t, pc, op, g, k, m)
  PROVE  /\ \A u \in Threads : u # t => /\ Carried(u)' = Carried(u)
                                        /\ Installing(u)' <=> Installing(u)
         /\ Carried(t)' =
              IF \/ pc \in {"again", "giveback", "kind", "self", "sign", "index", "pointer"}
                 \/ pc = "use" /\ op = "init"
              THEN {k} ELSE {}
         /\ Installing(t)' <=> \/ pc \in {"kind", "self", "sign", "index", "pointer"}
                               \/ pc = "use" /\ op = "init"
         /\ \A h : In(h)' = IF h = g THEN In(h) \cup {t} ELSE In(h) \ {t}
<1>1. ASSUME NEW u \in Threads, u # t
      PROVE  Carried(u)' = Carried(u) /\ (Installing(u)' <=> Installing(u))
  <2>1. call'[u] = call[u]
    BY <1>1 DEF Moved
  <2> QED  BY <2>1 DEF Carried, Installing
<1>2. /\ call'[t].pc = pc /\ call'[t].op = op /\ call'[t].g = g /\ call'[t].k = k
      /\ \A u \in Threads : u # t => call'[u] = call[u]
  BY DEF Moved
<1>3. \A h : In(h)' = IF h = g THEN In(h) \cup {t} ELSE In(h) \ {t}
  <2>1. ASSUME NEW h, NEW u PROVE u \in In(h)' <=> u \in (IF h = g THEN In(h) \cup {t} ELSE In(h) \ {t})
    BY <1>2 DEF In
  <2> QED  BY <2>1
<1> QED  BY <1>1, <1>2, <1>3 DEF Carried, Installing

(* Where each step that moves on takes its call.                           *)
LEMMA GotoMoves ==
  ASSUME CallsOK, NEW t \in Threads, NEW pc \in PCs, Goto(t, pc)
  PROVE  Moved(t, pc, call[t].op, call[t].g, call[t].k, call[t].m)
<1>1. call[t] \in CallRec /\ [call[t] EXCEPT !.pc = pc] \in CallRec
  BY CallFields DEF CallRec
<1>2. call' = [call EXCEPT ![t] = [call[t] EXCEPT !.pc = pc]]
  BY DEF Goto
<1> QED  BY <1>1, <1>2 DEF Moved, CallsOK, CallRec

(* EXCEPT on two fields of a call.                                         *)
LEMMA TwoFields ==
  ASSUME NEW c \in CallRec, NEW pc, NEW m
  PROVE  [c EXCEPT !.pc = pc, !.m = m] = [pc |-> pc, op |-> c.op, g |-> c.g, k |-> c.k, m |-> m]
<1> DEFINE d == [c EXCEPT !.pc = pc]
<1>1. d = [pc |-> pc, op |-> c.op, g |-> c.g, k |-> c.k, m |-> c.m]
  BY DEF CallRec
<1>2. [c EXCEPT !.pc = pc, !.m = m] = [d EXCEPT !.m = m]
  OBVIOUS
<1> HIDE DEF d
<1>3. [d EXCEPT !.m = m] = [pc |-> pc, op |-> c.op, g |-> c.g, k |-> c.k, m |-> m]
  BY <1>1
<1> QED  BY <1>2, <1>3

(* Where every other step takes its call.                                  *)
LEMMA StepsMove ==
  ASSUME CallsOK, TypeOK, NEW t \in Threads
  PROVE  LET c == call[t] IN
         /\ \A op \in Ops, g \in Mutexes : Call(t, op, g) => Moved(t, "check", op, g, None, None)
         /\ \A g \in Mutexes, kind \in Kinds :
              CallInit(t, g, kind) => Moved(t, "new", "init", g, None, None)
         /\ Check(t) => IF Installed(c.g) THEN Moved(t, "use", c.op, c.g, c.k, obj[c.g].m)
                                          ELSE Moved(t, "new", c.op, c.g, c.k, c.m)
         /\ CheckAgain(t) => IF Installed(c.g) THEN Moved(t, "giveback", c.op, c.g, c.k, obj[c.g].m)
                                               ELSE Moved(t, "kind", c.op, c.g, c.k, c.m)
         /\ SetPointer(t) => Moved(t, "use", c.op, c.g, c.k, c.k)
         /\ HostLock(t) \/ HostBusy(t) \/ HostUnlock(t) \/ HostInit(t) =>
              Moved(t, "idle", None, None, None, None)
<1> DEFINE c == call[t]
<1>0. /\ c \in CallRec /\ c.pc \in PCs /\ c.op \in Ops \cup {None} /\ c.g \in Mutexes \cup {None}
      /\ c.k \in Slot \cup {None} /\ c.m \in Slot \cup {None}
      /\ c = [pc |-> c.pc, op |-> c.op, g |-> c.g, k |-> c.k, m |-> c.m]
  BY CallFields DEF CallRec
<1>1. ASSUME NEW op \in Ops, NEW g \in Mutexes, Call(t, op, g) PROVE Moved(t, "check", op, g, None, None)
  BY <1>1, CallTo DEF Call, Calling, PCs
<1>2. ASSUME NEW g \in Mutexes, NEW kind \in Kinds, CallInit(t, g, kind)
      PROVE  Moved(t, "new", "init", g, None, None)
  BY <1>2, CallTo DEF CallInit, Calling, PCs, Ops
<1>3. ASSUME c.pc # "idle", Installed(c.g) PROVE obj[c.g].m \in Slot \cup {None}
  BY <1>3 DEF CallsOK, TypeOK
<1>4. ASSUME Check(t)
      PROVE  IF Installed(c.g) THEN Moved(t, "use", c.op, c.g, c.k, obj[c.g].m)
                               ELSE Moved(t, "new", c.op, c.g, c.k, c.m)
  <2>1. c.pc = "check"
    BY <1>4 DEF Check
  <2>2. CASE Installed(c.g)
    <3>1. call' = [call EXCEPT ![t] = [c EXCEPT !.pc = "use", !.m = obj[c.g].m]]
      BY <1>4, <2>2 DEF Check
    <3>2. [c EXCEPT !.pc = "use", !.m = obj[c.g].m] = [pc |-> "use", op |-> c.op, g |-> c.g, k |-> c.k, m |-> obj[c.g].m]
      BY <1>0, TwoFields
    <3> QED  BY <1>0, <1>3, <2>1, <2>2, <3>1, <3>2, CallTo DEF PCs
  <2>3. CASE ~Installed(c.g)
    <3>1. call' = [call EXCEPT ![t] = [c EXCEPT !.pc = "new"]]
      BY <1>4, <2>3 DEF Check
    <3> QED  BY <2>3, <3>1, GotoMoves DEF Goto, PCs
  <2> QED  BY <2>2, <2>3
<1>5. ASSUME CheckAgain(t)
      PROVE  IF Installed(c.g) THEN Moved(t, "giveback", c.op, c.g, c.k, obj[c.g].m)
                               ELSE Moved(t, "kind", c.op, c.g, c.k, c.m)
  <2>1. c.pc = "again"
    BY <1>5 DEF CheckAgain
  <2>2. CASE Installed(c.g)
    <3>1. call' = [call EXCEPT ![t] = [c EXCEPT !.pc = "giveback", !.m = obj[c.g].m]]
      BY <1>5, <2>2 DEF CheckAgain
    <3>2. [c EXCEPT !.pc = "giveback", !.m = obj[c.g].m] = [pc |-> "giveback", op |-> c.op, g |-> c.g, k |-> c.k, m |-> obj[c.g].m]
      BY <1>0, TwoFields
    <3> QED  BY <1>0, <1>3, <2>1, <2>2, <3>1, <3>2, CallTo DEF PCs
  <2>3. CASE ~Installed(c.g)
    <3>1. call' = [call EXCEPT ![t] = [c EXCEPT !.pc = "kind"]]
      BY <1>5, <2>3 DEF CheckAgain
    <3> QED  BY <2>3, <3>1, GotoMoves DEF Goto, PCs
  <2> QED  BY <2>2, <2>3
<1>6. ASSUME SetPointer(t) PROVE Moved(t, "use", c.op, c.g, c.k, c.k)
  <2>1. call' = [call EXCEPT ![t] = [c EXCEPT !.pc = "use", !.m = c.k]]
    BY <1>6 DEF SetPointer
  <2>2. [c EXCEPT !.pc = "use", !.m = c.k] = [pc |-> "use", op |-> c.op, g |-> c.g, k |-> c.k, m |-> c.k]
    BY <1>0, TwoFields
  <2> QED  BY <1>0, <2>1, <2>2, CallTo DEF PCs
<1>7. ASSUME HostLock(t) \/ HostBusy(t) \/ HostUnlock(t) \/ HostInit(t)
      PROVE  Moved(t, "idle", None, None, None, None)
  <2>1. call' = [call EXCEPT ![t] = Idle]
    BY <1>7 DEF HostLock, HostBusy, HostUnlock, HostInit
  <2> QED  BY <2>1, CallTo DEF Idle, Calling, PCs
<1> QED  BY <1>1, <1>2, <1>4, <1>5, <1>6, <1>7

-----------------------------------------------------------------------------
(* The slots taken and their counts, as the lemmas on tables state them.   *)
LEMMA TakenIs == Taken = TakenOf(blocks) /\ Taken' = TakenOf(blocks')
BY DEF Taken, TakenOf, Place

(* The table has its type before and after in the same words.              *)
LEMMA TableIs ==
  /\ TableOK <=> blocks \in Seq(Block) /\ Len(blocks) <= MaxBlocks
  /\ TableOK' <=> blocks' \in Seq(Block) /\ Len(blocks') <= MaxBlocks
  /\ FreeCount <=> Counts(blocks)
  /\ FreeCount' <=> Counts(blocks')
BY DEF TableOK, Block, FreeCount, Counts

(* The step that takes a slot ...                                          *)
LEMMA TakeSlotEffect ==
  ASSUME CallsOK, TableOK, FreeCount, NEW t \in Threads, TakeSlot(t)
  PROVE  /\ TableOK' /\ FreeCount'
         /\ \E k \in Slot :
              /\ k \notin Taken /\ Taken' = Taken \cup {k}
              /\ Moved(t, IF call[t].op = "init" THEN "self" ELSE "again",
                       call[t].op, call[t].g, k, call[t].m)
<1> DEFINE b == Chosen(Grown)
           k == Place(b, FirstFree(Grown[b]))
           pc == IF call[t].op = "init" THEN "self" ELSE "again"
<1>1. /\ Grown \in Seq(Block) /\ Counts(Grown) /\ TakenOf(Grown) = TakenOf(blocks)
      /\ \E x \in DOMAIN Grown : Grown[x].free # 0
  BY GrownTable, TableIs
<1>2. Len(Grown) <= MaxBlocks /\ blocks' = NewMutex(Grown, b)
  BY DEF TakeSlot
<1>3. /\ blocks' \in Seq(Block) /\ Len(blocks') <= MaxBlocks /\ Counts(blocks')
      /\ k \in Slot /\ k \notin TakenOf(Grown) /\ TakenOf(blocks') = TakenOf(Grown) \cup {k}
  <2> HIDE DEF NewMutex, Grown
  <2> QED  BY <1>1, <1>2, NewMutexTable
<1>4. call' = [call EXCEPT ![t] = [call[t] EXCEPT !.pc = pc, !.k = k]]
  BY DEF TakeSlot, Place
<1> HIDE DEF k, b
<1>5. Moved(t, pc, call[t].op, call[t].g, k, call[t].m)
  <2>1. call[t] \in CallRec
    BY CallFields
  <2>2. [call[t] EXCEPT !.pc = pc, !.k = k] =
        [pc |-> pc, op |-> call[t].op, g |-> call[t].g, k |-> k, m |-> call[t].m]
    <3> DEFINE d == [call[t] EXCEPT !.pc = pc]
    <3>1. d = [pc |-> pc, op |-> call[t].op, g |-> call[t].g, k |-> call[t].k, m |-> call[t].m]
      BY <2>1 DEF CallRec
    <3>2. [call[t] EXCEPT !.pc = pc, !.k = k] = [d EXCEPT !.k = k]
      OBVIOUS
    <3> HIDE DEF d
    <3>3. [d EXCEPT !.k = k] = [pc |-> pc, op |-> call[t].op, g |-> call[t].g, k |-> k, m |-> call[t].m]
      BY <3>1
    <3> QED  BY <3>2, <3>3
  <2> QED  BY <1>3, <1>4, <2>2, CallFields, CallTo DEF PCs
<1> QED  BY <1>1, <1>3, <1>5, TakenIs, TableIs

(* ... and the ones that give it back.                                     *)
LEMMA FreeEffect ==
  ASSUME TableOK, FreeCount, NEW k \in Taken, blocks' = FreeMutex(blocks, k)
  PROVE  TableOK' /\ FreeCount' /\ Taken' = Taken \ {k}
<1>1. blocks \in Seq(Block) /\ Counts(blocks) /\ k \in TakenOf(blocks) /\ Len(blocks) <= MaxBlocks
  BY TableIs, TakenIs
<1>2. /\ blocks' \in Seq(Block) /\ Len(blocks') = Len(blocks) /\ Counts(blocks')
      /\ TakenOf(blocks') = TakenOf(blocks) \ {k}
  BY <1>1, FreeMutexTable
<1> QED  BY <1>1, <1>2, TableIs, TakenIs

-----------------------------------------------------------------------------
(* How slots change hands.  Mutexes other than g keep their slots:         *)
OthersKeep(g) ==
  \A h \in Mutexes : h # g => /\ Ready(h)' <=> Ready(h)
                              /\ Ready(h) => obj'[h].m = obj[h].m

(* nobody gets or loses a slot,                                            *)
LEMMA OwnSame ==
  ASSUME SlotsExclusive, Taken' = Taken, OthersKeep(None),
         \A u \in Threads : Carried(u)' = Carried(u)
  PROVE  SlotsExclusive' /\ (SlotsOwned => SlotsOwned')
<1>1. \A h \in Mutexes : (Ready(h)' <=> Ready(h)) /\ (Ready(h) => obj'[h].m = obj[h].m)
  BY GuestMutexAssumption DEF OthersKeep
<1> QED  BY <1>1 DEF SlotsExclusive, SlotsOwned

(* a call takes a slot,                                                    *)
LEMMA OwnTake ==
  ASSUME SlotsExclusive, OthersKeep(None), NEW t \in Threads, NEW k, k \notin Taken,
         Taken' = Taken \cup {k}, Carried(t) = {}, Carried(t)' = {k},
         \A u \in Threads : u # t => Carried(u)' = Carried(u)
  PROVE  SlotsExclusive' /\ (SlotsOwned => SlotsOwned')
<1>1. \A h \in Mutexes : (Ready(h)' <=> Ready(h)) /\ (Ready(h) => obj'[h].m = obj[h].m)
  BY GuestMutexAssumption DEF OthersKeep
<1>2. SlotsExclusive'
  BY <1>1 DEF SlotsExclusive
<1>3. SlotsOwned => SlotsOwned'
  BY <1>1 DEF SlotsOwned
<1> QED  BY <1>2, <1>3

(* a call gives it back,                                                   *)
LEMMA OwnGive ==
  ASSUME SlotsExclusive, OthersKeep(None), NEW t \in Threads, NEW k,
         Taken' = Taken \ {k}, Carried(t) = {k}, Carried(t)' = {},
         \A u \in Threads : u # t => Carried(u)' = Carried(u)
  PROVE  SlotsExclusive'
<1>1. \A h \in Mutexes : (Ready(h)' <=> Ready(h)) /\ (Ready(h) => obj'[h].m = obj[h].m)
  BY GuestMutexAssumption DEF OthersKeep
<1> QED  BY <1>1 DEF SlotsExclusive

(* a call leaves it to its mutex,                                          *)
LEMMA OwnHand ==
  ASSUME SlotsExclusive, NEW t \in Threads, NEW k, NEW g \in Mutexes, OthersKeep(g),
         Taken' = Taken, Carried(t) = {k}, Carried(t)' = {}, obj'[g].m = k,
         \A u \in Threads : u # t => Carried(u)' = Carried(u)
  PROVE  SlotsExclusive' /\ (Ready(g)' /\ ~Ready(g) /\ SlotsOwned => SlotsOwned')
<1>1. SlotsExclusive'
  BY DEF SlotsExclusive, OthersKeep
<1>2. ASSUME Ready(g)', ~Ready(g), SlotsOwned PROVE SlotsOwned'
  BY <1>2 DEF SlotsOwned, OthersKeep
<1> QED  BY <1>1, <1>2

(* a mutex gives a slot of its own back.                                   *)
LEMMA OwnDrop ==
  ASSUME SlotsExclusive, NEW g \in Mutexes, NEW k, OthersKeep(g), ~Ready(g)',
         Ready(g) => Taken' = Taken \ {k}, ~Ready(g) => Taken' = Taken,
         Ready(g) => \A h \in Mutexes : h # g /\ Ready(h) => obj[h].m # k,
         Ready(g) => \A u \in Threads : k \notin Carried(u),
         \A u \in Threads : Carried(u)' = Carried(u)
  PROVE  SlotsExclusive' /\ (k = obj[g].m /\ SlotsOwned => SlotsOwned')
<1>1. SlotsExclusive'
  BY DEF SlotsExclusive, OthersKeep
<1>2. ASSUME k = obj[g].m, SlotsOwned PROVE SlotsOwned'
  BY <1>2 DEF SlotsOwned, OthersKeep
<1> QED  BY <1>1, <1>2

(* Who holds a mutex, as long as nobody locks or unlocks one.              *)
LEMMA OwnersFrame ==
  ASSUME OwnersHold, NEW g, OthersKeep(g), held' = held,
         \A k \in Slot : host'[k].owner = host[k].owner,
         g \in Mutexes /\ Ready(g) => host[obj[g].m].owner = None,
         g \in Mutexes /\ Ready(g)' => obj'[g].m \in Slot /\ host[obj'[g].m].owner = None,
         \A h \in Mutexes : Ready(h) => obj[h].m \in Slot
  PROVE  OwnersHold'
<1>1. ASSUME NEW k \in Slot, host'[k].owner # None PROVE \E h \in Mutexes : Ready(h)' /\ obj'[h].m = k
  BY <1>1 DEF OwnersHold, OthersKeep
<1>2. ASSUME NEW h \in Mutexes PROVE held'[h] = IF Ready(h)' THEN {host'[obj'[h].m].owner} \ {None} ELSE {}
  <2>1. held'[h] = IF Ready(h) THEN {host[obj[h].m].owner} \ {None} ELSE {}
    BY DEF OwnersHold
  <2>2. CASE h # g
    <3>1. (Ready(h)' <=> Ready(h)) /\ (Ready(h) => obj'[h].m = obj[h].m)
      BY <2>2 DEF OthersKeep
    <3>2. Ready(h) => host'[obj'[h].m].owner = host[obj[h].m].owner
      BY <3>1
    <3> QED  BY <2>1, <3>1, <3>2
  <2>3. CASE h = g
    <3>1. held'[h] = {}
      BY <2>1, <2>3
    <3>2. Ready(h)' => host'[obj'[h].m].owner = None
      BY <2>3
    <3> QED  BY <3>1, <3>2
  <2> QED  BY <2>2, <2>3
<1> QED  BY <1>1, <1>2 DEF OwnersHold

-----------------------------------------------------------------------------
(* Frames: what a step of t leaves as it was.                              *)
LEMMA ReadyFrame ==
  ASSUME CallsOK, NEW t \in Threads, NEW pc, NEW op, NEW g, NEW k, NEW m, Moved(t, pc, op, g, k, m),
         NEW h \in Mutexes,
         (h \in alive' /\ Installed(h)') <=> (h \in alive /\ Installed(h)),
         h \in alive /\ Installed(h) =>
           ((g = h /\ Installing(t)') <=> (call[t].g = h /\ Installing(t)))
  PROVE  Ready(h)' <=> Ready(h)
<1>1. \A u \in Threads : u # t => (Installing(u)' <=> Installing(u))
  BY MovedFrame
<1>2. \A u \in Threads : u # t => call'[u].g = call[u].g
  BY DEF Moved
<1>3. call'[t].g = g
  BY DEF Moved
<1> QED  BY <1>1, <1>2, <1>3 DEF Ready, In

(* A step of one thread keeps the calls of the others well formed.         *)
LEMMA CallsFrame ==
  ASSUME CallsOK, NEW t \in Threads, NEW pc, NEW op, NEW g, NEW k, NEW m, Moved(t, pc, op, g, k, m),
         pc = "idle" => g = None, pc # "idle" => g \in Mutexes /\ op \in Ops, Carried(t)' \subseteq Slot
  PROVE  CallsOK'
<1>1. \A u \in Threads : u # t => Carried(u)' = Carried(u)
  BY MovedFrame
<1> QED  BY <1>1 DEF CallsOK, Moved

(* It keeps the company of a mutex under pthread_mutex_init away, ...      *)
LEMMA InitFrame ==
  ASSUME CallsOK, InitAlone, NEW t \in Threads,
         NEW pc, NEW op, NEW g, NEW k, NEW m, Moved(t, pc, op, g, k, m),
         g = call[t].g \/ g = None \/ \A u \in Threads : call[u].g = g => call[u].op # "init",
         alive \subseteq alive', alive' \subseteq alive \cup {call[t].g}, InitCall(t)',
         \A h \in Mutexes : h # call[t].g => obj'[h] = obj[h]
  PROVE  InitAlone'
<1>1. ASSUME NEW u \in Threads, u # t PROVE InitCall(u)'
  <2>1. call'[u] = call[u] /\ call'[t].g = g /\ \A v \in Threads : v # t => call'[v].g = call[v].g
    BY <1>1 DEF Moved
  <2>2. CASE call[u].pc # "idle" /\ call[u].op = "init"
    <3>1. call[u].g \in Mutexes /\ \A v \in Threads : call[v].g = call[u].g => v = u
      BY <2>2 DEF CallsOK, InitAlone, InitCall
    <3>2. call[u].g # call[t].g /\ obj'[call[u].g] = obj[call[u].g] /\ call[u].g # None
      BY <1>1, <3>1, GuestMutexAssumption
    <3>a. g # call[u].g
      BY <2>2, <3>2
    <3>3. \A v \in Threads : call'[v].g = call[u].g => v = u
      BY <2>1, <3>1, <3>a
    <3> QED  BY <2>1, <2>2, <3>2, <3>3 DEF InitAlone, InitCall
  <2>3. CASE ~(call[u].pc # "idle" /\ call[u].op = "init")
    BY <2>1, <2>3 DEF InitAlone, InitCall
  <2> QED  BY <2>2, <2>3
<1> QED  BY <1>1 DEF InitAlone

AloneIn(t) == \A u \in Threads : u # t => call[u].g # call[t].g

(* and that of a mutex that one call installs.                             *)
LEMMA InstallFrame ==
  ASSUME CallsOK, InstallAlone, NEW t \in Threads,
         NEW pc, NEW op, NEW g, NEW k, NEW m, Moved(t, pc, op, g, k, m),
         g = call[t].g \/ g = None, InstallCall(t)',
         g \in Mutexes => pc \in {"check", "use"} \/ AloneIn(t),
         \A h \in Mutexes : h # call[t].g \/ ~AloneIn(t) => obj'[h] = obj[h],
         \A h \in Mutexes : Ready(h)' => obj'[h].k = obj'[h].m
  PROVE  InstallAlone'
<1>0. call'[t].g = g /\ call'[t].pc = pc /\ \A u \in Threads : u # t => call'[u] = call[u]
  BY DEF Moved
<1>1. ASSUME NEW u \in Threads, u # t, call[u].g \in Mutexes PROVE obj'[call[u].g] = obj[call[u].g]
  BY <1>1 DEF AloneIn
<1>2. ASSUME NEW u \in Threads, u # t PROVE InstallCall(u)'
  <2>1. CASE call[u].pc = "idle"
    BY <1>0, <1>2, <2>1 DEF InstallCall
  <2>2. CASE call[u].pc # "idle"
    <3>1. call[u].g \in Mutexes /\ call'[u] = call[u]
      BY <1>0, <1>2, <2>2 DEF CallsOK
    <3>2. obj'[call[u].g] = obj[call[u].g] /\ (Installed(call[u].g)' <=> Installed(call[u].g))
      BY <1>1, <1>2, <3>1 DEF Installed
    <3>3. InstallCall(u)
      BY DEF InstallAlone
    <3> QED  BY <3>1, <3>2, <3>3 DEF InstallCall, Installed
  <2> QED  BY <2>1, <2>2
<1>3. ASSUME NEW u \in Threads, NEW v \in Threads, u # v, call'[u].g = call'[v].g, call'[u].g \in Mutexes
      PROVE  Installed(call[u].g)' /\ call'[u].pc \in {"check", "use"}
  <2>1. call[u].g = call[v].g /\ call[u].g \in Mutexes
    BY <1>0, <1>3, GuestMutexAssumption
  <2>2. Installed(call[u].g) /\ call[u].pc \in {"check", "use"} /\ call'[u].g = call[u].g
    BY <1>0, <1>3, <2>1, GuestMutexAssumption DEF InstallAlone, Company
  <2>3. obj'[call[u].g] = obj[call[u].g]
    BY <1>1, <1>3, <2>1
  <2>4. Installed(call[u].g)'
    BY <2>2, <2>3 DEF Installed
  <2>5. u = t => ~AloneIn(t)
    BY <1>3, <2>1 DEF AloneIn
  <2> QED  BY <1>0, <1>3, <2>2, <2>4, <2>5
<1> QED  BY <1>2, <1>3 DEF InstallAlone, Company

(* A call that is past its first test, or that initialises, is alone.      *)
LEMMA InstallerAlone ==
  ASSUME CallsOK, InitAlone, InstallAlone, NEW t \in Threads, call[t].pc # "idle",
         call[t].pc \notin {"check", "use"} \/ call[t].op = "init"
  PROVE  AloneIn(t)
<1>1. call[t].g \in Mutexes
  BY DEF CallsOK
<1> QED  BY <1>1 DEF InitAlone, InitCall, InstallAlone, Company, AloneIn

(* The kinds, when only the call of t changes.                             *)
LEMMA KindsFrame ==
  ASSUME CallsOK, KindsKept, NEW t \in Threads,
         NEW pc, NEW op, NEW g, NEW k, NEW m, Moved(t, pc, op, g, k, m),
         OthersKeep(None), UNCHANGED <<obj, alive, want>>,
         \A x \in Slot : host'[x].kind = host[x].kind,
         \A h \in Mutexes : Ready(h) => obj[h].m \in Slot,
         pc \in {"self", "sign", "index", "pointer"} /\ op # "init" => host[k].kind = want[g] /\ k \in Slot
  PROVE  KindsKept'
<1>0. /\ call'[t].pc = pc /\ call'[t].op = op /\ call'[t].g = g /\ call'[t].k = k
      /\ \A u \in Threads : u # t => call'[u] = call[u]
  BY DEF Moved
<1>1. \A h \in Mutexes : Ready(h)' <=> Ready(h)
  BY GuestMutexAssumption DEF OthersKeep
<1>2. \A h \in Mutexes : Ready(h)' => host'[obj'[h].m].kind = want'[h]
  BY <1>1 DEF KindsKept
<1>3. \A h \in alive' : ~obj'[h].sign => obj'[h].kind = want'[h]
  BY DEF KindsKept
<1>4. ASSUME NEW h \in alive', obj'[h].sign, obj'[h].self # h
      PROVE  \E x \in Mutexes : x = obj'[h].self /\ Ready(x)' /\ obj'[x].m = obj'[h].m /\ want'[x] = want'[h]
  BY <1>1, <1>4 DEF KindsKept
<1>5. ASSUME NEW u \in Threads, call'[u].pc \in {"self", "sign", "index", "pointer"}, call'[u].op # "init"
      PROVE  host'[call'[u].k].kind = want'[call'[u].g]
  <2>1. CASE u = t
    BY <1>0, <1>5, <2>1
  <2>2. CASE u # t
    <3>1. call'[u] = call[u]
      BY <1>0, <2>2
    <3>2. call[u].k \in Slot
      BY <1>5, <3>1 DEF CallsOK, Carried
    <3> QED  BY <1>5, <3>1, <3>2 DEF KindsKept
  <2> QED  BY <2>1, <2>2
<1> QED  BY <1>2, <1>3, <1>4, <1>5 DEF KindsKept

(* A slot in use is a slot.                                                *)
LEMMA TakenSlots ==
  ASSUME TableOK
  PROVE  Taken \subseteq Slot
<1>1. blocks \in Seq(Block) /\ Len(blocks) <= MaxBlocks
  BY TableIs
<1>2. SUFFICES ASSUME NEW b \in DOMAIN blocks, NEW i \in blocks[b].taken PROVE Place(b, i) \in Slot
  BY TakenIs, InTaken
<1>3. b \in 1 .. MaxBlocks /\ i \in 0 .. BlockSize - 1
  BY <1>1, BlockOf, GuestMutexAssumption
<1> QED  BY <1>3, SlotRange DEF Place

(* A mutex that is installed has a slot.                                   *)
LEMMA ReadySlot ==
  ASSUME MutexInv
  PROVE  \A h \in Mutexes : Ready(h) => obj[h].m \in Slot
BY TakenSlots DEF MutexInv, SlotsExclusive

(* A step that changes nothing but where t is in its call.                 *)
LEMMA CallStep ==
  ASSUME MutexInv, NEW t \in Threads,
         NEW pc, NEW op, NEW g, NEW k, NEW m, Moved(t, pc, op, g, k, m),
         UNCHANGED <<blocks, host, obj, alive, history>>,
         g = call[t].g \/ (g = None /\ pc = "idle"), pc = "idle" => g = None,
         pc # "idle" => g \in Mutexes /\ op \in Ops,
         pc \notin {"self", "sign", "index", "pointer"},
         Carried(t)' = Carried(t), InitCall(t)',
         \A h \in Mutexes : h \in alive /\ Installed(h) =>
           ((g = h /\ Installing(t)') <=> (call[t].g = h /\ Installing(t))),
         raced = {} => InstallCall(t)' /\ (g \in Mutexes => pc \in {"check", "use"} \/ AloneIn(t))
  PROVE  MutexInv'
<1>0. /\ TypeOK /\ TableOK /\ CallsOK /\ HostsOK /\ FreeCount /\ SlotsExclusive /\ InitAlone
      /\ raced = {} => InstallAlone /\ SlotsOwned /\ OwnersHold /\ KindsKept
  BY DEF MutexInv, Unraced
<1>1. /\ blocks' = blocks /\ host' = host /\ obj' = obj /\ alive' = alive
      /\ want' = want /\ held' = held /\ raced' = raced
  BY DEF history
<1>2. OthersKeep(None)
  <2>1. ASSUME NEW h \in Mutexes PROVE Ready(h)' <=> Ready(h)
    <3>1. Installed(h)' <=> Installed(h)
      BY <1>1 DEF Installed
    <3> QED  BY <1>0, <1>1, <3>1, ReadyFrame
  <2> QED  BY <1>1, <2>1 DEF OthersKeep
<1>3. Taken' = Taken /\ \A u \in Threads : Carried(u)' = Carried(u)
  BY <1>0, <1>1, MovedFrame DEF Taken
<1>4. TypeOK' /\ TableOK' /\ HostsOK' /\ FreeCount'
  BY <1>0, <1>1 DEF TypeOK, TableOK, HostsOK, FreeCount
<1>5. CallsOK'
  <2>1. Carried(t)' \subseteq Slot
    BY <1>0 DEF CallsOK
  <2> QED  BY <1>0, <2>1, CallsFrame
<1>6. SlotsExclusive' /\ (SlotsOwned => SlotsOwned')
  BY <1>0, <1>2, <1>3, OwnSame
<1>7. InitAlone'
  BY <1>0, <1>1, InitFrame
<1>8. ASSUME raced' = {} PROVE Unraced'
  <2>1. InstallAlone /\ OwnersHold /\ KindsKept /\ SlotsOwned
    BY <1>0, <1>1, <1>8
  <2>2. \A h \in Mutexes : Ready(h)' => obj'[h].k = obj'[h].m
    BY <1>1, <1>2, <2>1, GuestMutexAssumption DEF OthersKeep, InstallAlone
  <2>3. InstallAlone'
    BY <1>0, <1>1, <1>8, <2>1, <2>2, InstallFrame
  <2>4. OwnersHold'
    BY <1>1, <1>2, <2>1, ReadySlot, OwnersFrame, GuestMutexAssumption
  <2>5. KindsKept'
    BY <1>0, <1>1, <1>2, <2>1, ReadySlot, KindsFrame
  <2> QED  BY <1>6, <2>1, <2>3, <2>4, <2>5 DEF Unraced
<1> QED  BY <1>4, <1>5, <1>6, <1>7, <1>8 DEF MutexInv

(* The facts about a call that the steps below start from.                 *)
LEMMA InCall ==
  ASSUME MutexInv, NEW t \in Threads, call[t].pc # "idle"
  PROVE  /\ call[t].g \in Mutexes /\ call[t].op \in Ops /\ call[t].pc \in PCs
         /\ call[t].k \in Slot \cup {None} /\ call[t].m \in Slot \cup {None}
         /\ InitCall(t) /\ Carried(t) \subseteq Slot
         /\ raced = {} => InstallCall(t) /\ InstallAlone
<1>1. CallsOK /\ InitAlone /\ (raced = {} => InstallAlone)
  BY DEF MutexInv, Unraced
<1> QED  BY <1>1, CallFields DEF CallsOK, InitAlone, InstallAlone

(* A mutex that a call uses without a race is ready.                       *)
LEMMA UsedReady ==
  ASSUME MutexInv, raced = {}, NEW t \in Threads, call[t].pc = "use", call[t].op # "init"
  PROVE  /\ Ready(call[t].g) /\ call[t].m = obj[call[t].g].m /\ call[t].m \in Slot
<1>0. CallsOK /\ InitAlone /\ InstallAlone
  BY DEF MutexInv, Unraced
<1>1. call[t].g \in Mutexes /\ call[t].g \in alive
  BY <1>0 DEF CallsOK, InitAlone, InitCall
<1>2. Installed(call[t].g) /\ call[t].m = obj[call[t].g].m
  BY <1>0 DEF InstallAlone, InstallCall
<1>3. ASSUME NEW u \in In(call[t].g) PROVE ~Installing(u)
  <2>1. u \in Threads /\ call[u].g = call[t].g
    BY DEF In
  <2>2. u # t => call[u].pc \in {"check", "use"} /\ (call[u].pc # "idle" => call[u].op # "init")
    BY <1>0, <1>1, <2>1 DEF InstallAlone, Company, InitAlone, InitCall
  <2> QED  BY <2>2 DEF Installing
<1>4. Ready(call[t].g)
  BY <1>1, <1>2, <1>3 DEF Ready
<1> QED  BY <1>1, <1>2, <1>4, ReadySlot

(* The steps: the first look at the sign, ...                              *)
LEMMA CheckKeeps ==
  ASSUME MutexInv, NEW t \in Threads, Check(t)
  PROVE  MutexInv'
<1> DEFINE c == call[t]
<1>0. CallsOK /\ TypeOK
  BY DEF MutexInv
<1>1. c.pc = "check" /\ UNCHANGED <<blocks, host, obj, alive, history>>
  BY DEF Check
<1>2. /\ c.g \in Mutexes /\ c.op \in Ops /\ c.op # "init" /\ c.g \in alive
      /\ Carried(t) = {} /\ ~Installing(t)
  BY <1>1, InCall DEF InitCall, Carried, Installing
<1>3. CASE Installed(c.g)
  <2>1. Moved(t, "use", c.op, c.g, c.k, obj[c.g].m)
    BY <1>0, <1>3, StepsMove
  <2>2. Carried(t)' = {} /\ ~Installing(t)'
    BY <1>0, <1>2, <2>1, MovedFrame
  <2>3. InitCall(t)' /\ InstallCall(t)'
    BY <1>1, <1>2, <1>3, <2>1 DEF InitCall, InstallCall, Moved, Installed
  <2> QED  BY <1>1, <1>2, <2>1, <2>2, <2>3, CallStep
<1>4. CASE ~Installed(c.g)
  <2>1. Moved(t, "new", c.op, c.g, c.k, c.m)
    BY <1>0, <1>4, StepsMove
  <2>2. Carried(t)' = {} /\ ~Installing(t)'
    BY <1>0, <1>2, <2>1, MovedFrame
  <2>3. InitCall(t)' /\ InstallCall(t)'
    BY <1>1, <1>2, <1>4, <2>1 DEF InitCall, InstallCall, Moved, Installed
  <2>4. raced = {} => AloneIn(t)
    BY <1>1, <1>2, <1>4, InCall DEF InstallAlone, Company, AloneIn
  <2> QED  BY <1>1, <1>2, <2>1, <2>2, <2>3, <2>4, CallStep
<1> QED  BY <1>3, <1>4

(* a look at it again, ...                                                 *)
LEMMA CheckAgainKeeps ==
  ASSUME MutexInv, NEW t \in Threads, CheckAgain(t)
  PROVE  MutexInv'
<1> DEFINE c == call[t]
<1>0. CallsOK /\ TypeOK
  BY DEF MutexInv
<1>1. c.pc = "again" /\ UNCHANGED <<blocks, host, obj, alive, history>>
  BY DEF CheckAgain
<1>2. /\ c.g \in Mutexes /\ c.op \in Ops /\ c.op # "init" /\ c.g \in alive
      /\ Carried(t) = {c.k} /\ ~Installing(t)
  BY <1>1, InCall DEF InitCall, Carried, Installing
<1>3. CASE Installed(c.g)
  <2>1. Moved(t, "giveback", c.op, c.g, c.k, obj[c.g].m)
    BY <1>0, <1>3, StepsMove
  <2>2. Carried(t)' = {c.k} /\ ~Installing(t)'
    BY <1>0, <1>2, <2>1, MovedFrame
  <2>3. InitCall(t)'
    BY <1>1, <1>2, <2>1 DEF InitCall, Moved
  <2>4. raced # {}
    BY <1>1, <1>2, <1>3, InCall DEF InstallCall
  <2> QED  BY <1>1, <1>2, <2>1, <2>2, <2>3, <2>4, CallStep
<1>4. CASE ~Installed(c.g)
  <2>1. Moved(t, "kind", c.op, c.g, c.k, c.m)
    BY <1>0, <1>4, StepsMove
  <2>2. Carried(t)' = {c.k}
    BY <1>0, <1>2, <2>1, MovedFrame
  <2>3. InitCall(t)' /\ InstallCall(t)'
    BY <1>1, <1>2, <1>4, <2>1 DEF InitCall, InstallCall, Moved, Installed
  <2>4. raced = {} => AloneIn(t)
    BY <1>1, <1>2, <1>4, InCall DEF InstallAlone, Company, AloneIn
  <2> QED  BY <1>1, <1>2, <1>4, <2>1, <2>2, <2>3, <2>4, CallStep
<1> QED  BY <1>3, <1>4

(* a lock that is not to be had, ...                                       *)
LEMMA HostBusyKeeps ==
  ASSUME MutexInv, NEW t \in Threads, HostBusy(t)
  PROVE  MutexInv'
<1> DEFINE c == call[t]
<1>0. CallsOK /\ TypeOK
  BY DEF MutexInv
<1>1. c.pc = "use" /\ c.op = "trylock" /\ UNCHANGED <<blocks, host, obj, alive, history>>
  BY DEF HostBusy
<1>2. Carried(t) = {} /\ ~Installing(t)
  BY <1>1 DEF Carried, Installing
<1>3. Moved(t, "idle", None, None, None, None)
  BY <1>0, StepsMove
<1>4. Carried(t)' = {} /\ ~Installing(t)'
  BY <1>0, <1>3, MovedFrame
<1>5. InitCall(t)' /\ InstallCall(t)'
  BY <1>3 DEF InitCall, InstallCall, Moved
<1> QED  BY <1>1, <1>2, <1>3, <1>4, <1>5, CallStep, GuestMutexAssumption

(* The step that follows NULL is not taken without a race.                 *)
LEMMA HostNullKeeps ==
  ASSUME MutexInv, NEW t \in Threads, HostNull(t)
  PROVE  MutexInv' /\ raced # {}
<1> DEFINE c == call[t]
<1>0. CallsOK /\ TypeOK /\ None \notin Slot
  BY GuestMutexAssumption DEF MutexInv, Slot
<1>1. c.pc = "use" /\ c.m = None /\ Goto(t, "crashed") /\ UNCHANGED <<blocks, host, obj, alive, history>>
  BY DEF HostNull
<1>2. c.g \in Mutexes /\ c.op \in Ops /\ c.op # "init" /\ c.g \in alive
  BY <1>0, <1>1, InCall DEF InitCall, Carried
<1>3. raced # {}
  BY <1>0, <1>1, <1>2, UsedReady
<1>4. Moved(t, "crashed", c.op, c.g, c.k, c.m)
  BY <1>0, <1>1, GotoMoves DEF PCs
<1>5. Carried(t) = {} /\ ~Installing(t) /\ Carried(t)' = {} /\ ~Installing(t)'
  <2>1. Carried(t)' = {} /\ ~Installing(t)'
    BY <1>0, <1>4, MovedFrame
  <2> QED  BY <1>1, <1>2, <2>1 DEF Carried, Installing
<1>6. InitCall(t)'
  BY <1>1, <1>2, <1>4 DEF InitCall, Moved
<1> QED  BY <1>1, <1>2, <1>3, <1>4, <1>5, <1>6, CallStep

-----------------------------------------------------------------------------
(* A thread enters a mutex.                                                *)
LEMMA Enter ==
  ASSUME MutexInv, NEW t \in Threads, NEW pc, NEW op \in Ops, NEW g \in Mutexes,
         Moved(t, pc, op, g, None, None), call[t].pc = "idle", pc \in {"check", "new"},
         UNCHANGED <<blocks, host, obj, alive, held>>
  PROVE  /\ OthersKeep(None) /\ TableOK' /\ CallsOK' /\ HostsOK' /\ FreeCount'
         /\ SlotsExclusive' /\ (SlotsOwned => SlotsOwned')
         /\ (OwnersHold => OwnersHold')
         /\ call[t].g = None /\ ~Installing(t) /\ ~Installing(t)'
<1>0. /\ TypeOK /\ TableOK /\ CallsOK /\ HostsOK /\ FreeCount /\ SlotsExclusive
  BY DEF MutexInv
<1>1. call[t].g = None /\ Carried(t) = {} /\ ~Installing(t) /\ g # None
  BY <1>0, GuestMutexAssumption DEF CallsOK, Carried, Installing
<1>2. Carried(t)' = {} /\ ~Installing(t)'
  BY <1>0, MovedFrame
<1>3. OthersKeep(None)
  <2>1. ASSUME NEW h \in Mutexes PROVE Ready(h)' <=> Ready(h)
    <3>1. Installed(h)' <=> Installed(h)
      BY DEF Installed
    <3> QED  BY <1>0, <1>1, <1>2, <3>1, ReadyFrame
  <2> QED  BY <2>1 DEF OthersKeep
<1>4. Taken' = Taken /\ \A u \in Threads : Carried(u)' = Carried(u)
  <2>1. \A u \in Threads : u # t => Carried(u)' = Carried(u)
    BY <1>0, MovedFrame
  <2> QED  BY <1>1, <1>2, <2>1 DEF Taken
<1>5. TableOK' /\ HostsOK' /\ FreeCount'
  BY <1>0 DEF TableOK, HostsOK, FreeCount
<1>6. CallsOK'
  BY <1>0, <1>2, CallsFrame
<1>7. SlotsExclusive' /\ (SlotsOwned => SlotsOwned')
  BY <1>0, <1>3, <1>4, OwnSame
<1>8. ASSUME OwnersHold PROVE OwnersHold'
  BY <1>3, <1>8, ReadySlot, OwnersFrame, GuestMutexAssumption
<1> QED  BY <1>1, <1>2, <1>3, <1>5, <1>6, <1>7, <1>8

(* the start of a call, ...                                                *)
LEMMA CallKeeps ==
  ASSUME MutexInv, NEW t \in Threads, NEW op \in Ops \ {"init"}, NEW g \in Mutexes, Call(t, op, g)
  PROVE  MutexInv'
<1>0. /\ TypeOK /\ CallsOK /\ InitAlone
      /\ raced = {} => InstallAlone /\ SlotsOwned /\ OwnersHold /\ KindsKept
  BY DEF MutexInv, Unraced
<1>1. /\ call[t].pc = "idle" /\ g \in alive
      /\ raced' = IF In(g) # {} /\ ~Settled(g) THEN raced \cup {g} ELSE raced
      /\ UNCHANGED <<blocks, host, obj, alive, want, held>>
  BY DEF Call
<1>2. Moved(t, "check", op, g, None, None)
  BY <1>0, StepsMove
<1>3. /\ OthersKeep(None) /\ TableOK' /\ CallsOK' /\ HostsOK' /\ FreeCount'
      /\ SlotsExclusive' /\ (SlotsOwned => SlotsOwned') /\ (OwnersHold => OwnersHold')
      /\ call[t].g = None /\ ~Installing(t) /\ ~Installing(t)'
  BY <1>1, <1>2, Enter
<1>4. TypeOK'
  BY <1>0, <1>1 DEF TypeOK
<1>5. InitAlone'
  <2>1. InitCall(t)'
    BY <1>1, <1>2 DEF InitCall, Moved
  <2>2. \A u \in Threads : call[u].g = g => call[u].op # "init"
    BY <1>0, <1>1, GuestMutexAssumption DEF InitAlone, InitCall, CallsOK
  <2> QED  BY <1>0, <1>1, <1>2, <2>1, <2>2, InitFrame
<1>6. ASSUME raced' = {} PROVE Unraced'
  <2>1. InstallAlone /\ SlotsOwned /\ OwnersHold /\ KindsKept
    BY <1>0, <1>1, <1>6
  <2>2. In(g) = {} \/ Settled(g)
    BY <1>1, <1>6
  <2>3. ASSUME NEW u \in Threads, call[u].g = g PROVE Installed(g) /\ call[u].pc \in {"check", "use"}
    <3>1. u \in In(g) /\ Settled(g) /\ call[u].pc # "idle"
      BY <1>0, <2>2, <2>3, GuestMutexAssumption DEF In, CallsOK
    <3>2. Installed(g) /\ Carried(u) = {} /\ call[u].pc \in PCs /\ call[u].op # "init"
      BY <1>0, <1>1, <2>3, <3>1, CallFields DEF Settled, InitAlone, InitCall
    <3>3. call[u].pc \notin {"again", "giveback", "kind", "self", "sign", "index", "pointer"}
      BY <3>2 DEF Carried
    <3>4. call[u].pc \notin {"new", "crashed"}
      BY <2>1, <2>3, <3>2 DEF InstallAlone, InstallCall
    <3> QED  BY <3>1, <3>2, <3>3, <3>4 DEF PCs
  <2>4. /\ call'[t].g = g /\ call'[t].pc = "check" /\ \A u \in Threads : u # t => call'[u] = call[u]
        /\ \A h : Installed(h)' <=> Installed(h)
    BY <1>1, <1>2 DEF Moved, Installed
  <2>5. ASSUME NEW u \in Threads PROVE InstallCall(u)'
    <3>1. CASE u = t
      BY <2>4, <3>1 DEF InstallCall
    <3>2. CASE u # t
      BY <1>1, <2>1, <2>4, <3>2 DEF InstallCall, InstallAlone, Installed
    <3> QED  BY <3>1, <3>2
  <2>6. ASSUME NEW u \in Threads, NEW v \in Threads, u # v, call'[u].g = call'[v].g, call'[u].g \in Mutexes
        PROVE  Installed(call[u].g)' /\ call'[u].pc \in {"check", "use"}
    <3>1. CASE u # t /\ v # t
      BY <1>1, <2>1, <2>4, <2>6, <3>1 DEF InstallAlone, Company, Installed
    <3>2. CASE u = t
      BY <1>1, <2>3, <2>4, <2>6, <3>2 DEF Installed
    <3>3. CASE v = t
      BY <1>1, <2>3, <2>4, <2>6, <3>3 DEF Installed
    <3> QED  BY <3>1, <3>2, <3>3
  <2>7. \A h \in Mutexes : Ready(h)' => obj'[h].k = obj'[h].m
    BY <1>1, <1>3, <2>1, GuestMutexAssumption DEF OthersKeep, InstallAlone
  <2>8. InstallAlone'
    BY <2>5, <2>6, <2>7 DEF InstallAlone, Company
  <2>9. KindsKept'
    BY <1>0, <1>1, <1>2, <1>3, <2>1, ReadySlot, KindsFrame
  <2> QED  BY <1>3, <2>1, <2>8, <2>9 DEF Unraced
<1> QED  BY <1>3, <1>4, <1>5, <1>6 DEF MutexInv

(* of pthread_mutex_init, ...                                              *)
LEMMA CallInitKeeps ==
  ASSUME MutexInv, NEW t \in Threads, NEW g \in Mutexes, NEW kind \in Kinds, CallInit(t, g, kind)
  PROVE  MutexInv'
<1>0. /\ TypeOK /\ CallsOK /\ InitAlone
      /\ raced = {} => InstallAlone /\ SlotsOwned /\ OwnersHold /\ KindsKept
  BY DEF MutexInv, Unraced
<1>1. /\ call[t].pc = "idle" /\ g \notin alive /\ In(g) = {}
      /\ want' = [want EXCEPT ![g] = kind]
      /\ UNCHANGED <<blocks, host, obj, alive, held, raced>>
  BY DEF CallInit
<1>2. Moved(t, "new", "init", g, None, None)
  BY <1>0, StepsMove
<1>3. /\ OthersKeep(None) /\ TableOK' /\ CallsOK' /\ HostsOK' /\ FreeCount'
      /\ SlotsExclusive' /\ (SlotsOwned => SlotsOwned') /\ (OwnersHold => OwnersHold')
      /\ call[t].g = None /\ ~Installing(t) /\ ~Installing(t)'
  BY <1>1, <1>2, Enter DEF Ops
<1>4. TypeOK'
  BY <1>0, <1>1 DEF TypeOK
<1>5. \A u \in Threads : call[u].g # g
  BY <1>1 DEF In
<1>6. /\ call'[t].g = g /\ call'[t].pc = "new" /\ call'[t].op = "init"
      /\ \A u \in Threads : u # t => call'[u] = call[u]
      /\ \A h : Installed(h)' <=> Installed(h)
  BY <1>1, <1>2 DEF Moved, Installed
<1>7. InitAlone'
  <2>1. InitCall(t)'
    BY <1>1, <1>5, <1>6 DEF InitCall
  <2> QED  BY <1>0, <1>1, <1>2, <1>5, <2>1, InitFrame
<1>8. ASSUME raced = {} PROVE InstallAlone'
  <2>1. ASSUME NEW u \in Threads PROVE InstallCall(u)'
    <3>1. CASE u = t
      BY <1>6, <3>1 DEF InstallCall
    <3>2. CASE u # t
      BY <1>0, <1>8, <1>1, <1>6, <3>2 DEF InstallCall, InstallAlone, Installed
    <3> QED  BY <3>1, <3>2
  <2>2. ASSUME NEW u \in Threads, NEW v \in Threads, u # v, call'[u].g = call'[v].g, call'[u].g \in Mutexes
        PROVE  Installed(call[u].g)' /\ call'[u].pc \in {"check", "use"}
    BY <1>0, <1>8, <1>1, <1>5, <1>6, <2>2 DEF InstallAlone, Company, Installed
  <2>3. \A h \in Mutexes : Ready(h)' => obj'[h].k = obj'[h].m
    BY <1>0, <1>8, <1>1, <1>3, GuestMutexAssumption DEF OthersKeep, InstallAlone
  <2> QED  BY <2>1, <2>2, <2>3 DEF InstallAlone, Company
<1>9. ASSUME raced = {} PROVE KindsKept'
  <2>1. \A h \in Mutexes : (Ready(h)' <=> Ready(h)) /\ (Ready(h) => h \in alive)
    BY <1>3, GuestMutexAssumption DEF OthersKeep, Ready
  <2>2. \A h \in Mutexes : h # g => want'[h] = want[h]
    BY <1>0, <1>9, <1>1 DEF TypeOK
  <2>3. \A h \in Mutexes : Ready(h)' => host'[obj'[h].m].kind = want'[h]
    BY <1>0, <1>9, <1>1, <2>1, <2>2 DEF KindsKept
  <2>4. \A h \in alive' : ~obj'[h].sign => obj'[h].kind = want'[h]
    BY <1>0, <1>9, <1>1, <2>2 DEF KindsKept, TypeOK
  <2>5. ASSUME NEW h \in alive', obj'[h].sign, obj'[h].self # h
        PROVE  \E x \in Mutexes : x = obj'[h].self /\ Ready(x)' /\ obj'[x].m = obj'[h].m /\ want'[x] = want'[h]
    BY <1>0, <1>9, <1>1, <2>1, <2>2, <2>5 DEF KindsKept, TypeOK
  <2>6. ASSUME NEW u \in Threads, call'[u].pc \in {"self", "sign", "index", "pointer"}, call'[u].op # "init"
        PROVE  host'[call'[u].k].kind = want'[call'[u].g]
    <3>1. u # t /\ call'[u] = call[u] /\ call[u].g \in Mutexes /\ call[u].g # g
      BY <1>0, <1>9, <1>5, <1>6, <2>6 DEF CallsOK
    <3> QED  BY <1>0, <1>9, <1>1, <2>2, <2>6, <3>1 DEF KindsKept
  <2> QED  BY <2>3, <2>4, <2>5, <2>6 DEF KindsKept
<1> QED  BY <1>0, <1>1, <1>3, <1>4, <1>7, <1>8, <1>9 DEF MutexInv, Unraced

(* a slot taken from the pool, ...                                         *)
LEMMA TakeSlotKeeps ==
  ASSUME MutexInv, NEW t \in Threads, TakeSlot(t)
  PROVE  MutexInv'
<1> DEFINE c == call[t]
           pc == IF c.op = "init" THEN "self" ELSE "again"
<1>0. /\ TypeOK /\ TableOK /\ CallsOK /\ HostsOK /\ FreeCount /\ SlotsExclusive /\ InitAlone
      /\ raced = {} => InstallAlone /\ SlotsOwned /\ OwnersHold /\ KindsKept
  BY DEF MutexInv, Unraced
<1>1. /\ c.pc = "new" /\ host' = host /\ obj' = obj /\ alive' = alive
      /\ want' = want /\ held' = held /\ raced' = raced
  BY DEF TakeSlot, history
<1>2. /\ c.g \in Mutexes /\ c.op \in Ops /\ InitCall(t) /\ (raced = {} => InstallCall(t))
      /\ Carried(t) = {} /\ ~Installing(t)
  BY <1>1, InCall DEF Carried, Installing
<1>3. PICK k \in Slot : k \notin Taken /\ Taken' = Taken \cup {k} /\ Moved(t, pc, c.op, c.g, k, c.m)
  BY <1>0, TakeSlotEffect
<1>4. /\ call'[t].pc = pc /\ call'[t].op = c.op /\ call'[t].g = c.g /\ call'[t].k = k
      /\ \A u \in Threads : u # t => call'[u] = call[u]
      /\ \A h : Installed(h)' <=> Installed(h)
  BY <1>1, <1>3 DEF Moved, Installed
<1>5. /\ Carried(t)' = {k} /\ (Installing(t)' <=> c.op = "init")
      /\ \A u \in Threads : u # t => Carried(u)' = Carried(u)
  BY <1>0, <1>3, MovedFrame
<1>6. OthersKeep(None)
  <2>1. ASSUME NEW h \in Mutexes PROVE Ready(h)' <=> Ready(h)
    <3>1. h \in alive => ~(c.g = h /\ Installing(t)')
      BY <1>1, <1>2, <1>5 DEF InitCall
    <3> QED  BY <1>0, <1>1, <1>2, <1>3, <1>4, <3>1, ReadyFrame
  <2> QED  BY <1>1, <2>1 DEF OthersKeep
<1>7. TableOK' /\ FreeCount'
  BY <1>0, TakeSlotEffect
<1>8. TypeOK' /\ HostsOK'
  <2>1. \A b \in DOMAIN blocks' : blocks'[b].taken \subseteq 0 .. BlockSize - 1 /\ blocks'[b].free \in 0 .. BlockSize
    BY <1>7, BlockOf, TableIs
  <2> QED  BY <1>0, <1>1, <2>1 DEF TypeOK, HostsOK
<1>9. CallsOK'
  BY <1>0, <1>2, <1>3, <1>5, CallsFrame
<1>10. SlotsExclusive' /\ (SlotsOwned => SlotsOwned')
  BY <1>0, <1>2, <1>3, <1>5, <1>6, OwnTake
<1>11. InitAlone'
  <2>1. InitCall(t)'
    <3>1. CASE c.op = "init"
      <4>1. \A u \in Threads : call[u].g = c.g => u = t
        BY <1>1, <1>2, <3>1 DEF InitCall
      <4>2. \A u \in Threads : call'[u].g = c.g => u = t
        BY <1>4, <4>1
      <4> QED  BY <1>1, <1>2, <1>4, <3>1, <4>2 DEF InitCall
    <3>2. CASE c.op # "init"
      BY <1>1, <1>2, <1>4, <3>2 DEF InitCall
    <3> QED  BY <3>1, <3>2
  <2> QED  BY <1>0, <1>1, <1>3, <2>1, InitFrame
<1>12. ASSUME raced' = {} PROVE Unraced'
  <2>1. InstallAlone /\ OwnersHold /\ KindsKept /\ SlotsOwned
    BY <1>0, <1>1, <1>12
  <2>2. \A h \in Mutexes : Ready(h)' => obj'[h].k = obj'[h].m
    BY <1>1, <1>6, <2>1, GuestMutexAssumption DEF OthersKeep, InstallAlone
  <2>3. InstallCall(t)'
    BY <1>1, <1>2, <1>4, <1>12 DEF InstallCall, Installed
  <2>4. AloneIn(t)
    BY <1>0, <1>1, <2>1, InstallerAlone
  <2>5. InstallAlone'
    BY <1>0, <1>1, <1>3, <2>1, <2>2, <2>3, <2>4, InstallFrame
  <2>6. OwnersHold'
    BY <1>1, <1>6, <2>1, ReadySlot, OwnersFrame, GuestMutexAssumption
  <2>7. KindsKept'
    BY <1>0, <1>1, <1>3, <1>6, <2>1, ReadySlot, KindsFrame
  <2> QED  BY <1>10, <2>1, <2>5, <2>6, <2>7 DEF Unraced
<1> QED  BY <1>7, <1>8, <1>9, <1>10, <1>11, <1>12 DEF MutexInv

(* and given back, ...                                                     *)
LEMMA GiveBackKeeps ==
  ASSUME MutexInv, NEW t \in Threads, GiveBack(t)
  PROVE  MutexInv'
<1> DEFINE c == call[t]
<1>0. /\ TypeOK /\ TableOK /\ CallsOK /\ HostsOK /\ FreeCount /\ SlotsExclusive /\ InitAlone
  BY DEF MutexInv
<1>1. /\ c.pc = "giveback" /\ blocks' = FreeMutex(blocks, c.k) /\ Goto(t, "use")
      /\ host' = host /\ obj' = obj /\ alive' = alive /\ want' = want /\ held' = held /\ raced' = raced
  BY DEF GiveBack, history
<1>2. /\ c.g \in Mutexes /\ c.op \in Ops /\ c.op # "init" /\ c.g \in alive /\ raced # {}
      /\ Carried(t) = {c.k} /\ ~Installing(t)
  BY <1>1, InCall DEF InitCall, InstallCall, Carried, Installing
<1>3. Moved(t, "use", c.op, c.g, c.k, c.m)
  BY <1>0, <1>1, GotoMoves DEF PCs
<1>4. /\ Carried(t)' = {} /\ ~Installing(t)' /\ \A u \in Threads : u # t => Carried(u)' = Carried(u)
  BY <1>0, <1>2, <1>3, MovedFrame
<1>5. OthersKeep(None)
  <2>1. ASSUME NEW h \in Mutexes PROVE Ready(h)' <=> Ready(h)
    <3>1. Installed(h)' <=> Installed(h)
      BY <1>1 DEF Installed
    <3> QED  BY <1>0, <1>1, <1>2, <1>3, <1>4, <3>1, ReadyFrame
  <2> QED  BY <1>1, <2>1 DEF OthersKeep
<1>6. c.k \in Taken
  BY <1>0, <1>2 DEF SlotsExclusive
<1>7. TableOK' /\ FreeCount' /\ Taken' = Taken \ {c.k}
  BY <1>0, <1>1, <1>6, FreeEffect
<1>8. TypeOK' /\ HostsOK'
  <2>1. \A b \in DOMAIN blocks' : blocks'[b].taken \subseteq 0 .. BlockSize - 1 /\ blocks'[b].free \in 0 .. BlockSize
    BY <1>7, BlockOf, TableIs
  <2> QED  BY <1>0, <1>1, <2>1 DEF TypeOK, HostsOK
<1>9. CallsOK'
  BY <1>0, <1>2, <1>3, <1>4, CallsFrame
<1>10. SlotsExclusive'
  BY <1>0, <1>2, <1>4, <1>5, <1>7, OwnGive
<1>11. InitAlone'
  <2>1. InitCall(t)'
    BY <1>1, <1>2, <1>3 DEF InitCall, Moved
  <2> QED  BY <1>0, <1>1, <1>3, <2>1, InitFrame
<1> QED  BY <1>1, <1>2, <1>7, <1>8, <1>9, <1>10, <1>11 DEF MutexInv

-----------------------------------------------------------------------------
(* the kind handed on to the host mutex, ...                               *)
LEMMA CopyKindKeeps ==
  ASSUME MutexInv, NEW t \in Threads, CopyKind(t)
  PROVE  MutexInv'
<1> DEFINE c == call[t]
<1>0. /\ TypeOK /\ TableOK /\ CallsOK /\ HostsOK /\ FreeCount /\ SlotsExclusive /\ InitAlone
      /\ raced = {} => InstallAlone /\ SlotsOwned /\ OwnersHold /\ KindsKept
  BY DEF MutexInv, Unraced
<1>1. /\ c.pc = "kind" /\ host' = [host EXCEPT ![c.k].kind = OldKind(c.g)] /\ Goto(t, "self")
      /\ blocks' = blocks /\ obj' = obj /\ alive' = alive /\ want' = want /\ held' = held /\ raced' = raced
  BY DEF CopyKind, history
<1>2. /\ c.g \in Mutexes /\ c.op \in Ops /\ c.op # "init" /\ c.g \in alive
      /\ Carried(t) = {c.k} /\ Installing(t) /\ c.k \in Slot /\ (raced = {} => InstallCall(t))
  BY <1>1, InCall DEF InitCall, Carried, Installing
<1>3. Moved(t, "self", c.op, c.g, c.k, c.m)
  BY <1>0, <1>1, GotoMoves DEF PCs
<1>4. /\ call'[t].pc = "self" /\ call'[t].op = c.op /\ call'[t].g = c.g /\ call'[t].k = c.k
      /\ \A u \in Threads : u # t => call'[u] = call[u]
      /\ \A h : Installed(h)' <=> Installed(h)
  BY <1>1, <1>3 DEF Moved, Installed
<1>5. /\ Carried(t)' = {c.k} /\ Installing(t)' /\ \A u \in Threads : u # t => Carried(u)' = Carried(u)
  BY <1>0, <1>3, MovedFrame
<1>6. OthersKeep(None)
  <2>1. ASSUME NEW h \in Mutexes PROVE Ready(h)' <=> Ready(h)
    BY <1>0, <1>1, <1>2, <1>3, <1>4, <1>5, ReadyFrame
  <2> QED  BY <1>1, <2>1 DEF OthersKeep
<1>7. OldKind(c.g) \in Kinds \cup {None}
  BY <1>0, <1>2 DEF OldKind, TypeOK
<1>8. /\ \A x \in Slot : host'[x].owner = host[x].owner /\ host'[x].depth = host[x].depth
      /\ \A x \in Slot : x # c.k => host'[x] = host[x]
      /\ host'[c.k].kind = OldKind(c.g)
      /\ host' \in [Slot -> [kind : Kinds \cup {None}, owner : Threads \cup {None}, depth : 0 .. MaxDepth]]
  BY <1>0, <1>1, <1>2, <1>7 DEF TypeOK
<1>9. TypeOK' /\ HostsOK' /\ TableOK' /\ FreeCount'
  BY <1>0, <1>1, <1>8 DEF TypeOK, HostsOK, TableOK, FreeCount
<1>10. CallsOK'
  BY <1>0, <1>2, <1>3, <1>5, CallsFrame
<1>11. SlotsExclusive' /\ (SlotsOwned => SlotsOwned')
  <2>1. Taken' = Taken /\ \A u \in Threads : Carried(u)' = Carried(u)
    BY <1>1, <1>2, <1>5 DEF Taken
  <2> QED  BY <1>0, <1>6, <2>1, OwnSame
<1>12. InitAlone'
  <2>1. InitCall(t)'
    BY <1>1, <1>2, <1>4 DEF InitCall
  <2> QED  BY <1>0, <1>1, <1>3, <2>1, InitFrame
<1>13. ASSUME raced' = {} PROVE Unraced'
  <2>1. InstallAlone /\ OwnersHold /\ KindsKept /\ SlotsOwned /\ InstallCall(t)
    BY <1>0, <1>1, <1>2, <1>13
  <2>2. \A h \in Mutexes : Ready(h)' => obj'[h].k = obj'[h].m
    BY <1>1, <1>6, <2>1, GuestMutexAssumption DEF OthersKeep, InstallAlone
  <2>3. InstallCall(t)' /\ ~Installed(c.g)
    BY <1>1, <1>2, <1>4, <2>1 DEF InstallCall, Installed
  <2>4. AloneIn(t)
    BY <1>0, <1>1, <2>1, InstallerAlone
  <2>5. InstallAlone'
    BY <1>0, <1>1, <1>3, <2>1, <2>2, <2>3, <2>4, InstallFrame
  <2>6. OwnersHold'
    BY <1>1, <1>6, <1>8, <2>1, ReadySlot, OwnersFrame, GuestMutexAssumption
  <2>7. OldKind(c.g) = want[c.g]
    <3>1. CASE ~obj[c.g].sign
      BY <1>2, <2>1, <3>1 DEF OldKind, KindsKept
    <3>2. CASE obj[c.g].sign
      <4>1. obj[c.g].self # c.g
        BY <2>3, <3>2 DEF Installed
      <4>2. PICK x \in Mutexes : Ready(x) /\ obj[x].m = obj[c.g].m /\ want[x] = want[c.g]
        BY <1>2, <2>1, <3>2, <4>1 DEF KindsKept
      <4>3. obj[c.g].m \in Slot /\ host[obj[c.g].m].kind = want[c.g]
        BY <2>1, <4>2, ReadySlot DEF KindsKept
      <4> QED  BY <3>2, <4>3 DEF OldKind
    <3> QED  BY <3>1, <3>2
  <2>8. \A h \in Mutexes : (Ready(h)' <=> Ready(h)) /\ (Ready(h) => obj[h].m # c.k /\ obj[h].m \in Slot)
    BY <1>0, <1>2, <1>6, ReadySlot, GuestMutexAssumption DEF OthersKeep, SlotsExclusive
  <2>9. KindsKept'
    <3>1. \A h \in Mutexes : Ready(h)' => host'[obj'[h].m].kind = want'[h]
      BY <1>1, <1>8, <2>1, <2>8 DEF KindsKept
    <3>2. \A h \in alive' : ~obj'[h].sign => obj'[h].kind = want'[h]
      BY <1>1, <2>1 DEF KindsKept
    <3>3. ASSUME NEW h \in alive', obj'[h].sign, obj'[h].self # h
          PROVE  \E x \in Mutexes : x = obj'[h].self /\ Ready(x)' /\ obj'[x].m = obj'[h].m /\ want'[x] = want'[h]
      BY <1>1, <2>1, <2>8, <3>3 DEF KindsKept
    <3>4. ASSUME NEW u \in Threads, call'[u].pc \in {"self", "sign", "index", "pointer"}, call'[u].op # "init"
          PROVE  host'[call'[u].k].kind = want'[call'[u].g]
      <4>1. CASE u = t
        BY <1>1, <1>4, <1>8, <2>7, <4>1
      <4>2. CASE u # t
        <5>1. call'[u] = call[u] /\ Carried(u) = {call[u].k}
          BY <1>4, <3>4, <4>2 DEF Carried
        <5>2. call[u].k # c.k /\ call[u].k \in Slot
          BY <1>0, <1>2, <4>2, <5>1 DEF SlotsExclusive, CallsOK
        <5> QED  BY <1>1, <1>8, <2>1, <3>4, <5>1, <5>2 DEF KindsKept
      <4> QED  BY <4>1, <4>2
    <3> QED  BY <3>1, <3>2, <3>3, <3>4 DEF KindsKept
  <2> QED  BY <1>11, <2>1, <2>5, <2>6, <2>9 DEF Unraced
<1> QED  BY <1>9, <1>10, <1>11, <1>12, <1>13 DEF MutexInv

(* A store to the object of a mutex that is not ready and stays so.        *)
LEMMA StoreStep ==
  ASSUME MutexInv, NEW t \in Threads, NEW pc, NEW m,
         Moved(t, pc, call[t].op, call[t].g, call[t].k, m),
         call[t].pc \in {"self", "sign", "index", "pointer"},
         pc \in {"sign", "index", "pointer"} \/ (pc = "use" /\ call[t].op = "init"),
         UNCHANGED <<blocks, host, alive, history>>,
         obj' \in [Mutexes -> [self : Mutexes \cup {None}, sign : BOOLEAN, kind : Kinds,
                               k : Slot \cup {None}, m : Slot \cup {None}]],
         \A h \in Mutexes : h # call[t].g => obj'[h] = obj[h],
         obj'[call[t].g].kind = obj[call[t].g].kind, obj[call[t].g].sign => obj'[call[t].g].sign,
         InitCall(t)',
         raced = {} => InstallCall(t)' /\ (obj'[call[t].g].sign => obj'[call[t].g].self = call[t].g)
  PROVE  MutexInv'
<1> DEFINE c == call[t]
<1>0. /\ TypeOK /\ TableOK /\ CallsOK /\ HostsOK /\ FreeCount /\ SlotsExclusive /\ InitAlone
      /\ raced = {} => InstallAlone /\ SlotsOwned /\ OwnersHold /\ KindsKept
  BY DEF MutexInv, Unraced
<1>1. /\ blocks' = blocks /\ host' = host /\ alive' = alive
      /\ want' = want /\ held' = held /\ raced' = raced
  BY DEF history
<1>2. /\ c.g \in Mutexes /\ c.op \in Ops
      /\ Carried(t) = {c.k} /\ Installing(t) /\ c.k \in Slot
  BY InCall DEF Carried, Installing
<1>4. /\ call'[t].pc = pc /\ call'[t].op = c.op /\ call'[t].g = c.g /\ call'[t].k = c.k
      /\ \A u \in Threads : u # t => call'[u] = call[u]
  BY DEF Moved
<1>5. /\ Carried(t)' = {c.k} /\ Installing(t)' /\ \A u \in Threads : u # t => Carried(u)' = Carried(u)
  <2>1. /\ \A u \in Threads : u # t => Carried(u)' = Carried(u)
        /\ Carried(t)' =
             IF \/ pc \in {"again", "giveback", "kind", "self", "sign", "index", "pointer"}
                \/ pc = "use" /\ c.op = "init"
             THEN {c.k} ELSE {}
        /\ Installing(t)' <=> \/ pc \in {"kind", "self", "sign", "index", "pointer"}
                              \/ pc = "use" /\ c.op = "init"
    BY <1>0, MovedFrame
  <2> QED  BY <2>1
<1>6. \A h \in Mutexes : /\ Ready(h)' <=> Ready(h)
                         /\ Ready(h) => h # c.g /\ obj'[h] = obj[h]
  <2>1. ASSUME NEW h \in Mutexes, h = c.g PROVE ~Ready(h) /\ ~Ready(h)'
    BY <1>2, <1>4, <1>5, <2>1 DEF Ready, In
  <2>2. ASSUME NEW h \in Mutexes, h # c.g PROVE Ready(h)' <=> Ready(h)
    <3>1. Installed(h)' <=> Installed(h)
      BY <2>2 DEF Installed
    <3> QED  BY <1>0, <1>1, <1>2, <1>5, <2>2, <3>1, ReadyFrame
  <2> QED  BY <2>1, <2>2
<1>7. OthersKeep(None)
  BY <1>6 DEF OthersKeep
<1>8. TypeOK' /\ HostsOK' /\ TableOK' /\ FreeCount'
  BY <1>0, <1>1 DEF TypeOK, HostsOK, TableOK, FreeCount
<1>9. CallsOK'
  BY <1>0, <1>2, <1>5, CallsFrame
<1>10. SlotsExclusive' /\ (SlotsOwned => SlotsOwned')
  <2>1. Taken' = Taken /\ \A u \in Threads : Carried(u)' = Carried(u)
    BY <1>1, <1>2, <1>5 DEF Taken
  <2> QED  BY <1>0, <1>7, <2>1, OwnSame
<1>11. InitAlone'
  BY <1>0, <1>1, InitFrame
<1>12. ASSUME raced' = {} PROVE Unraced'
  <2>1. InstallAlone /\ OwnersHold /\ KindsKept /\ SlotsOwned
    BY <1>0, <1>1, <1>12
  <2>2. \A h \in Mutexes : Ready(h)' => obj'[h].k = obj'[h].m
    BY <1>6, <2>1 DEF InstallAlone
  <2>4. AloneIn(t)
    BY <1>0, <2>1, InstallerAlone
  <2>5. InstallAlone'
    BY <1>0, <1>1, <1>12, <2>1, <2>2, <2>4, InstallFrame
  <2>6. OwnersHold'
    BY <1>1, <1>7, <2>1, ReadySlot, OwnersFrame, GuestMutexAssumption
  <2>9. KindsKept'
    <3>1. \A h \in Mutexes : Ready(h)' => host'[obj'[h].m].kind = want'[h]
      BY <1>1, <1>6, <2>1 DEF KindsKept
    <3>2. ASSUME NEW h \in alive', ~obj'[h].sign PROVE obj'[h].kind = want'[h]
      <4>1. h \in Mutexes /\ ~obj[h].sign /\ obj'[h].kind = obj[h].kind
        BY <1>0, <1>1, <3>2 DEF TypeOK
      <4> QED  BY <1>1, <2>1, <3>2, <4>1 DEF KindsKept
    <3>3. ASSUME NEW h \in alive', obj'[h].sign, obj'[h].self # h
          PROVE  \E x \in Mutexes : x = obj'[h].self /\ Ready(x)' /\ obj'[x].m = obj'[h].m /\ want'[x] = want'[h]
      <4>1. h \in Mutexes /\ h # c.g /\ obj'[h] = obj[h]
        BY <1>0, <1>1, <1>12, <3>3 DEF TypeOK
      <4> QED  BY <1>1, <1>6, <2>1, <3>3, <4>1 DEF KindsKept
    <3>4. ASSUME NEW u \in Threads, call'[u].pc \in {"self", "sign", "index", "pointer"}, call'[u].op # "init"
          PROVE  host'[call'[u].k].kind = want'[call'[u].g]
      <4>1. /\ call'[u].op = call[u].op /\ call'[u].g = call[u].g /\ call'[u].k = call[u].k
            /\ call[u].pc \in {"self", "sign", "index", "pointer"}
        BY <1>4, <3>4
      <4> QED  BY <1>1, <2>1, <3>4, <4>1 DEF KindsKept
    <3> QED  BY <3>1, <3>2, <3>3, <3>4 DEF KindsKept
  <2> QED  BY <1>10, <2>1, <2>5, <2>6, <2>9 DEF Unraced
<1> QED  BY <1>8, <1>9, <1>10, <1>11, <1>12 DEF MutexInv

(* the stores that install it: self, ...                                   *)
LEMMA SetSelfKeeps ==
  ASSUME MutexInv, NEW t \in Threads, SetSelf(t)
  PROVE  MutexInv'
<1> DEFINE c == call[t]
<1>0. CallsOK /\ TypeOK
  BY DEF MutexInv
<1>1. /\ c.pc = "self" /\ obj' = [obj EXCEPT ![c.g].self = c.g] /\ Goto(t, "sign")
      /\ UNCHANGED <<blocks, host, alive, history>>
  BY DEF SetSelf
<1>2. c.g \in Mutexes /\ c.op \in Ops /\ InitCall(t) /\ (raced = {} => InstallCall(t))
  BY <1>1, InCall
<1>3. Moved(t, "sign", c.op, c.g, c.k, c.m)
  BY <1>0, <1>1, GotoMoves DEF PCs
<1>4. /\ obj' \in [Mutexes -> [self : Mutexes \cup {None}, sign : BOOLEAN, kind : Kinds,
                               k : Slot \cup {None}, m : Slot \cup {None}]]
      /\ \A h \in Mutexes : h # c.g => obj'[h] = obj[h]
      /\ obj'[c.g].self = c.g /\ obj'[c.g].sign = obj[c.g].sign /\ obj'[c.g].kind = obj[c.g].kind
  BY <1>0, <1>1, <1>2 DEF TypeOK
<1>5. InitCall(t)'
  BY <1>1, <1>2, <1>3, <1>4 DEF InitCall, Moved
<1>6. InstallCall(t)'
  BY <1>3, <1>4 DEF InstallCall, Moved
<1> QED  BY <1>1, <1>3, <1>4, <1>5, <1>6, StoreStep

(* the sign, ...                                                           *)
LEMMA SetSignKeeps ==
  ASSUME MutexInv, NEW t \in Threads, SetSign(t)
  PROVE  MutexInv'
<1> DEFINE c == call[t]
<1>0. CallsOK /\ TypeOK
  BY DEF MutexInv
<1>1. /\ c.pc = "sign" /\ obj' = [obj EXCEPT ![c.g].sign = TRUE] /\ Goto(t, "index")
      /\ UNCHANGED <<blocks, host, alive, history>>
  BY DEF SetSign
<1>2. c.g \in Mutexes /\ c.op \in Ops /\ InitCall(t) /\ (raced = {} => InstallCall(t))
  BY <1>1, InCall
<1>3. Moved(t, "index", c.op, c.g, c.k, c.m)
  BY <1>0, <1>1, GotoMoves DEF PCs
<1>4. /\ obj' \in [Mutexes -> [self : Mutexes \cup {None}, sign : BOOLEAN, kind : Kinds,
                               k : Slot \cup {None}, m : Slot \cup {None}]]
      /\ \A h \in Mutexes : h # c.g => obj'[h] = obj[h]
      /\ obj'[c.g].self = obj[c.g].self /\ obj'[c.g].sign /\ obj'[c.g].kind = obj[c.g].kind
  <2>0. PICK yes \in BOOLEAN : yes = TRUE
    BY Zenon
  <2> DEFINE r == [obj[c.g] EXCEPT !.sign = yes]
  <2>1. /\ r \in [self : Mutexes \cup {None}, sign : BOOLEAN, kind : Kinds,
                   k : Slot \cup {None}, m : Slot \cup {None}]
        /\ r.self = obj[c.g].self /\ r.kind = obj[c.g].kind /\ r.sign = yes
    BY <1>0, <1>2 DEF TypeOK
  <2>2. r.sign
    BY <2>0, <2>1, Zenon
  <2>3. obj' = [obj EXCEPT ![c.g] = r]
    BY <1>1, <2>0, Zenon
  <2> HIDE DEF r
  <2> QED  BY <1>0, <1>2, <2>1, <2>2, <2>3 DEF TypeOK
<1>5. InitCall(t)'
  BY <1>1, <1>2, <1>3, <1>4 DEF InitCall, Moved
<1>6. raced = {} => InstallCall(t)' /\ obj'[c.g].self = c.g
  BY <1>1, <1>2, <1>3, <1>4 DEF InstallCall, Moved
<1> QED  BY <1>1, <1>3, <1>4, <1>5, <1>6, StoreStep

(* the index, ...                                                          *)
LEMMA SetIndexKeeps ==
  ASSUME MutexInv, NEW t \in Threads, SetIndex(t)
  PROVE  MutexInv'
<1> DEFINE c == call[t]
<1>0. CallsOK /\ TypeOK
  BY DEF MutexInv
<1>1. /\ c.pc = "index" /\ obj' = [obj EXCEPT ![c.g].k = c.k] /\ Goto(t, "pointer")
      /\ UNCHANGED <<blocks, host, alive, history>>
  BY DEF SetIndex
<1>2. c.g \in Mutexes /\ c.op \in Ops /\ InitCall(t) /\ (raced = {} => InstallCall(t)) /\ c.k \in Slot
  BY <1>1, InCall DEF Carried
<1>3. Moved(t, "pointer", c.op, c.g, c.k, c.m)
  BY <1>0, <1>1, GotoMoves DEF PCs
<1>4. /\ obj' \in [Mutexes -> [self : Mutexes \cup {None}, sign : BOOLEAN, kind : Kinds,
                               k : Slot \cup {None}, m : Slot \cup {None}]]
      /\ \A h \in Mutexes : h # c.g => obj'[h] = obj[h]
      /\ obj'[c.g].self = obj[c.g].self /\ obj'[c.g].sign = obj[c.g].sign
      /\ obj'[c.g].kind = obj[c.g].kind /\ obj'[c.g].k = c.k
  BY <1>0, <1>1, <1>2 DEF TypeOK
<1>5. InitCall(t)'
  BY <1>1, <1>2, <1>3, <1>4 DEF InitCall, Moved
<1>6. raced = {} => InstallCall(t)' /\ obj'[c.g].self = c.g
  BY <1>1, <1>2, <1>3, <1>4 DEF InstallCall, Moved
<1> QED  BY <1>1, <1>3, <1>4, <1>5, <1>6, StoreStep

(* The last store makes the mutex ready, unless it is still to be          *)
(* initialised.                                                            *)
LEMMA SetPointerKeeps ==
  ASSUME MutexInv, NEW t \in Threads, SetPointer(t)
  PROVE  MutexInv'
<1> DEFINE c == call[t]
<1>0. /\ TypeOK /\ TableOK /\ CallsOK /\ HostsOK /\ FreeCount /\ SlotsExclusive /\ InitAlone
      /\ raced = {} => InstallAlone /\ SlotsOwned /\ OwnersHold /\ KindsKept
  BY DEF MutexInv, Unraced
<1>1. /\ c.pc = "pointer" /\ obj' = [obj EXCEPT ![c.g].m = c.k]
      /\ UNCHANGED <<blocks, host, alive, history>>
      /\ want' = want /\ held' = held /\ raced' = raced
  BY DEF SetPointer, history
<1>2. /\ c.g \in Mutexes /\ c.op \in Ops /\ InitCall(t) /\ (raced = {} => InstallCall(t))
      /\ c.k \in Slot /\ Carried(t) = {c.k} /\ Installing(t)
  BY <1>1, InCall DEF Carried, Installing
<1>3. Moved(t, "use", c.op, c.g, c.k, c.k)
  BY <1>0, StepsMove
<1>4. /\ obj' \in [Mutexes -> [self : Mutexes \cup {None}, sign : BOOLEAN, kind : Kinds,
                               k : Slot \cup {None}, m : Slot \cup {None}]]
      /\ \A h \in Mutexes : h # c.g => obj'[h] = obj[h]
      /\ obj'[c.g].self = obj[c.g].self /\ obj'[c.g].sign = obj[c.g].sign
      /\ obj'[c.g].kind = obj[c.g].kind /\ obj'[c.g].k = obj[c.g].k /\ obj'[c.g].m = c.k
  BY <1>0, <1>1, <1>2 DEF TypeOK
<1>5. InitCall(t)'
  BY <1>1, <1>2, <1>3, <1>4 DEF InitCall, Moved
<1>6. raced = {} => InstallCall(t)' /\ obj'[c.g].self = c.g /\ obj[c.g].sign /\ obj[c.g].k = c.k
  BY <1>1, <1>2, <1>3, <1>4 DEF InstallCall, Moved, Installed
<1>7. CASE c.op = "init"
  BY <1>1, <1>3, <1>4, <1>5, <1>6, <1>7, StoreStep
<1>8. CASE c.op # "init"
  <2>1. PICK g \in Mutexes : g = c.g
    BY <1>2
  <2>2. /\ call'[t].pc = "use" /\ call'[t].op = c.op /\ call'[t].g = g /\ call'[t].k = c.k
        /\ \A u \in Threads : u # t => call'[u] = call[u]
    BY <1>3, <2>1 DEF Moved
  <2>3. /\ Carried(t)' = {} /\ ~Installing(t)' /\ \A u \in Threads : u # t => Carried(u)' = Carried(u)
    BY <1>0, <1>3, <1>8, MovedFrame
  <2>4. ~Ready(g) /\ g \in alive
    BY <1>1, <1>2, <1>8, <2>1 DEF Ready, In, InitCall
  <2>5. ASSUME NEW h \in Mutexes, h # g PROVE Ready(h)' <=> Ready(h)
    <3>1. Installed(h)' <=> Installed(h)
      BY <1>4, <2>1, <2>5 DEF Installed
    <3> QED  BY <1>0, <1>1, <1>3, <2>1, <2>5, <3>1, ReadyFrame
  <2>6. OthersKeep(g)
    BY <1>4, <2>1, <2>5 DEF OthersKeep
  <2>7. TypeOK' /\ HostsOK' /\ TableOK' /\ FreeCount'
    BY <1>0, <1>1, <1>4 DEF TypeOK, HostsOK, TableOK, FreeCount
  <2>8. CallsOK'
    BY <1>0, <1>2, <1>3, <2>3, CallsFrame
  <2>9. SlotsExclusive' /\ (Ready(g)' /\ ~Ready(g) /\ SlotsOwned => SlotsOwned')
    <3>1. Taken' = Taken
      BY <1>1 DEF Taken
    <3> QED  BY <1>0, <1>2, <1>4, <2>1, <2>3, <2>6, <3>1, OwnHand
  <2>10. InitAlone'
    BY <1>0, <1>1, <1>3, <1>4, <1>5, InitFrame
  <2>11. ASSUME raced' = {} PROVE Unraced'
    <3>1. InstallAlone /\ OwnersHold /\ KindsKept /\ SlotsOwned
      BY <1>0, <1>1, <2>11
    <3>2. obj'[g].self = g /\ obj'[g].sign /\ obj'[g].k = c.k /\ InstallCall(t)'
      BY <1>1, <1>4, <1>6, <2>1, <2>11
    <3>3. AloneIn(t)
      BY <1>0, <1>1, <3>1, InstallerAlone
    <3>4. Ready(g)'
      <4>1. \A u \in Threads : call'[u].g = g => u = t
        BY <2>1, <2>2, <3>3 DEF AloneIn
      <4> QED  BY <1>1, <2>3, <2>4, <3>2, <4>1 DEF Ready, In, Installed
    <3>5. \A h \in Mutexes : Ready(h)' => obj'[h].k = obj'[h].m
      BY <1>4, <2>1, <2>5, <3>1, <3>2 DEF InstallAlone
    <3>6. InstallAlone'
      BY <1>0, <1>1, <1>3, <1>4, <3>1, <3>2, <3>3, <3>5, InstallFrame
    <3>7. host[c.k].owner = None
      BY <1>0, <1>2, <3>1 DEF OwnersHold, SlotsExclusive
    <3>8. OwnersHold'
      BY <1>1, <1>2, <1>4, <2>1, <2>4, <2>6, <3>1, <3>7, ReadySlot, OwnersFrame
    <3>9. KindsKept'
      <4>1. ASSUME NEW h \in Mutexes, Ready(h)' PROVE host'[obj'[h].m].kind = want'[h]
        <5>1. CASE h = g
          <6>1. host[c.k].kind = want[c.g]
            BY <1>1, <1>8, <3>1 DEF KindsKept
          <6> QED  BY <1>1, <1>4, <2>1, <5>1, <6>1
        <5>2. CASE h # g
          BY <1>1, <1>4, <2>1, <2>5, <3>1, <4>1, <5>2 DEF KindsKept
        <5> QED  BY <5>1, <5>2
      <4>2. ASSUME NEW h \in alive', ~obj'[h].sign PROVE obj'[h].kind = want'[h]
        <5>1. h \in Mutexes /\ ~obj[h].sign /\ obj'[h].kind = obj[h].kind
          BY <1>0, <1>1, <1>4, <4>2 DEF TypeOK
        <5> QED  BY <1>1, <3>1, <4>2, <5>1 DEF KindsKept
      <4>3. ASSUME NEW h \in alive', obj'[h].sign, obj'[h].self # h
            PROVE  \E x \in Mutexes : x = obj'[h].self /\ Ready(x)' /\ obj'[x].m = obj'[h].m /\ want'[x] = want'[h]
        <5>1. h \in Mutexes /\ h # g /\ obj'[h] = obj[h]
          BY <1>0, <1>1, <1>4, <2>1, <3>2, <4>3 DEF TypeOK
        <5>2. PICK x \in Mutexes : x = obj[h].self /\ Ready(x) /\ obj[x].m = obj[h].m /\ want[x] = want[h]
          BY <1>1, <3>1, <4>3, <5>1 DEF KindsKept
        <5>3. x # g /\ Ready(x)' /\ obj'[x] = obj[x]
          BY <1>4, <2>1, <2>4, <2>5, <5>2
        <5> QED  BY <1>1, <5>1, <5>2, <5>3
      <4>4. ASSUME NEW u \in Threads, call'[u].pc \in {"self", "sign", "index", "pointer"}, call'[u].op # "init"
            PROVE  host'[call'[u].k].kind = want'[call'[u].g]
        BY <1>1, <2>2, <3>1, <4>4 DEF KindsKept
      <4> QED  BY <4>1, <4>2, <4>3, <4>4 DEF KindsKept
    <3> QED  BY <2>4, <2>9, <3>1, <3>4, <3>6, <3>8, <3>9 DEF Unraced
  <2> QED  BY <2>7, <2>8, <2>9, <2>10, <2>11 DEF MutexInv
<1> QED  BY <1>7, <1>8

-----------------------------------------------------------------------------
HostRec == [kind : Kinds \cup {None}, owner : Threads \cup {None}, depth : 0 .. MaxDepth]

(* The steps of pthread: they end the call.  A step that locks or unlocks  *)
(* the host mutex of its call:                                             *)
LEMMA HostStep ==
  ASSUME MutexInv, NEW t \in Threads, NEW r,
         call[t].pc = "use", call[t].op # "init", call[t].m \in Slot,
         Moved(t, "idle", None, None, None, None), UNCHANGED <<blocks, obj, alive, want, raced>>,
         r \in HostRec, host' = [host EXCEPT ![call[t].m] = r], r.kind = host[call[t].m].kind,
         r.owner = None <=> r.depth = 0,
         held' \in [Mutexes -> SUBSET Threads],
         \A h \in Mutexes : h # call[t].g => held'[h] = held[h],
         held[call[t].g] = {host[call[t].m].owner} \ {None} => held'[call[t].g] = {r.owner} \ {None}
  PROVE  MutexInv'
<1> DEFINE c == call[t]
<1>0. /\ TypeOK /\ TableOK /\ CallsOK /\ HostsOK /\ FreeCount /\ SlotsExclusive /\ InitAlone
      /\ raced = {} => InstallAlone /\ SlotsOwned /\ OwnersHold /\ KindsKept
  BY DEF MutexInv, Unraced
<1>1. blocks' = blocks /\ obj' = obj /\ alive' = alive /\ want' = want /\ raced' = raced
  OBVIOUS
<1>2. c.g \in Mutexes /\ Carried(t) = {} /\ ~Installing(t)
  BY InCall DEF Carried, Installing
<1>3. /\ Carried(t)' = {} /\ ~Installing(t)' /\ \A u \in Threads : u # t => Carried(u)' = Carried(u)
  BY <1>0, MovedFrame
<1>4. OthersKeep(None)
  <2>1. ASSUME NEW h \in Mutexes PROVE Ready(h)' <=> Ready(h)
    <3>1. Installed(h)' <=> Installed(h)
      BY <1>1 DEF Installed
    <3> QED  BY <1>0, <1>1, <1>2, <1>3, <3>1, ReadyFrame
  <2> QED  BY <1>1, <2>1 DEF OthersKeep
<1>5. /\ host' \in [Slot -> [kind : Kinds \cup {None}, owner : Threads \cup {None}, depth : 0 .. MaxDepth]]
      /\ host'[c.m] = r /\ \A x \in Slot : x # c.m => host'[x] = host[x]
  BY <1>0 DEF TypeOK, HostRec
<1>6. TypeOK' /\ HostsOK' /\ TableOK' /\ FreeCount'
  BY <1>0, <1>1, <1>5 DEF TypeOK, HostsOK, TableOK, FreeCount
<1>7. CallsOK'
  BY <1>0, <1>3, CallsFrame
<1>8. SlotsExclusive' /\ (SlotsOwned => SlotsOwned')
  <2>1. Taken' = Taken /\ \A u \in Threads : Carried(u)' = Carried(u)
    BY <1>1, <1>2, <1>3 DEF Taken
  <2> QED  BY <1>0, <1>4, <2>1, OwnSame
<1>9. InitCall(t)' /\ InstallCall(t)'
  BY DEF InitCall, InstallCall, Moved
<1>10. InitAlone'
  BY <1>0, <1>1, <1>9, InitFrame
<1>11. ASSUME raced' = {} PROVE Unraced'
  <2>1. InstallAlone /\ OwnersHold /\ KindsKept /\ SlotsOwned
    BY <1>0, <1>1, <1>11
  <2>2. \A h \in Mutexes : Ready(h)' <=> Ready(h)
    BY <1>4, GuestMutexAssumption DEF OthersKeep
  <2>3. InstallAlone'
    <3>1. \A h \in Mutexes : Ready(h)' => obj'[h].k = obj'[h].m
      BY <1>1, <2>1, <2>2 DEF InstallAlone
    <3> QED  BY <1>0, <1>1, <1>9, <2>1, <3>1, InstallFrame, GuestMutexAssumption
  <2>4. Ready(c.g) /\ c.m = obj[c.g].m
    BY <1>1, <1>11, UsedReady
  <2>5. OwnersHold'
    <3>1. ASSUME NEW k \in Slot, host'[k].owner # None PROVE \E h \in Mutexes : Ready(h)' /\ obj'[h].m = k
      <4>1. CASE k = c.m
        BY <1>1, <1>2, <2>2, <2>4, <4>1
      <4>2. CASE k # c.m
        BY <1>1, <1>5, <2>1, <2>2, <3>1, <4>2 DEF OwnersHold
      <4> QED  BY <4>1, <4>2
    <3>2. ASSUME NEW h \in Mutexes PROVE held'[h] = IF Ready(h)' THEN {host'[obj'[h].m].owner} \ {None} ELSE {}
      <4>1. CASE h = c.g
        <5>1. held[h] = {host[c.m].owner} \ {None}
          BY <2>1, <2>4, <4>1 DEF OwnersHold
        <5>2. held'[h] = {r.owner} \ {None}
          BY <4>1, <5>1
        <5> QED  BY <1>1, <1>5, <2>2, <2>4, <4>1, <5>2
      <4>2. CASE h # c.g
        <5>1. Ready(h) => obj[h].m # c.m /\ obj[h].m \in Slot
          BY <1>0, <1>2, <2>4, <4>2, ReadySlot DEF SlotsExclusive
        <5>2. held'[h] = held[h]
          BY <4>2
        <5>3. Ready(h) => host'[obj'[h].m].owner = host[obj[h].m].owner
          BY <1>1, <1>5, <5>1
        <5>4. held[h] = IF Ready(h) THEN {host[obj[h].m].owner} \ {None} ELSE {}
          BY <2>1 DEF OwnersHold
        <5> QED  BY <2>2, <5>2, <5>3, <5>4
      <4> QED  BY <4>1, <4>2
    <3> QED  BY <3>1, <3>2 DEF OwnersHold
  <2>6. KindsKept'
    <3>1. \A x \in Slot : host'[x].kind = host[x].kind
      BY <1>5
    <3> QED  BY <1>0, <1>1, <1>4, <2>1, <3>1, ReadySlot, KindsFrame
  <2> QED  BY <1>8, <2>1, <2>3, <2>5, <2>6 DEF Unraced
<1> QED  BY <1>6, <1>7, <1>8, <1>10, <1>11 DEF MutexInv

(* (a host mutex with its owner and depth written) ...                     *)
LEMMA OwnerDepth ==
  ASSUME NEW x \in HostRec, NEW o, NEW d
  PROVE  /\ [x EXCEPT !.owner = o, !.depth = d] = [kind |-> x.kind, owner |-> o, depth |-> d]
         /\ [x EXCEPT !.depth = d, !.owner = o] = [kind |-> x.kind, owner |-> o, depth |-> d]
<1> DEFINE y == [x EXCEPT !.owner = o]
           z == [x EXCEPT !.depth = d]
<1>1. /\ y = [kind |-> x.kind, owner |-> o, depth |-> x.depth]
      /\ z = [kind |-> x.kind, owner |-> x.owner, depth |-> d]
  BY DEF HostRec
<1>2. /\ [x EXCEPT !.owner = o, !.depth = d] = [y EXCEPT !.depth = d]
      /\ [x EXCEPT !.depth = d, !.owner = o] = [z EXCEPT !.owner = o]
  OBVIOUS
<1> HIDE DEF y, z
<1>3. /\ [y EXCEPT !.depth = d] = [kind |-> x.kind, owner |-> o, depth |-> d]
      /\ [z EXCEPT !.owner = o] = [kind |-> x.kind, owner |-> o, depth |-> d]
  BY <1>1
<1> QED  BY <1>2, <1>3

(* the lock of the host, ...                                               *)
LEMMA HostLockKeeps ==
  ASSUME MutexInv, NEW t \in Threads, HostLock(t)
  PROVE  MutexInv'
<1> DEFINE c == call[t]
           x == host[c.m]
           r == [kind |-> x.kind, owner |-> t, depth |-> x.depth + 1]
<1>0. /\ TypeOK /\ CallsOK /\ HostsOK
  BY DEF MutexInv
<1>1. /\ c.pc = "use" /\ c.op # "init" /\ c.m \in Slot /\ MayLock(t, x)
      /\ host' = [host EXCEPT ![c.m] = [x EXCEPT !.owner = t, !.depth = @ + 1]]
      /\ held' = [held EXCEPT ![c.g] = @ \cup {t}]
      /\ UNCHANGED <<blocks, obj, alive, want, raced>>
  BY DEF HostLock
<1>2. Moved(t, "idle", None, None, None, None)
  BY <1>0, StepsMove
<1>3. x \in HostRec /\ x.depth \in 0 .. MaxDepth /\ (x.owner = None <=> x.depth = 0) /\ c.g \in Mutexes
  BY <1>0, <1>1, InCall DEF TypeOK, HostRec, HostsOK
<1>4. host' = [host EXCEPT ![c.m] = r]
  <2>1. [x EXCEPT !.owner = t, !.depth = x.depth + 1] = r
    <3> HIDE DEF x
    <3> QED  BY <1>3, OwnerDepth
  <2> HIDE DEF r
  <2> QED  BY <1>1, <2>1
<1>5. x.depth + 1 \in 0 .. MaxDepth /\ x.depth + 1 # 0 /\ x.owner \in {None, t} /\ t # None
  BY <1>1, <1>3, GuestMutexAssumption DEF MayLock
<1>6. r \in HostRec /\ r.kind = x.kind /\ r.owner = t /\ r.depth = x.depth + 1
  BY <1>3, <1>5 DEF HostRec
<1>7. /\ held' \in [Mutexes -> SUBSET Threads] /\ held'[c.g] = held[c.g] \cup {t}
      /\ \A h \in Mutexes : h # c.g => held'[h] = held[h]
  BY <1>0, <1>1, <1>3 DEF TypeOK
<1>8. held[c.g] = {x.owner} \ {None} => held'[c.g] = {t} \ {None}
  BY <1>5, <1>7
<1>9. (r.owner = None <=> r.depth = 0) /\ (held[c.g] = {x.owner} \ {None} => held'[c.g] = {r.owner} \ {None})
  BY <1>5, <1>6, <1>8
<1> HIDE DEF r
<1> QED  BY <1>1, <1>2, <1>4, <1>6, <1>7, <1>9, HostStep

(* its unlock, ...                                                         *)
LEMMA HostUnlockKeeps ==
  ASSUME MutexInv, NEW t \in Threads, HostUnlock(t)
  PROVE  MutexInv'
<1> DEFINE c == call[t]
           x == host[c.m]
<1>0. /\ TypeOK /\ CallsOK /\ HostsOK
  BY DEF MutexInv
<1>1. /\ c.pc = "use" /\ c.op # "init" /\ c.m \in Slot
      /\ host' = IF x.owner # t THEN host
                 ELSE [host EXCEPT ![c.m] = [x EXCEPT !.depth = @ - 1,
                                                      !.owner = IF x.depth = 1 THEN None ELSE @]]
      /\ held' = IF x.depth > 1 THEN held ELSE [held EXCEPT ![c.g] = @ \ {t}]
      /\ UNCHANGED <<blocks, obj, alive, want, raced>>
  BY DEF HostUnlock
<1>2. Moved(t, "idle", None, None, None, None)
  BY <1>0, StepsMove
<1>3. x \in HostRec /\ x.depth \in 0 .. MaxDepth /\ (x.owner = None <=> x.depth = 0) /\ c.g \in Mutexes
  BY <1>0, <1>1, InCall DEF TypeOK, HostRec, HostsOK
<1>4. /\ held' \in [Mutexes -> SUBSET Threads]
      /\ held'[c.g] = IF x.depth > 1 THEN held[c.g] ELSE held[c.g] \ {t}
      /\ \A h \in Mutexes : h # c.g => held'[h] = held[h]
  BY <1>0, <1>1, <1>3 DEF TypeOK
<1>5. CASE x.owner # t
  <2>1. host' = [host EXCEPT ![c.m] = x]
    BY <1>0, <1>1, <1>5 DEF TypeOK
  <2>2. held[c.g] = {x.owner} \ {None} => held'[c.g] = {x.owner} \ {None}
    BY <1>4, <1>5
  <2>3. PICK r \in HostRec : r = x
    BY <1>3
  <2>4. host' = [host EXCEPT ![c.m] = r] /\ r.kind = host[c.m].kind /\ (r.owner = None <=> r.depth = 0)
    BY <1>3, <2>1, <2>3
  <2>5. held[c.g] = {host[c.m].owner} \ {None} => held'[c.g] = {r.owner} \ {None}
    BY <2>2, <2>3
  <2> QED  BY <1>1, <1>2, <1>4, <2>3, <2>4, <2>5, HostStep
<1>6. CASE x.owner = t
  <2> DEFINE o == IF x.depth = 1 THEN None ELSE x.owner
             r == [kind |-> x.kind, owner |-> o, depth |-> x.depth - 1]
  <2>1. host' = [host EXCEPT ![c.m] = [x EXCEPT !.depth = x.depth - 1, !.owner = o]]
    BY <1>1, <1>6
  <2>2. host' = [host EXCEPT ![c.m] = r]
    <3>1. [x EXCEPT !.depth = x.depth - 1, !.owner = o] = r
      <4> HIDE DEF x, o
      <4> QED  BY <1>3, OwnerDepth
    <3> HIDE DEF r
    <3> QED  BY <2>1, <3>1
  <2>3. x.depth - 1 \in 0 .. MaxDepth /\ (o = None <=> x.depth - 1 = 0) /\ o \in Threads \cup {None} /\ t # None
    BY <1>3, <1>6, GuestMutexAssumption
  <2>4. r \in HostRec /\ r.kind = x.kind /\ r.owner = o /\ r.depth = x.depth - 1
    BY <1>3, <2>3 DEF HostRec
  <2>5. held[c.g] = {x.owner} \ {None} => held'[c.g] = {o} \ {None}
    <3>1. x.depth > 1 => held'[c.g] = held[c.g] /\ o = x.owner
      BY <1>3, <1>4
    <3>2. ~(x.depth > 1) => held'[c.g] = held[c.g] \ {t} /\ o = None
      BY <1>3, <1>4, <1>6, <2>3
    <3> QED  BY <1>6, <3>1, <3>2
  <2>6. (r.owner = None <=> r.depth = 0) /\ (held[c.g] = {x.owner} \ {None} => held'[c.g] = {r.owner} \ {None})
    <3> HIDE DEF r, o
    <3> QED  BY <2>3, <2>4, <2>5
  <2> HIDE DEF r
  <2> QED  BY <1>1, <1>2, <1>4, <2>2, <2>4, <2>6, HostStep
<1> QED  BY <1>5, <1>6

(* pthread_mutex_init makes the mutex ready.                               *)
LEMMA HostInitKeeps ==
  ASSUME MutexInv, NEW t \in Threads, HostInit(t)
  PROVE  MutexInv'
<1> DEFINE c == call[t]
<1>0. /\ TypeOK /\ TableOK /\ CallsOK /\ HostsOK /\ FreeCount /\ SlotsExclusive /\ InitAlone
      /\ raced = {} => InstallAlone /\ SlotsOwned /\ OwnersHold /\ KindsKept
  BY DEF MutexInv, Unraced
<1>1. /\ c.pc = "use" /\ c.op = "init"
      /\ host' = [host EXCEPT ![c.m] = [Fresh EXCEPT !.kind = want[c.g]]]
      /\ alive' = alive \cup {c.g} /\ blocks' = blocks /\ obj' = obj
      /\ want' = want /\ held' = held /\ raced' = raced
  BY DEF HostInit, history
<1>2. c.g \in Mutexes /\ InitCall(t) /\ c.k \in Slot /\ Carried(t) = {c.k}
  BY <1>1, InCall DEF Carried
<1>3. PICK g \in Mutexes : g = c.g
  BY <1>2
<1>4. /\ g \notin alive /\ (\A u \in Threads : call[u].g = g => u = t)
      /\ obj[g].self = g /\ obj[g].sign /\ obj[g].k = c.k /\ obj[g].m = c.k /\ c.m = c.k
  BY <1>1, <1>2, <1>3 DEF InitCall
<1>5. Moved(t, "idle", None, None, None, None)
  BY <1>0, StepsMove
<1>6. /\ call'[t].pc = "idle" /\ call'[t].g = None /\ g # None
      /\ \A u \in Threads : u # t => call'[u] = call[u]
      /\ \A h : Installed(h)' <=> Installed(h)
  BY <1>1, <1>5, GuestMutexAssumption DEF Moved, Installed
<1>7. /\ Carried(t)' = {} /\ \A u \in Threads : u # t => Carried(u)' = Carried(u)
  BY <1>0, <1>5, MovedFrame
<1>8. ASSUME NEW h \in Mutexes, h # g PROVE Ready(h)' <=> Ready(h)
  <2>1. h # None
    BY GuestMutexAssumption
  <2> QED  BY <1>0, <1>1, <1>3, <1>5, <1>6, <1>8, <2>1, ReadyFrame
<1>9. OthersKeep(g)
  BY <1>1, <1>8 DEF OthersKeep
<1>10. ~Ready(g) /\ Ready(g)'
  <2>1. \A u \in Threads : call'[u].g # g
    BY <1>4, <1>6
  <2> QED  BY <1>1, <1>3, <1>4, <2>1 DEF Ready, In, Installed
<1>11. /\ host' \in [Slot -> HostRec]
       /\ host'[c.k].owner = None /\ host'[c.k].depth = 0 /\ host'[c.k].kind = want[g]
       /\ \A x \in Slot : x # c.k => host'[x] = host[x]
  <2>1. want[g] \in Kinds /\ MaxDepth \in Nat
    BY <1>0, GuestMutexAssumption DEF TypeOK
  <2>2. [Fresh EXCEPT !.kind = want[c.g]] = [kind |-> want[g], owner |-> None, depth |-> 0]
    BY <1>3 DEF Fresh
  <2>3. [kind |-> want[g], owner |-> None, depth |-> 0] \in HostRec
    BY <2>1 DEF HostRec
  <2>4. host \in [Slot -> HostRec]
    BY <1>0 DEF TypeOK, HostRec
  <2> QED  BY <1>1, <1>2, <1>4, <2>2, <2>3, <2>4
<1>12. TypeOK' /\ HostsOK' /\ TableOK' /\ FreeCount'
  BY <1>0, <1>1, <1>3, <1>11 DEF TypeOK, HostsOK, TableOK, FreeCount, HostRec
<1>13. CallsOK'
  BY <1>0, <1>5, <1>7, CallsFrame
<1>14. SlotsExclusive' /\ (SlotsOwned => SlotsOwned')
  <2>1. Taken' = Taken
    BY <1>1 DEF Taken
  <2> QED  BY <1>0, <1>1, <1>2, <1>4, <1>7, <1>9, <1>10, <2>1, OwnHand
<1>15. InitCall(t)' /\ InstallCall(t)'
  BY <1>5 DEF InitCall, InstallCall, Moved
<1>16. InitAlone'
  BY <1>0, <1>1, <1>5, <1>15, InitFrame
<1>17. ASSUME raced' = {} PROVE Unraced'
  <2>1. InstallAlone /\ OwnersHold /\ KindsKept /\ SlotsOwned
    BY <1>0, <1>1, <1>17
  <2>2. InstallAlone'
    <3>1. \A h \in Mutexes : Ready(h)' => obj'[h].k = obj'[h].m
      BY <1>1, <1>4, <1>8, <2>1 DEF InstallAlone
    <3> QED  BY <1>0, <1>1, <1>5, <1>15, <2>1, <3>1, InstallFrame, GuestMutexAssumption
  <2>3. host[c.k].owner = None
    BY <1>0, <1>2, <2>1 DEF OwnersHold, SlotsExclusive
  <2>4. \A x \in Slot : host'[x].owner = host[x].owner
    BY <1>11, <2>3
  <2>5. OwnersHold'
    BY <1>1, <1>2, <1>4, <1>9, <1>10, <2>1, <2>3, <2>4, ReadySlot, OwnersFrame
  <2>6. \A h \in Mutexes : Ready(h) => h # g /\ obj[h].m # c.k /\ obj[h].m \in Slot
    BY <1>0, <1>2, <1>10, ReadySlot DEF SlotsExclusive
  <2>7. KindsKept'
    <3>1. ASSUME NEW h \in Mutexes, Ready(h)' PROVE host'[obj'[h].m].kind = want'[h]
      <4>1. CASE h = g
        BY <1>1, <1>4, <1>11, <4>1
      <4>2. CASE h # g
        <5>1. Ready(h) /\ obj'[h].m = obj[h].m /\ obj[h].m # c.k /\ obj[h].m \in Slot
          BY <1>1, <1>8, <2>6, <3>1, <4>2
        <5>2. host'[obj[h].m] = host[obj[h].m]
          BY <1>11, <5>1
        <5>3. host[obj[h].m].kind = want[h]
          BY <2>1, <5>1 DEF KindsKept
        <5> QED  BY <1>1, <5>1, <5>2, <5>3
      <4> QED  BY <4>1, <4>2
    <3>2. ASSUME NEW h \in alive', ~obj'[h].sign PROVE obj'[h].kind = want'[h]
      BY <1>1, <1>3, <1>4, <2>1, <3>2 DEF KindsKept
    <3>3. ASSUME NEW h \in alive', obj'[h].sign, obj'[h].self # h
          PROVE  \E x \in Mutexes : x = obj'[h].self /\ Ready(x)' /\ obj'[x].m = obj'[h].m /\ want'[x] = want'[h]
      <4>1. h \in alive
        BY <1>1, <1>3, <1>4, <3>3
      <4>2. PICK x \in Mutexes : x = obj[h].self /\ Ready(x) /\ obj[x].m = obj[h].m /\ want[x] = want[h]
        BY <1>1, <2>1, <3>3, <4>1 DEF KindsKept
      <4>3. Ready(x)'
        BY <1>8, <2>6, <4>2
      <4> QED  BY <1>1, <4>2, <4>3
    <3>4. ASSUME NEW u \in Threads, call'[u].pc \in {"self", "sign", "index", "pointer"}, call'[u].op # "init"
          PROVE  host'[call'[u].k].kind = want'[call'[u].g]
      <4>1. u # t /\ call'[u] = call[u] /\ Carried(u) = {call[u].k}
        BY <1>6, <3>4 DEF Carried
      <4>2. call[u].k # c.k /\ call[u].k \in Slot
        BY <1>0, <1>2, <4>1 DEF SlotsExclusive, CallsOK
      <4> QED  BY <1>1, <1>11, <2>1, <3>4, <4>1, <4>2 DEF KindsKept
    <3> QED  BY <3>1, <3>2, <3>3, <3>4 DEF KindsKept
  <2> QED  BY <1>14, <2>1, <2>2, <2>5, <2>7 DEF Unraced
<1> QED  BY <1>12, <1>13, <1>14, <1>16, <1>17 DEF MutexInv

-----------------------------------------------------------------------------
(* The program destroys or overwrites the object g, which no call is in.   *)
LEMMA ObjectStep ==
  ASSUME MutexInv, NEW g \in Mutexes, call' = call, In(g) = {},
         \A h \in Mutexes : h # g => obj'[h] = obj[h] /\ (h \in alive' <=> h \in alive)
  PROVE  /\ CallsOK' /\ InitAlone' /\ OthersKeep(g)
         /\ \A u \in Threads : Carried(u)' = Carried(u) /\ call[u].g # g
         /\ InstallAlone /\ (Ready(g)' => obj'[g].k = obj'[g].m) => InstallAlone'
<1>0. CallsOK /\ InitAlone
  BY DEF MutexInv, Unraced
<1>1. \A u \in Threads : /\ Carried(u)' = Carried(u) /\ call[u].g # g
                         /\ Installing(u)' <=> Installing(u)
  BY DEF Carried, In, Installing
<1>2. CallsOK'
  BY <1>0, <1>1 DEF CallsOK
<1>3. ASSUME NEW u \in Threads, call[u].pc # "idle"
      PROVE  /\ call[u].g \in Mutexes /\ call[u].g # g
             /\ obj'[call[u].g] = obj[call[u].g] /\ (call[u].g \in alive' <=> call[u].g \in alive)
  BY <1>0, <1>1, <1>3 DEF CallsOK
<1>4. InitAlone'
  <2>1. ASSUME NEW u \in Threads PROVE InitCall(u)'
    <3>1. InitCall(u)
      BY <1>0 DEF InitAlone
    <3> QED  BY <1>3, <3>1 DEF InitCall
  <2> QED  BY <2>1 DEF InitAlone
<1>5. ASSUME NEW h \in Mutexes, h # g PROVE Ready(h)' <=> Ready(h)
  BY <1>1, <1>5 DEF Ready, In, Installed
<1>6. OthersKeep(g)
  BY <1>5 DEF OthersKeep
<1>7. ASSUME InstallAlone, Ready(g)' => obj'[g].k = obj'[g].m PROVE InstallAlone'
  <2>1. ASSUME NEW u \in Threads PROVE InstallCall(u)'
    <3>1. InstallCall(u)
      BY <1>7 DEF InstallAlone
    <3> QED  BY <1>3, <3>1 DEF InstallCall, Installed
  <2>2. ASSUME NEW u \in Threads, NEW v \in Threads, u # v, call'[u].g = call'[v].g, call'[u].g \in Mutexes
        PROVE  Installed(call[u].g)' /\ call'[u].pc \in {"check", "use"}
    <3>1. Installed(call[u].g) /\ call[u].pc \in {"check", "use"}
      BY <1>7, <2>2 DEF InstallAlone, Company
    <3> QED  BY <1>3, <3>1 DEF Installed
  <2>3. \A h \in Mutexes : Ready(h)' => obj'[h].k = obj'[h].m
    BY <1>5, <1>7 DEF InstallAlone
  <2> QED  BY <2>1, <2>2, <2>3 DEF InstallAlone, Company
<1> QED  BY <1>1, <1>2, <1>4, <1>6, <1>7

(* pthread_mutex_destroy, ...                                              *)
LEMMA DestroyKeeps ==
  ASSUME MutexInv, IndexOwned, NEW g \in Mutexes, Destroy(g)
  PROVE  MutexInv'
<1>0. /\ TypeOK /\ TableOK /\ CallsOK /\ HostsOK /\ FreeCount /\ SlotsExclusive /\ InitAlone
      /\ raced = {} => InstallAlone /\ SlotsOwned /\ OwnersHold /\ KindsKept
  BY DEF MutexInv, Unraced
<1>1. /\ g \in alive /\ In(g) = {} /\ Copies(g) = {} /\ alive' = alive \ {g}
      /\ obj[g].sign => /\ Installed(g) /\ obj[g].m \in Slot /\ host[obj[g].m].owner = None
                        /\ host' = [host EXCEPT ![obj[g].m].kind = None]
                        /\ blocks' = FreeMutex(blocks, obj[g].k)
                        /\ obj' = [obj EXCEPT ![g].sign = FALSE]
      /\ ~obj[g].sign => host' = host /\ blocks' = blocks /\ obj' = obj
      /\ call' = call /\ want' = want /\ held' = held /\ raced' = raced
  BY DEF Destroy, Unused, history
<1>2. /\ obj' \in [Mutexes -> [self : Mutexes \cup {None}, sign : BOOLEAN, kind : Kinds,
                               k : Slot \cup {None}, m : Slot \cup {None}]]
      /\ \A h \in Mutexes : h # g => obj'[h] = obj[h]
  <2>1. CASE obj[g].sign
    <3>1. obj' = [obj EXCEPT ![g] = [obj[g] EXCEPT !.sign = FALSE]]
      BY <1>1, <2>1, Zenon
    <3> DEFINE o == [obj[g] EXCEPT !.sign = FALSE]
               Objects == [self : Mutexes \cup {None}, sign : BOOLEAN, kind : Kinds,
                           k : Slot \cup {None}, m : Slot \cup {None}]
    <3>2. obj \in [Mutexes -> Objects]
      BY <1>0 DEF TypeOK
    <3>3. o \in Objects
      BY <3>2, FALSE \in BOOLEAN
    <3> HIDE DEF o, Objects
    <3>4. /\ [obj EXCEPT ![g] = o] \in [Mutexes -> Objects]
          /\ \A h \in Mutexes : h # g => [obj EXCEPT ![g] = o][h] = obj[h]
      BY <3>2, <3>3
    <3>5. obj' = [obj EXCEPT ![g] = o]
      BY <3>1 DEF o
    <3> QED  BY <3>4, <3>5 DEF Objects
  <2>2. CASE ~obj[g].sign
    BY <1>0, <1>1, <2>2 DEF TypeOK
  <2> QED  BY <2>1, <2>2
<1>3. /\ CallsOK' /\ InitAlone' /\ OthersKeep(g)
      /\ \A u \in Threads : Carried(u)' = Carried(u) /\ call[u].g # g
      /\ InstallAlone /\ (Ready(g)' => obj'[g].k = obj'[g].m) => InstallAlone'
  BY <1>1, <1>2, ObjectStep
<1>4. ~Ready(g)' /\ (Ready(g) <=> obj[g].sign)
  BY <1>1 DEF Ready, Installed
<1>5. obj[g].sign => /\ obj[g].k \in Taken
                     /\ \A h \in Mutexes : h # g /\ Ready(h) => obj[h].m # obj[g].k
                     /\ \A u \in Threads : obj[g].k \notin Carried(u)
  <2>1. obj[g].sign => Indexed(g)
    BY <1>1 DEF Indexed
  <2> QED  BY <1>3, <2>1 DEF IndexOwned
<1>6. /\ TableOK' /\ FreeCount'
      /\ Ready(g) => Taken' = Taken \ {obj[g].k}
      /\ ~Ready(g) => Taken' = Taken
  <2>1. CASE obj[g].sign
    <3>1. PICK k \in Taken : k = obj[g].k /\ blocks' = FreeMutex(blocks, k)
      BY <1>1, <1>5, <2>1
    <3>2. TableOK' /\ FreeCount' /\ Taken' = Taken \ {k}
      BY <1>0, <3>1, FreeEffect
    <3> QED  BY <1>4, <2>1, <3>1, <3>2
  <2>2. CASE ~obj[g].sign
    BY <1>0, <1>1, <1>4, <2>2 DEF TableOK, FreeCount, Taken
  <2> QED  BY <2>1, <2>2
<1>7. /\ host' \in [Slot -> HostRec]
      /\ \A x \in Slot : host'[x].owner = host[x].owner /\ host'[x].depth = host[x].depth
      /\ \A x \in Slot : ~obj[g].sign \/ x # obj[g].m => host'[x] = host[x]
  <2>1. host \in [Slot -> HostRec]
    BY <1>0 DEF TypeOK, HostRec
  <2> QED  BY <1>1, <2>1 DEF HostRec
<1>8. TypeOK' /\ HostsOK'
  <2>1. \A b \in DOMAIN blocks' : blocks'[b].taken \subseteq 0 .. BlockSize - 1 /\ blocks'[b].free \in 0 .. BlockSize
    BY <1>6, BlockOf, TableIs
  <2> QED  BY <1>0, <1>1, <1>2, <1>7, <2>1 DEF TypeOK, HostsOK, HostRec
<1>9. SlotsExclusive' /\ (obj[g].k = obj[g].m /\ SlotsOwned => SlotsOwned')
  BY <1>0, <1>3, <1>4, <1>5, <1>6, OwnDrop
<1>10. ASSUME raced' = {}
       PROVE  /\ InstallAlone /\ SlotsOwned /\ OwnersHold /\ KindsKept
              /\ InstallAlone' /\ SlotsOwned' /\ OwnersHold'
  <2>1. InstallAlone /\ SlotsOwned /\ OwnersHold /\ KindsKept
    BY <1>0, <1>1, <1>10
  <2>2. InstallAlone'
    BY <1>3, <1>4, <2>1
  <2>3. SlotsOwned'
    <3>1. CASE Ready(g)
      BY <1>9, <2>1, <3>1 DEF InstallAlone
    <3>2. CASE ~Ready(g)
      BY <1>3, <1>4, <1>6, <2>1, <3>2 DEF SlotsOwned, OthersKeep
    <3> QED  BY <3>1, <3>2
  <2>4. OwnersHold'
    BY <1>1, <1>3, <1>4, <1>7, <2>1, ReadySlot, OwnersFrame
  <2> QED  BY <2>1, <2>2, <2>3, <2>4
<1>12. \A h \in Mutexes : h # g /\ Ready(h) => host'[obj[h].m] = host[obj[h].m]
  BY <1>0, <1>4, <1>7, ReadySlot DEF SlotsExclusive
<1>13. ASSUME raced' = {} PROVE KindsKept'
  <2>0. KindsKept
    BY <1>10, <1>13
  <2>1. ASSUME NEW h \in Mutexes, Ready(h)' PROVE host'[obj'[h].m].kind = want'[h]
    <3>1. h # g /\ Ready(h) /\ obj'[h] = obj[h]
      BY <1>2, <1>3, <1>4, <2>1 DEF OthersKeep
    <3> QED  BY <1>1, <1>12, <2>0, <3>1 DEF KindsKept
  <2>2. ASSUME NEW h \in alive' PROVE h \in alive /\ h \in Mutexes /\ h # g /\ obj'[h] = obj[h]
    BY <1>0, <1>1, <1>2 DEF TypeOK
  <2>3. \A h \in alive' : ~obj'[h].sign => obj'[h].kind = want'[h]
    BY <1>1, <2>0, <2>2 DEF KindsKept
  <2>4. ASSUME NEW h \in alive', obj'[h].sign, obj'[h].self # h
        PROVE  \E x \in Mutexes : x = obj'[h].self /\ Ready(x)' /\ obj'[x].m = obj'[h].m /\ want'[x] = want'[h]
    <3>1. PICK x \in Mutexes : x = obj[h].self /\ Ready(x) /\ obj[x].m = obj[h].m /\ want[x] = want[h]
      BY <1>1, <2>0, <2>2, <2>4 DEF KindsKept
    <3>2. x # g
      BY <1>1, <2>2, <2>4, <3>1 DEF Copies
    <3>3. Ready(x)' /\ obj'[x] = obj[x]
      BY <1>2, <1>3, <3>1, <3>2 DEF OthersKeep
    <3> QED  BY <1>1, <2>2, <3>1, <3>3
  <2>5. ASSUME NEW u \in Threads, call'[u].pc \in {"self", "sign", "index", "pointer"}, call'[u].op # "init"
        PROVE  host'[call'[u].k].kind = want'[call'[u].g]
    <3>1. call[u].k \in Slot /\ call[u].k \in Carried(u)
      BY <1>0, <1>1, <2>5 DEF CallsOK, Carried
    <3>2. host'[call[u].k] = host[call[u].k]
      BY <1>0, <1>4, <1>7, <3>1 DEF SlotsExclusive
    <3> QED  BY <1>1, <2>0, <2>5, <3>2 DEF KindsKept
  <2> QED  BY <2>1, <2>3, <2>4, <2>5 DEF KindsKept
<1> QED  BY <1>3, <1>6, <1>8, <1>9, <1>10, <1>13 DEF MutexInv, Unraced

(* and a mutex copied over another.                                        *)
LEMMA CopyObjectKeeps ==
  ASSUME MutexInv, NEW g \in Mutexes, NEW c \in Mutexes, CopyObject(g, c)
  PROVE  MutexInv'
<1>0. /\ TypeOK /\ TableOK /\ CallsOK /\ HostsOK /\ FreeCount /\ SlotsExclusive /\ InitAlone
      /\ raced = {} => InstallAlone /\ SlotsOwned /\ OwnersHold /\ KindsKept
  BY DEF MutexInv, Unraced
<1>1. /\ g \in alive /\ In(g) = {} /\ Installed(g) /\ c \notin alive /\ In(c) = {}
      /\ obj' = [obj EXCEPT ![c] = obj[g]] /\ alive' = alive \cup {c}
      /\ want' = [want EXCEPT ![c] = want[g]]
      /\ blocks' = blocks /\ host' = host /\ call' = call /\ held' = held /\ raced' = raced
  BY DEF CopyObject, Unused
<1>2. /\ obj' \in [Mutexes -> [self : Mutexes \cup {None}, sign : BOOLEAN, kind : Kinds,
                               k : Slot \cup {None}, m : Slot \cup {None}]]
      /\ \A h \in Mutexes : h # c => obj'[h] = obj[h] /\ want'[h] = want[h]
      /\ obj'[c] = obj[g] /\ want'[c] = want[g] /\ c # g /\ want' \in [Mutexes -> Kinds]
  BY <1>0, <1>1 DEF TypeOK
<1>3. /\ CallsOK' /\ InitAlone' /\ OthersKeep(c)
      /\ \A u \in Threads : Carried(u)' = Carried(u) /\ call[u].g # c
      /\ InstallAlone /\ (Ready(c)' => obj'[c].k = obj'[c].m) => InstallAlone'
  BY <1>1, <1>2, ObjectStep
<1>4. ~Ready(c) /\ ~Ready(c)' /\ Ready(g) /\ obj[g].self = g
  BY <1>1, <1>2 DEF Ready, Installed
<1>5. TypeOK' /\ HostsOK' /\ TableOK' /\ FreeCount'
  BY <1>0, <1>1, <1>2 DEF TypeOK, HostsOK, TableOK, FreeCount
<1>6. SlotsExclusive' /\ (SlotsOwned => SlotsOwned')
  <2>1. Taken' = Taken
    BY <1>1 DEF Taken
  <2> QED  BY <1>0, <1>1, <1>3, <1>4, <2>1, OwnDrop
<1>7. InstallAlone => InstallAlone'
  BY <1>3, <1>4
<1>8. OwnersHold => OwnersHold'
  BY <1>1, <1>3, <1>4, ReadySlot, OwnersFrame
<1>9. \A h \in Mutexes : (Ready(h)' <=> Ready(h)) /\ (Ready(h) => h # c)
  BY <1>3, <1>4 DEF OthersKeep
<1>10. ASSUME KindsKept PROVE KindsKept'
  <2>1. \A h \in Mutexes : Ready(h)' => host'[obj'[h].m].kind = want'[h]
    BY <1>1, <1>2, <1>9, <1>10 DEF KindsKept
  <2>2. ASSUME NEW h \in alive', ~obj'[h].sign PROVE obj'[h].kind = want'[h]
    <3>1. h # c
      BY <1>1, <1>2, <2>2 DEF Installed
    <3>2. h \in alive /\ h \in Mutexes
      BY <1>0, <1>1, <3>1 DEF TypeOK
    <3> QED  BY <1>1, <1>2, <1>10, <2>2, <3>1, <3>2 DEF KindsKept
  <2>3. ASSUME NEW h \in alive', obj'[h].sign, obj'[h].self # h
        PROVE  \E x \in Mutexes : x = obj'[h].self /\ Ready(x)' /\ obj'[x].m = obj'[h].m /\ want'[x] = want'[h]
    <3>1. CASE h = c
      BY <1>2, <1>4, <1>9, <3>1
    <3>2. CASE h # c
      <4>1. h \in alive /\ h \in Mutexes /\ obj'[h] = obj[h] /\ want'[h] = want[h]
        BY <1>0, <1>1, <1>2, <3>2 DEF TypeOK
      <4>2. PICK x \in Mutexes : x = obj[h].self /\ Ready(x) /\ obj[x].m = obj[h].m /\ want[x] = want[h]
        BY <1>1, <1>10, <2>3, <4>1 DEF KindsKept
      <4>3. Ready(x)' /\ obj'[x] = obj[x] /\ want'[x] = want[x]
        BY <1>2, <1>9, <4>2
      <4> QED  BY <4>1, <4>2, <4>3
    <3> QED  BY <3>1, <3>2
  <2>4. ASSUME NEW u \in Threads, call'[u].pc \in {"self", "sign", "index", "pointer"}, call'[u].op # "init"
        PROVE  host'[call'[u].k].kind = want'[call'[u].g]
    <3>1. call[u].g \in Mutexes /\ call[u].g # c
      BY <1>0, <1>1, <1>3, <2>4 DEF CallsOK
    <3> QED  BY <1>1, <1>2, <1>10, <2>4, <3>1 DEF KindsKept
  <2> QED  BY <2>1, <2>2, <2>3, <2>4 DEF KindsKept
<1> QED  BY <1>0, <1>1, <1>3, <1>5, <1>6, <1>7, <1>8, <1>10 DEF MutexInv, Unraced

-----------------------------------------------------------------------------
(* The indexes stored in the objects, races or not.  A step of t that      *)
(* finishes no object makes no mutex ready and no index final.             *)
LEMMA LessFrame ==
  ASSUME NEW t \in Threads, NEW pc, NEW op, NEW g, NEW k, NEW m, CallsOK, Moved(t, pc, op, g, k, m),
         NEW h \in Mutexes, h \in alive' /\ Installed(h)' => h \in alive /\ Installed(h)
  PROVE  /\ (call[t].g = h /\ Indexing(t) => g = h /\ Indexing(t)') => (Indexed(h)' => Indexed(h))
         /\ (call[t].g = h /\ Installing(t) => g = h /\ Installing(t)') => (Ready(h)' => Ready(h))
<1>1. call'[t].g = g /\ \A u \in Threads : u # t => call'[u] = call[u]
  BY DEF Moved
<1>2. \A u \in Threads : u # t => /\ Installing(u)' <=> Installing(u)
                                  /\ Indexing(u)' <=> Indexing(u)
  BY <1>1, MovedFrame DEF Indexing
<1>3. ASSUME call[t].g = h /\ Indexing(t) => g = h /\ Indexing(t)', Indexed(h)' PROVE Indexed(h)
  BY <1>1, <1>2, <1>3 DEF Indexed, In
<1>4. ASSUME call[t].g = h /\ Installing(t) => g = h /\ Installing(t)', Ready(h)' PROVE Ready(h)
  BY <1>1, <1>2, <1>4 DEF Ready, In
<1> QED  BY <1>3, <1>4

(* The steps that store nothing to an object.                              *)
LEMMA IndexCall ==
  ASSUME MutexInv, IndexOwned, NEW t \in Threads,
         NEW pc, NEW op, NEW g, NEW k, NEW m, Moved(t, pc, op, g, k, m),
         obj' = obj, alive' = alive,
         ~Installing(t) \/ (call[t].pc = "kind" /\ pc = "self" /\ g = call[t].g),
         Taken \subseteq Taken' \/ (call[t].pc = "giveback" /\ Taken' = Taken \ {call[t].k}),
         Carried(t)' \subseteq Carried(t) \/ Carried(t)' \cap Taken = {}
  PROVE  IndexOwned'
<1>0. CallsOK /\ SlotsExclusive
  BY DEF MutexInv
<1>1. call'[t].pc = pc /\ call'[t].g = g /\ \A u \in Threads : u # t => call'[u] = call[u]
  BY DEF Moved
<1>2. \A u \in Threads : u # t => Carried(u)' = Carried(u)
  BY <1>0, MovedFrame
<1>3. ASSUME NEW h \in Mutexes PROVE (Indexed(h)' => Indexed(h)) /\ (Ready(h)' => Ready(h))
  <2>1. h \in alive' /\ Installed(h)' => h \in alive /\ Installed(h)
    BY DEF Installed
  <2>2. (Indexing(t) => Installing(t)) /\ (Installing(t) => g = call[t].g /\ Indexing(t)' /\ Installing(t)')
    BY <1>1 DEF Indexing, Installing
  <2> QED  BY <1>0, <2>1, <2>2, LessFrame
<1>4. ASSUME NEW h \in Mutexes, Indexed(h) PROVE obj[h].k \notin Carried(t)
  BY <1>4 DEF IndexOwned, Installing
<1>5. ASSUME NEW h \in Mutexes, Indexed(h) PROVE obj[h].k \in Taken'
  <2>1. obj[h].k \in Taken
    BY <1>5 DEF IndexOwned
  <2>2. call[t].pc = "giveback" => obj[h].k # call[t].k
    BY <1>4, <1>5 DEF Carried
  <2> QED  BY <2>1, <2>2
<1>6. ASSUME NEW h \in Mutexes, Indexed(h) PROVE obj[h].k \notin Carried(t)'
  <2>1. obj[h].k \in Taken
    BY <1>6 DEF IndexOwned
  <2> QED  BY <1>4, <1>6, <2>1
<1>7. ASSUME NEW h \in Mutexes, NEW u \in Threads, Indexed(h)', obj'[h].k \in Carried(u)'
      PROVE  call'[u].g = h /\ call'[u].pc = "pointer"
  BY <1>1, <1>2, <1>3, <1>6, <1>7 DEF IndexOwned
<1> QED  BY <1>3, <1>5, <1>7 DEF IndexOwned

(* The steps that store to the object of g, or that bring it to life: what *)
(* they leave there is the slot in the hands of the call.                  *)
LEMMA IndexStore ==
  ASSUME MutexInv, IndexOwned, NEW t \in Threads, NEW x,
         NEW pc, NEW op, NEW e, NEW k, NEW m, Moved(t, pc, op, e, k, m),
         NEW g \in Mutexes, call[t].g = g, Carried(t) = {x}, Carried(t)' \subseteq {x}, Taken' = Taken,
         \A h \in Mutexes : h # g => obj'[h] = obj[h] /\ (h \in alive' <=> h \in alive),
         Indexed(g)' => \/ obj'[g].k = x /\ (Carried(t)' # {} => e = g /\ pc = "pointer")
                        \/ Indexed(g) /\ obj'[g].k = obj[g].k /\ Carried(t)' = {},
         Ready(g)' => obj'[g].m = x
  PROVE  IndexOwned'
<1>0. CallsOK /\ SlotsExclusive
  BY DEF MutexInv
<1>1. call'[t].pc = pc /\ call'[t].g = e /\ \A u \in Threads : u # t => call'[u] = call[u]
  BY DEF Moved
<1>2. \A u \in Threads : u # t => Carried(u)' = Carried(u) /\ x \notin Carried(u)
  BY <1>0, MovedFrame DEF SlotsExclusive
<1>3. ASSUME NEW h \in Mutexes, h # g
      PROVE  (Indexed(h)' => Indexed(h)) /\ (Ready(h)' => Ready(h)) /\ obj'[h] = obj[h]
  <2>1. h \in alive' /\ Installed(h)' => h \in alive /\ Installed(h)
    BY <1>3 DEF Installed
  <2> QED  BY <1>0, <1>3, <2>1, LessFrame
<1>4. ASSUME NEW h \in Mutexes, h # g, Indexed(h) PROVE obj[h].k # x /\ obj[h].k \in Taken
  BY <1>4 DEF IndexOwned
<1>5. ASSUME NEW h \in Mutexes, h # g, Ready(h) PROVE obj[h].m # x
  BY <1>0, <1>5 DEF SlotsExclusive
<1>6. x \in Taken
  BY <1>0 DEF SlotsExclusive
<1>7. ASSUME NEW h \in Mutexes, Indexed(h)' PROVE obj'[h].k \in Taken'
  BY <1>3, <1>4, <1>6, <1>7 DEF IndexOwned
<1>8. ASSUME NEW h \in Mutexes, NEW u \in Threads, Indexed(h)', obj'[h].k \in Carried(u)'
      PROVE  call'[u].g = h /\ call'[u].pc = "pointer"
  <2>1. CASE h # g
    <3>1. Indexed(h) /\ obj'[h].k = obj[h].k /\ obj[h].k # x
      BY <1>3, <1>4, <1>8, <2>1
    <3>2. u # t
      BY <1>8, <3>1
    <3> QED  BY <1>1, <1>2, <1>8, <3>1, <3>2 DEF IndexOwned
  <2>2. CASE h = g /\ obj'[g].k = x
    <3>1. u = t
      BY <1>2, <1>8, <2>2
    <3>2. obj'[g].k = x /\ (Carried(t)' # {} => e = g /\ pc = "pointer")
      BY <1>8, <2>2, <3>1
    <3> QED  BY <1>1, <1>8, <2>2, <3>1, <3>2
  <2>3. CASE h = g /\ obj'[g].k # x
    <3>1. Indexed(g) /\ obj'[g].k = obj[g].k /\ Carried(t)' = {}
      BY <1>8, <2>3
    <3>2. u # t
      BY <1>8, <3>1
    <3> QED  BY <1>1, <1>2, <1>8, <2>3, <3>1, <3>2 DEF IndexOwned
  <2> QED  BY <2>1, <2>2, <2>3
<1>9. ASSUME NEW h \in Mutexes, NEW c \in Mutexes, Indexed(h)', Indexed(c)', h # c PROVE obj'[h].k # obj'[c].k
  <2>1. CASE h # g /\ c # g
    BY <1>3, <1>9, <2>1 DEF IndexOwned
  <2>2. CASE h = g
    BY <1>3, <1>4, <1>9, <2>2 DEF IndexOwned
  <2>3. CASE c = g
    BY <1>3, <1>4, <1>9, <2>3 DEF IndexOwned
  <2> QED  BY <2>1, <2>2, <2>3
<1>10. ASSUME NEW h \in Mutexes, NEW c \in Mutexes, Indexed(h)', Ready(c)', h # c PROVE obj'[h].k # obj'[c].m
  <2>1. CASE h # g /\ c # g
    BY <1>3, <1>10, <2>1 DEF IndexOwned
  <2>2. CASE h = g
    BY <1>3, <1>5, <1>10, <2>2 DEF IndexOwned
  <2>3. CASE c = g
    BY <1>3, <1>4, <1>10, <2>3 DEF IndexOwned
  <2> QED  BY <2>1, <2>2, <2>3
<1> QED  BY <1>7, <1>8, <1>9, <1>10 DEF IndexOwned

(* The steps of the program that change an object.                         *)
LEMMA IndexObject ==
  ASSUME IndexOwned, call' = call,
         \A h \in Mutexes : h \in alive' /\ Installed(h)' =>
           h \in alive /\ Installed(h) /\ obj'[h] = obj[h] /\ (Indexed(h) => obj[h].k \in Taken')
  PROVE  IndexOwned'
<1>1. \A u \in Threads : /\ Carried(u)' = Carried(u)
                         /\ Installing(u)' <=> Installing(u)
                         /\ Indexing(u)' <=> Indexing(u)
  BY DEF Carried, Installing, Indexing
<1>2. \A h : In(h)' = In(h) /\ In(h) \subseteq Threads
  BY DEF In
<1>3. ASSUME NEW h \in Mutexes
      PROVE  /\ Indexed(h)' => Indexed(h) /\ obj'[h] = obj[h] /\ obj[h].k \in Taken'
             /\ Ready(h)' => Ready(h) /\ obj'[h] = obj[h]
  BY <1>1, <1>2 DEF Indexed, Ready
<1> QED  BY <1>1, <1>3 DEF IndexOwned

(* No step of a call breaks the indexes, ...                               *)
LEMMA IndexStep ==
  ASSUME MutexInv, IndexOwned, NEW t \in Threads,
         \/ Check(t) \/ TakeSlot(t) \/ CheckAgain(t) \/ GiveBack(t) \/ CopyKind(t)
         \/ HostLock(t) \/ HostBusy(t) \/ HostUnlock(t) \/ HostNull(t)
  PROVE  IndexOwned'
<1> DEFINE c == call[t]
<1>0. /\ TypeOK /\ TableOK /\ CallsOK /\ FreeCount /\ SlotsExclusive /\ InitCall(t)
  BY DEF MutexInv, InitAlone
<1>1. obj' = obj /\ alive' = alive
  BY DEF Check, TakeSlot, CheckAgain, GiveBack, CopyKind, HostLock, HostBusy, HostUnlock, HostNull
<1>2. c.pc # "idle"
  BY DEF Check, TakeSlot, CheckAgain, GiveBack, CopyKind, HostLock, HostBusy, HostUnlock, HostNull
<1>3. CASE Check(t)
  <2>a. \E pc \in {"use", "new"} : \E m : Moved(t, pc, c.op, c.g, c.k, m)
    BY <1>0, <1>3, StepsMove
  <2>b. PICK pc \in {"use", "new"} : \E m : Moved(t, pc, c.op, c.g, c.k, m)
    BY <2>a
  <2>1. PICK m : Moved(t, pc, c.op, c.g, c.k, m)
    BY <2>b
  <2>2. c.pc = "check" /\ c.op # "init" /\ Taken' = Taken
    BY <1>0, <1>3 DEF Check, InitCall, Taken
  <2>3. Carried(t)' = {} /\ ~Installing(t)
    BY <1>0, <2>1, <2>2, MovedFrame DEF Installing
  <2> QED  BY <1>1, <2>1, <2>2, <2>3, IndexCall
<1>4. CASE TakeSlot(t)
  <2>1. PICK k \in Slot : /\ k \notin Taken /\ Taken' = Taken \cup {k}
                          /\ Moved(t, IF c.op = "init" THEN "self" ELSE "again", c.op, c.g, k, c.m)
    BY <1>0, <1>4, TakeSlotEffect
  <2>2. c.pc = "new" /\ ~Installing(t)
    BY <1>4 DEF TakeSlot, Installing
  <2>3. Carried(t)' \cap Taken = {}
    <3>1. Carried(t)' \subseteq {k}
      BY <1>0, <2>1, MovedFrame
    <3> QED  BY <2>1, <3>1
  <2>4. Taken \subseteq Taken'
    BY <2>1
  <2> QED  BY <1>1, <2>1, <2>2, <2>3, <2>4, IndexCall
<1>5. CASE CheckAgain(t)
  <2>a. \E pc \in {"giveback", "kind"} : \E m : Moved(t, pc, c.op, c.g, c.k, m)
    BY <1>0, <1>5, StepsMove
  <2>b. PICK pc \in {"giveback", "kind"} : \E m : Moved(t, pc, c.op, c.g, c.k, m)
    BY <2>a
  <2>1. PICK m : Moved(t, pc, c.op, c.g, c.k, m)
    BY <2>b
  <2>2. c.pc = "again" /\ ~Installing(t) /\ Taken' = Taken
    BY <1>5 DEF CheckAgain, Installing, Taken
  <2>3. Carried(t)' = {c.k}
    BY <1>0, <2>1, MovedFrame
  <2>4. Carried(t) = {c.k}
    BY <2>2 DEF Carried
  <2> QED  BY <1>1, <2>1, <2>2, <2>3, <2>4, IndexCall
<1>6. CASE GiveBack(t)
  <2>1. Moved(t, "use", c.op, c.g, c.k, c.m)
    BY <1>0, <1>6, GotoMoves DEF GiveBack, PCs
  <2>2. c.pc = "giveback" /\ c.op # "init" /\ ~Installing(t) /\ Carried(t) = {c.k}
    BY <1>0, <1>6 DEF GiveBack, InitCall, Installing, Carried
  <2>3. Taken' = Taken \ {c.k}
    BY <1>0, <1>6, <2>2, FreeEffect DEF GiveBack, SlotsExclusive
  <2>4. Carried(t)' = {}
    BY <1>0, <2>1, <2>2, MovedFrame
  <2> QED  BY <1>1, <2>1, <2>2, <2>3, <2>4, IndexCall
<1>7. CASE CopyKind(t)
  <2>1. Moved(t, "self", c.op, c.g, c.k, c.m) /\ c.pc = "kind" /\ Taken' = Taken
    BY <1>0, <1>7, GotoMoves DEF CopyKind, PCs, Taken
  <2>2. Carried(t)' = {c.k}
    BY <1>0, <2>1, MovedFrame
  <2>3. Carried(t) = {c.k}
    BY <2>1 DEF Carried
  <2> QED  BY <1>1, <2>1, <2>2, <2>3, IndexCall
<1>8. CASE HostLock(t) \/ HostBusy(t) \/ HostUnlock(t)
  <2>1. Moved(t, "idle", None, None, None, None)
    BY <1>0, <1>8, StepsMove
  <2>2. c.pc = "use" /\ c.op # "init" /\ Taken' = Taken
    BY <1>8 DEF HostLock, HostBusy, HostUnlock, Taken
  <2>3. Carried(t)' = {} /\ ~Installing(t)
    BY <1>0, <2>1, <2>2, MovedFrame DEF Installing
  <2> QED  BY <1>1, <2>1, <2>2, <2>3, IndexCall
<1>9. CASE HostNull(t)
  <2>1. Moved(t, "crashed", c.op, c.g, c.k, c.m)
    BY <1>0, <1>9, GotoMoves DEF HostNull, PCs
  <2>2. c.pc = "use" /\ c.m = None /\ Taken' = Taken
    BY <1>9 DEF HostNull, Taken
  <2>3. c.op # "init"
    <3>1. c.op = "init" => c.k = None /\ c.k \in Slot
      BY <1>0, <2>2 DEF InitCall, CallsOK, Carried
    <3>2. None \notin Slot
      BY GuestMutexAssumption DEF Slot
    <3> QED  BY <3>1, <3>2
  <2>4. Carried(t)' = {} /\ ~Installing(t)
    BY <1>0, <2>1, <2>2, <2>3, MovedFrame DEF Installing
  <2> QED  BY <1>1, <2>1, <2>2, <2>4, IndexCall
<1> QED  BY <1>3, <1>4, <1>5, <1>6, <1>7, <1>8, <1>9

(* ... none that begins one, ...                                           *)
LEMMA IndexBegin ==
  ASSUME MutexInv, IndexOwned, NEW t \in Threads, NEW g \in Mutexes,
         (\E op \in Ops : Call(t, op, g)) \/ (\E kind \in Kinds : CallInit(t, g, kind))
  PROVE  IndexOwned'
<1>0. TypeOK /\ CallsOK
  BY DEF MutexInv
<1>1. PICK pc \in {"check", "new"}, op \in Ops \cup {"init"} : Moved(t, pc, op, g, None, None)
  BY <1>0, StepsMove
<1>2. obj' = obj /\ alive' = alive /\ blocks' = blocks /\ call[t].pc = "idle"
  BY DEF Call, CallInit
<1>3. Taken' = Taken /\ ~Installing(t)
  BY <1>2 DEF Taken, Installing
<1>4. Carried(t)' = {}
  BY <1>0, <1>1, MovedFrame
<1> QED  BY <1>1, <1>2, <1>3, <1>4, IndexCall

(* ... none that stores to the object or ends pthread_mutex_init ...       *)
LEMMA IndexInstall ==
  ASSUME MutexInv, IndexOwned, NEW t \in Threads,
         SetSelf(t) \/ SetSign(t) \/ SetIndex(t) \/ SetPointer(t) \/ HostInit(t)
  PROVE  IndexOwned'
<1> DEFINE c == call[t]
<1>0. /\ TypeOK /\ CallsOK /\ SlotsExclusive /\ InitCall(t)
  BY DEF MutexInv, InitAlone
<1>1. c.pc \in {"self", "sign", "index", "pointer", "use"} /\ (c.pc = "use" => c.op = "init")
  BY DEF SetSelf, SetSign, SetIndex, SetPointer, HostInit
<1>a. PICK g \in Mutexes : g = c.g
  BY <1>0, <1>1 DEF CallsOK
<1>2. Carried(t) = {c.k} /\ Installing(t)
  BY <1>1 DEF Carried, Installing
<1>3. Taken' = Taken
  BY DEF SetSelf, SetSign, SetIndex, SetPointer, HostInit, Taken
<1>4. /\ obj \in [Mutexes -> [self : Mutexes \cup {None}, sign : BOOLEAN, kind : Kinds,
                              k : Slot \cup {None}, m : Slot \cup {None}]]
      /\ alive \subseteq Mutexes
  BY <1>0 DEF TypeOK
<1>5. \A h \in Mutexes : h # g => obj'[h] = obj[h] /\ (h \in alive' <=> h \in alive)
  BY <1>a, <1>4 DEF SetSelf, SetSign, SetIndex, SetPointer, HostInit
<1>6. CASE SetSelf(t) \/ SetSign(t)
  <2>1. PICK pc \in {"sign", "index"} : Moved(t, pc, c.op, g, c.k, c.m)
    BY <1>0, <1>a, <1>6, GotoMoves DEF SetSelf, SetSign, PCs
  <2>2. Installing(t)' /\ t \in In(g)' /\ Carried(t)' = {c.k}
    BY <1>0, <2>1, MovedFrame
  <2>3. Indexing(t)'
    BY <2>1 DEF Moved, Indexing
  <2>4. ~Indexed(g)' /\ ~Ready(g)'
    BY <2>2, <2>3 DEF Indexed, Ready
  <2> QED  BY <1>a, <1>2, <1>3, <1>5, <2>1, <2>2, <2>4, IndexStore
<1>7. CASE SetIndex(t)
  <2>1. Moved(t, "pointer", c.op, g, c.k, c.m)
    BY <1>0, <1>a, <1>7, GotoMoves DEF SetIndex, PCs
  <2>2. Installing(t)' /\ t \in In(g)' /\ Carried(t)' = {c.k}
    BY <1>0, <2>1, MovedFrame
  <2>3. ~Ready(g)'
    BY <2>2 DEF Ready
  <2>4. obj'[g].k = c.k
    BY <1>a, <1>4, <1>7 DEF SetIndex
  <2> QED  BY <1>a, <1>2, <1>3, <1>5, <2>1, <2>2, <2>3, <2>4, IndexStore
<1>8. CASE SetPointer(t)
  <2>1. Moved(t, "use", c.op, g, c.k, c.k) /\ c.pc = "pointer"
    BY <1>0, <1>a, <1>8, StepsMove DEF SetPointer
  <2>2. /\ obj'[g].m = c.k /\ obj'[g].k = obj[g].k
        /\ obj'[g].sign = obj[g].sign /\ obj'[g].self = obj[g].self /\ alive' = alive
    BY <1>a, <1>4, <1>8 DEF SetPointer
  <2>3. Carried(t)' = IF c.op = "init" THEN {c.k} ELSE {}
    BY <1>0, <2>1, MovedFrame
  <2>4. CASE c.op = "init"
    <3>1. g \notin alive'
      BY <1>0, <1>a, <2>1, <2>2, <2>4 DEF InitCall
    <3>2. ~Indexed(g)' /\ ~Ready(g)'
      BY <3>1 DEF Indexed, Ready
    <3> QED  BY <1>a, <1>2, <1>3, <1>5, <2>1, <2>3, <3>2, IndexStore
  <2>5. CASE c.op # "init"
    <3>1. g \in alive' /\ Installed(g)' => g \in alive /\ Installed(g)
      BY <2>2 DEF Installed
    <3>2. ~Indexing(t)
      BY <2>1 DEF Indexing
    <3>3. Indexed(g)' => Indexed(g)
      BY <1>0, <2>1, <3>1, <3>2, LessFrame
    <3> QED  BY <1>a, <1>2, <1>3, <1>5, <2>1, <2>2, <2>3, <2>5, <3>3, IndexStore
  <2> QED  BY <2>4, <2>5
<1>9. CASE HostInit(t)
  <2>1. Moved(t, "idle", None, None, None, None) /\ c.pc = "use" /\ c.op = "init" /\ obj' = obj
    BY <1>0, <1>9, StepsMove DEF HostInit
  <2>2. obj'[g].m = c.k /\ obj'[g].k = c.k
    BY <1>0, <1>a, <2>1 DEF InitCall
  <2>3. Carried(t)' = {}
    BY <1>0, <2>1, MovedFrame
  <2> QED  BY <1>a, <1>2, <1>3, <1>5, <2>1, <2>2, <2>3, IndexStore
<1> QED  BY <1>6, <1>7, <1>8, <1>9

(* ... and none of the program's own.                                      *)
LEMMA IndexProgram ==
  ASSUME MutexInv, IndexOwned,
         \/ \E g, c \in Mutexes : CopyObject(g, c)
         \/ \E g \in Mutexes : Destroy(g)
         \/ UNCHANGED vars
  PROVE  IndexOwned'
<1>0. TypeOK /\ TableOK /\ FreeCount
  BY DEF MutexInv
<1>1. /\ obj \in [Mutexes -> [self : Mutexes \cup {None}, sign : BOOLEAN, kind : Kinds,
                              k : Slot \cup {None}, m : Slot \cup {None}]]
      /\ \A h \in Mutexes : Indexed(h) => obj[h].k \in Taken
  BY <1>0 DEF TypeOK, IndexOwned
<1>2. ASSUME NEW g \in Mutexes, NEW c \in Mutexes, CopyObject(g, c) PROVE IndexOwned'
  <2>1. /\ g \in alive /\ obj[g].self = g /\ c \notin alive /\ alive' = alive \cup {c}
        /\ call' = call /\ Taken' = Taken
    BY <1>2 DEF CopyObject, Installed, Taken
  <2>2. obj'[c] = obj[g] /\ c # g /\ \A h \in Mutexes : h # c => obj'[h] = obj[h]
    BY <1>1, <1>2, <2>1 DEF CopyObject
  <2> QED  BY <1>1, <2>1, <2>2, IndexObject DEF Installed
<1>3. ASSUME NEW g \in Mutexes, Destroy(g) PROVE IndexOwned'
  <2>1. /\ g \in alive /\ alive' = alive \ {g} /\ call' = call /\ In(g) = {}
        /\ obj[g].sign => Installed(g) /\ blocks' = FreeMutex(blocks, obj[g].k)
        /\ ~obj[g].sign => blocks' = blocks
    BY <1>3 DEF Destroy, Unused
  <2>2. \A h \in Mutexes : h # g => obj'[h] = obj[h]
    BY <1>1, <1>3 DEF Destroy
  <2>3. ASSUME NEW h \in Mutexes, h # g, Indexed(h) PROVE obj[h].k \in Taken'
    <3>1. CASE obj[g].sign
      <4>1. Indexed(g)
        BY <2>1, <3>1 DEF Indexed
      <4>2. Taken' = Taken \ {obj[g].k}
        BY <1>0, <1>1, <2>1, <3>1, <4>1, FreeEffect
      <4> QED  BY <1>1, <2>3, <4>1, <4>2 DEF IndexOwned
    <3>2. CASE ~obj[g].sign
      BY <1>1, <2>1, <2>3, <3>2 DEF Taken
    <3> QED  BY <3>1, <3>2
  <2> QED  BY <2>1, <2>2, <2>3, IndexObject DEF Installed
<1>4. CASE UNCHANGED vars
  <2>1. blocks' = blocks /\ obj' = obj /\ alive' = alive /\ call' = call
    BY <1>4 DEF vars
  <2>2. Taken' = Taken
    BY <2>1 DEF Taken
  <2> QED  BY <1>1, <2>1, <2>2, IndexObject DEF Installed
<1> QED  BY <1>2, <1>3, <1>4

-----------------------------------------------------------------------------
(* No mutex has a host mutex at first.                                     *)
LEMMA InitEstablishes ==
  ASSUME Init
  PROVE  MutexInv /\ IndexOwned
<1>0. BlockSize \in Nat /\ MaxBlocks \in Nat /\ MaxDepth \in Nat
  BY GuestMutexAssumption
<1>1. /\ blocks = << >> /\ host = [k \in Slot |-> Fresh] /\ want \in [Mutexes -> Kinds]
      /\ obj = [g \in Mutexes |-> Static(want[g])] /\ held = [g \in Mutexes |-> {}]
      /\ alive = Mutexes /\ call = [t \in Threads |-> Idle] /\ raced = {}
  BY DEF Init
<1>2. \A k \in Slot : host[k] = [kind |-> None, owner |-> None, depth |-> 0]
  BY <1>1 DEF Fresh
<1>3. \A g \in Mutexes : /\ obj[g].self = None /\ ~obj[g].sign /\ obj[g].kind = want[g]
                         /\ obj[g].k = None /\ obj[g].m = None
  BY <1>1 DEF Static
<1>4. \A t \in Threads : /\ call[t].pc = "idle" /\ call[t].op = None /\ call[t].g = None
                         /\ call[t].k = None /\ call[t].m = None
  BY <1>1 DEF Idle, Calling
<1>5. DOMAIN blocks = {} /\ Len(blocks) = 0 /\ blocks \in Seq(Block)
  BY <1>1
<1>6. Taken = {}
  BY <1>5 DEF Taken
<1>7. TypeOK
  <2>1. host \in [Slot -> [kind : Kinds \cup {None}, owner : Threads \cup {None}, depth : 0 .. MaxDepth]]
    BY <1>0, <1>1 DEF Fresh
  <2>2. obj \in [Mutexes -> [self : Mutexes \cup {None}, sign : BOOLEAN, kind : Kinds,
                             k : Slot \cup {None}, m : Slot \cup {None}]]
    BY <1>1 DEF Static
  <2>3. held \in [Mutexes -> SUBSET Threads]
    BY <1>1
  <2> QED  BY <1>1, <1>5, <2>1, <2>2, <2>3 DEF TypeOK
<1>8. TableOK /\ FreeCount
  BY <1>0, <1>5 DEF TableOK, FreeCount, Block
<1>9. \A t \in Threads : Carried(t) = {}
  BY <1>4 DEF Carried
<1>10. CallsOK
  <2>1. call \in [Threads -> CallRec]
    BY <1>1 DEF CallRec, Idle, Calling, PCs
  <2> QED  BY <1>4, <1>9, <2>1 DEF CallsOK
<1>11. HostsOK
  BY <1>2 DEF HostsOK
<1>12. \A g \in Mutexes : ~Ready(g)
  BY <1>3 DEF Ready, Installed
<1>13. SlotsExclusive
  BY <1>9, <1>12 DEF SlotsExclusive
<1>14. InitAlone
  BY <1>4 DEF InitAlone, InitCall
<1>15. InstallAlone
  BY <1>4, <1>12, GuestMutexAssumption DEF InstallAlone, InstallCall, Company
<1>16. SlotsOwned
  BY <1>6 DEF SlotsOwned
<1>17. OwnersHold
  BY <1>1, <1>2, <1>12 DEF OwnersHold
<1>18. KindsKept
  BY <1>1, <1>3, <1>4, <1>12 DEF KindsKept
<1>19. IndexOwned
  BY <1>3 DEF IndexOwned, Indexed, Installed
<1> QED  BY <1>7, <1>8, <1>10, <1>11, <1>13, <1>14, <1>15, <1>16, <1>17, <1>18, <1>19 DEF MutexInv, Unraced

(* Every step keeps the indexes ...                                        *)
LEMMA IndexNext ==
  ASSUME MutexInv, IndexOwned, [Next]_vars
  PROVE  IndexOwned'
BY IndexBegin, IndexStep, IndexInstall, IndexProgram DEF Next

(* ... and the invariant; destroying a mutex is where it needs them.       *)
LEMMA NextKeeps ==
  ASSUME MutexInv, IndexOwned, [Next]_vars
  PROVE  MutexInv'
<1>1. ASSUME NEW t \in Threads, NEW g \in Mutexes, NEW op \in Ops \ {"init"}, Call(t, op, g)
      PROVE  MutexInv'
  BY <1>1, CallKeeps
<1>2. ASSUME NEW t \in Threads, NEW g \in Mutexes, NEW kind \in Kinds, CallInit(t, g, kind)
      PROVE  MutexInv'
  BY <1>2, CallInitKeeps
<1>3. ASSUME NEW t \in Threads,
             \/ Check(t) \/ TakeSlot(t) \/ CheckAgain(t) \/ GiveBack(t) \/ CopyKind(t)
             \/ SetSelf(t) \/ SetSign(t) \/ SetIndex(t) \/ SetPointer(t)
             \/ HostLock(t) \/ HostBusy(t) \/ HostUnlock(t) \/ HostInit(t) \/ HostNull(t)
      PROVE  MutexInv'
  BY <1>3, CheckKeeps, TakeSlotKeeps, CheckAgainKeeps, GiveBackKeeps, CopyKindKeeps,
     SetSelfKeeps, SetSignKeeps, SetIndexKeeps, SetPointerKeeps,
     HostLockKeeps, HostBusyKeeps, HostUnlockKeeps, HostInitKeeps, HostNullKeeps
<1>4. ASSUME NEW g \in Mutexes, NEW c \in Mutexes, CopyObject(g, c) PROVE MutexInv'
  BY <1>4, CopyObjectKeeps
<1>5. ASSUME NEW g \in Mutexes, Destroy(g) PROVE MutexInv'
  BY <1>5, DestroyKeeps
<1>6. CASE UNCHANGED vars
  <2>1. /\ blocks' = blocks /\ host' = host /\ obj' = obj /\ alive' = alive /\ call' = call
        /\ want' = want /\ held' = held /\ raced' = raced
    BY <1>6 DEF vars, history
  <2>2. Taken' = Taken /\ \A u : Carried(u)' = Carried(u)
    BY <2>1 DEF Taken, Carried
  <2>3. \A h : (Ready(h)' <=> Ready(h)) /\ (Installed(h)' <=> Installed(h))
    BY <2>1 DEF Ready, In, Installed, Installing
  <2>4. TypeOK' /\ TableOK' /\ CallsOK' /\ HostsOK' /\ FreeCount'
    BY <2>1, <2>2 DEF MutexInv, TypeOK, TableOK, CallsOK, HostsOK, FreeCount
  <2>5. SlotsExclusive' /\ (SlotsOwned => SlotsOwned')
    BY <2>1, <2>2, <2>3 DEF MutexInv, SlotsExclusive, SlotsOwned
  <2>6. InitAlone'
    BY <2>1 DEF MutexInv, InitAlone, InitCall
  <2>7. InstallAlone => InstallAlone'
    BY <2>1, <2>3 DEF InstallAlone, InstallCall, Company, Installed
  <2>8. (OwnersHold => OwnersHold') /\ (KindsKept => KindsKept')
    BY <2>1, <2>3 DEF OwnersHold, KindsKept
  <2> QED  BY <2>1, <2>4, <2>5, <2>6, <2>7, <2>8 DEF MutexInv, Unraced
<1> QED  BY <1>1, <1>2, <1>3, <1>4, <1>5, <1>6 DEF Next

(* The inductive invariant holds throughout.                               *)
LEMMA MutexInvAlways == Spec => []MutexInv
<1>1. Init => MutexInv /\ IndexOwned
  BY InitEstablishes
<1>2. MutexInv /\ IndexOwned /\ [Next]_vars => MutexInv' /\ IndexOwned'
  BY NextKeeps, IndexNext
<1> QED  BY <1>1, <1>2, PTL DEF Spec

-----------------------------------------------------------------------------
(* A mutex that has a settled host mutex is ready, and without races every *)
(* ready mutex has one.                                                    *)
LEMMA HostOfReady ==
  ASSUME MutexInv, NEW g \in Mutexes
  PROVE  /\ HostOf(g) # {} => Ready(g) /\ HostOf(g) = {obj[g].m}
         /\ raced = {} /\ Ready(g) => HostOf(g) = {obj[g].m}
<1>1. ASSUME HostOf(g) # {} PROVE Ready(g) /\ HostOf(g) = {obj[g].m}
  <2>1. g \in alive /\ Settled(g) /\ HostOf(g) = {obj[g].m}
    BY <1>1 DEF HostOf
  <2>2. \A t \in In(g) : ~Installing(t)
    BY <2>1 DEF Settled, Carried, Installing
  <2> QED  BY <2>1, <2>2 DEF Ready, Settled
<1>2. ASSUME raced = {}, Ready(g) PROVE HostOf(g) = {obj[g].m}
  <2>1. CallsOK /\ InitAlone /\ InstallAlone
    BY <1>2 DEF MutexInv, Unraced
  <2>2. ASSUME NEW t \in In(g) PROVE Carried(t) = {}
    <3>1. t \in Threads /\ call[t].g = g /\ Installed(g) /\ ~Installing(t)
      BY <1>2 DEF In, Ready
    <3>2. call[t].pc # "giveback"
      BY <2>1, <3>1 DEF InstallAlone, InstallCall
    <3>3. call[t].pc # "again"
      BY <2>1, <3>1 DEF InstallAlone, InstallCall, InitAlone, InitCall
    <3> QED  BY <3>1, <3>2, <3>3 DEF Carried, Installing
  <2> QED  BY <1>2, <2>2, ReadySlot DEF HostOf, Ready, Settled
<1> QED  BY <1>1, <1>2

(* The pool of host mutexes is exact, for any number of threads and        *)
(* mutexes and blocks of any size: the n_free of NewMutex and FreeMutex is *)
(* right, and unless two first calls met no slot is lost.                  *)
THEOREM PoolAlwaysSound == Spec => []PoolSound
<1>1. ASSUME MutexInv PROVE PoolSound
  <2>1. TypeOK /\ FreeCount
    BY <1>1 DEF MutexInv
  <2>2. ASSUME raced = {}, NEW k \in Taken
        PROVE  k \in (UNION {Carried(t) : t \in Threads}) \cup (UNION {HostOf(g) : g \in Mutexes})
    <3>1. SlotsOwned
      BY <1>1, <2>2 DEF MutexInv, Unraced
    <3>2. CASE \E t \in Threads : k \in Carried(t)
      BY <3>2
    <3>3. CASE \E g \in Mutexes : Ready(g) /\ obj[g].m = k
      <4>1. PICK g \in Mutexes : Ready(g) /\ obj[g].m = k
        BY <3>3
      <4>2. k \in HostOf(g)
        BY <1>1, <2>2, <4>1, HostOfReady
      <4> QED  BY <4>2
    <3> QED  BY <3>1, <3>2, <3>3 DEF SlotsOwned
  <2> QED  BY <2>1, <2>2 DEF PoolSound, NoneLost
<1> QED  BY <1>1, MutexInvAlways, PTL

(* Two mutexes of the guest never share a host mutex, and none shares one  *)
(* with a call that is installing, races or not.                           *)
THEOREM NeverSharedHost == Spec => []NoSharedHost
<1>1. ASSUME MutexInv PROVE NoSharedHost
  <2>0. SlotsExclusive
    BY <1>1 DEF MutexInv
  <2>1. ASSUME NEW g \in Mutexes, NEW c \in Mutexes, g # c PROVE HostOf(g) \cap HostOf(c) = {}
    BY <1>1, <2>0, <2>1, HostOfReady DEF SlotsExclusive
  <2>2. \A t, u \in Threads : t # u => Carried(t) \cap Carried(u) = {}
    BY <2>0 DEF SlotsExclusive
  <2>3. \A t \in Threads : Carried(t) \subseteq Taken
    BY <2>0 DEF SlotsExclusive
  <2>4. \A g \in Mutexes : HostOf(g) \subseteq Taken
    BY <1>1, <2>0, HostOfReady DEF SlotsExclusive
  <2>5. (UNION {Carried(t) : t \in Threads}) \cup (UNION {HostOf(g) : g \in Mutexes}) \subseteq Taken
    BY <2>3, <2>4
  <2> QED  BY <2>1, <2>2, <2>5, Zenon DEF NoSharedHost
<1> QED  BY <1>1, MutexInvAlways, PTL

(* As long as no two calls met on any mutex without a host mutex: the      *)
(* owner of the host mutex is who locked the guest's mutex, no call        *)
(* follows NULL, and kinds are kept, through lazy installation, copies,    *)
(* recursion, destruction and pthread_mutex_init.                          *)
THEOREM AlwaysExcludes == Spec => []Excludes
<1>1. ASSUME MutexInv PROVE Excludes
  <2>1. SUFFICES ASSUME raced = {}
                 PROVE  /\ \A g \in alive : held[g] = UNION {{host[m].owner} \ {None} : m \in HostOf(g)}
                        /\ \A t \in Threads : call[t].pc # "crashed"
                        /\ \A g \in Mutexes : \A m \in HostOf(g) : host[m].kind = want[g]
    BY DEF Excludes
  <2>2. TypeOK /\ InstallAlone /\ OwnersHold /\ KindsKept
    BY <1>1, <2>1 DEF MutexInv, Unraced
  <2>3. ASSUME NEW g \in alive PROVE held[g] = UNION {{host[m].owner} \ {None} : m \in HostOf(g)}
    <3>0. g \in Mutexes
      BY <2>2 DEF TypeOK
    <3>1. CASE Ready(g)
      <4>1. HostOf(g) = {obj[g].m}
        BY <1>1, <2>1, <3>0, <3>1, HostOfReady
      <4>2. held[g] = {host[obj[g].m].owner} \ {None}
        BY <2>2, <3>0, <3>1 DEF OwnersHold
      <4> QED  BY <4>1, <4>2
    <3>2. CASE ~Ready(g)
      <4>1. HostOf(g) = {} /\ held[g] = {}
        BY <1>1, <2>2, <3>0, <3>2, HostOfReady DEF OwnersHold
      <4> QED  BY <4>1
    <3> QED  BY <3>1, <3>2
  <2>4. \A t \in Threads : call[t].pc # "crashed"
    BY <2>2 DEF InstallAlone, InstallCall
  <2>5. \A g \in Mutexes : \A m \in HostOf(g) : host[m].kind = want[g]
    BY <1>1, <2>2, HostOfReady DEF KindsKept
  <2> QED  BY <2>3, <2>4, <2>5
<1> QED  BY <1>1, MutexInvAlways, PTL
=============================================================================
