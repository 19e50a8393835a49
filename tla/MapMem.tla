------------------------------- MODULE MapMem -------------------------------
(***************************************************************************)
(* The map of guest memory of src/custommem.c: a linked list of disjoint   *)
(* blocks of pages, kept sorted, that mmap, mprotect, mremap and munmap    *)
(* update (addMapMem, removeMapMem) and that findBlockNearHint and         *)
(* find47bitBlockNearHint search for a hole when the program asks for      *)
(* memory below 4G or below 2^47.                                          *)
(*                                                                         *)
(* Addresses are page numbers: both functions widen their range to whole   *)
(* pages first.  A list node is its interval; the order of the list is the *)
(* order of the intervals.  The two loops that change the list (fusing a   *)
(* new block with the ones after it, walking the list to remove a range)   *)
(* take one step per iteration.  The node a loop of addMapMem works on is  *)
(* kept apart in newm, because a new node may start where the next starts. *)
(*                                                                         *)
(* The list has no lock of its own: this module is one caller at a time.   *)
(***************************************************************************)
EXTENDS Integers

CONSTANTS
  NPages,   \* pages 0 .. NPages - 1 can be mapped
  Lowest,   \* LOWEST (0x10000), as a page number
  Gran,     \* findBlockNearHint rounds to this many pages (0x10000 bytes)
  Wrap,     \* page numbers wrap here (2^64 bytes)
  Limit,    \* the search looks at blocks that end below this page
  Sizes     \* the sizes, in pages, the program asks for

ASSUME MapMemAssumption ==
  /\ NPages \in Nat /\ Lowest \in Nat /\ Gran \in Nat /\ Wrap \in Nat /\ Limit \in Nat
  /\ 0 < Lowest /\ Lowest < NPages /\ NPages < Wrap /\ 0 < Gran
  /\ Sizes \subseteq 1 .. NPages

Page == 0 .. NPages - 1
Interval == [begin : Page, end : Page]
NoPage == -1   \* NULL

VARIABLES
  list,   \* mapmem: the blocks of the list
  pc,     \* "idle", or the loop the current call is in
  newm,   \* addMapMem: the block that is being fused
  at,     \* removeMapMem: blocks that begin before this page have been seen
  call,   \* the last call: its name, first and last page
  found   \* the result of the last search

vars == <<list, pc, newm, at, call, found>>

NoBlock == [begin |-> 0, end |-> 0]

(* init_custommem_helper: one block covers everything below LOWEST.        *)
Init ==
  /\ list = {[begin |-> 0, end |-> Lowest - 1]}
  /\ pc = "idle"
  /\ newm = NoBlock
  /\ at = 0
  /\ call = [fn |-> "none", begin |-> 0, end |-> 0]
  /\ found = NoPage

-----------------------------------------------------------------------------
(* Mutant of Sane: a range that starts at 0 is taken as it is.             *)
SaneKeepsZero(b) == b
(* A range that starts at 0 starts at LOWEST.                              *)
Sane(b) == IF b = 0 THEN Lowest ELSE b

(* The last block that begins before b.                                    *)
IsAttach(m, b) ==
  /\ m \in list
  /\ m.begin < b
  /\ \A n \in list : n.begin < b => n.begin <= m.begin

(* addMapMem(b, e): enlarge the block before b if it reaches b, else add a *)
(* new one after it; then fuse.                                            *)
AddMapMem(b, e) ==
  /\ pc = "idle"
  /\ call' = [fn |-> "add", begin |-> b, end |-> e]
  /\ \/ /\ e < Lowest
        /\ UNCHANGED <<list, pc, newm>>
     \/ \E m \in list :
          /\ e >= Lowest
          /\ IsAttach(m, Sane(b))
          /\ \/ /\ m.end >= Sane(b) - 1 /\ e <= m.end
                /\ UNCHANGED <<list, pc, newm>>
             \/ /\ m.end >= Sane(b) - 1 /\ e > m.end
                /\ list' = list \ {m}
                /\ newm' = [begin |-> m.begin, end |-> e]
                /\ pc' = "fuse"
             \/ /\ m.end < Sane(b) - 1
                /\ newm' = [begin |-> Sane(b), end |-> e]
                /\ pc' = "fuse"
                /\ UNCHANGED list
  /\ UNCHANGED <<at, found>>

(* Mutant of Touches: blocks that are side by side are not fused.          *)
TouchesOverlap(n) == n.begin >= newm.begin /\ n.begin <= newm.end
(* Block n follows newm in the list, and overlaps it or is next to it.     *)
Touches(n) == n.begin >= newm.begin /\ n.begin - 1 <= newm.end

(* Mutant of Fuse: the fused block ends where the next one did.            *)
FuseShrinks ==
  /\ pc = "fuse"
  /\ \E n \in list :
       /\ Touches(n)
       /\ \A x \in list : Touches(x) => n.begin <= x.begin
       /\ newm' = [newm EXCEPT !.end = n.end]
       /\ list' = list \ {n}
  /\ UNCHANGED <<pc, at, call, found>>

(* One turn of the fusing loop: the next block is swallowed.               *)
Fuse ==
  /\ pc = "fuse"
  /\ \E n \in list :
       /\ Touches(n)
       /\ \A x \in list : Touches(x) => n.begin <= x.begin
       /\ newm' = [newm EXCEPT !.end = IF n.end > @ THEN n.end ELSE @]
       /\ list' = list \ {n}
  /\ UNCHANGED <<pc, at, call, found>>

(* The next block is beyond the new one: done.                             *)
FuseEnd ==
  /\ pc = "fuse"
  /\ \A n \in list : ~Touches(n)
  /\ list' = list \cup {newm}
  /\ newm' = NoBlock
  /\ pc' = "idle"
  /\ UNCHANGED <<at, call, found>>

-----------------------------------------------------------------------------
(* removeMapMem(b, e) starts at the head of the list.                      *)
RemoveMapMem(b, e) ==
  /\ pc = "idle"
  /\ call' = [fn |-> "remove", begin |-> b, end |-> e]
  /\ pc' = IF e < Lowest THEN "idle" ELSE "remove"
  /\ UNCHANGED <<list, newm, at, found>>

(* m is the next block to look at, and is not beyond the range.            *)
IsCurrent(m) ==
  /\ pc = "remove"
  /\ m.begin >= at
  /\ \A n \in list : n.begin >= at => m.begin <= n.begin
  /\ m.begin <= call.end

Begin == Sane(call.begin)
Replace(m, S) == list' = (list \ {m}) \cup S
Follow(p) == at' = p /\ UNCHANGED <<pc, newm, call, found>>
Finish == pc' = "idle" /\ at' = 0 /\ UNCHANGED <<newm, call, found>>

(* The turns of the removing loop.  The block is inside the range: it goes.*)
RemoveWhole(m) ==
  /\ IsCurrent(m)
  /\ m.begin >= Begin /\ m.end <= call.end
  /\ Replace(m, {})
  /\ Follow(m.begin + 1)

(* Mutant of RemoveSplit: the whole tail of the block is cut.              *)
RemoveSplitCutsTail(m) ==
  /\ IsCurrent(m)
  /\ Begin > m.begin /\ call.end < m.end
  /\ Replace(m, {[m EXCEPT !.end = Begin - 1]})
  /\ Finish

(* The range is inside the block: it is split, and nothing is left to do.  *)
RemoveSplit(m) ==
  /\ IsCurrent(m)
  /\ Begin > m.begin /\ call.end < m.end
  /\ Replace(m, {[m EXCEPT !.end = Begin - 1], [m EXCEPT !.begin = call.end + 1]})
  /\ Finish

(* The range covers the tail of the block ...                              *)
RemoveTail(m) ==
  /\ IsCurrent(m)
  /\ Begin > m.begin /\ Begin <= m.end /\ call.end >= m.end
  /\ Replace(m, {[m EXCEPT !.end = Begin - 1]})
  /\ Follow(m.begin + 1)

(* ... or its head ...                                                     *)
RemoveHead(m) ==
  /\ IsCurrent(m)
  /\ Begin <= m.begin /\ call.end < m.end
  /\ Replace(m, {[m EXCEPT !.begin = call.end + 1]})
  /\ Follow(call.end + 2)

(* Mutant of RemoveSkip: the loop does not go on to the next block.        *)
RemoveSkipStays(m) ==
  /\ IsCurrent(m)
  /\ Begin > m.end
  /\ UNCHANGED list
  /\ Follow(at)

(* ... or begins after it.                                                 *)
RemoveSkip(m) ==
  /\ IsCurrent(m)
  /\ Begin > m.end
  /\ UNCHANGED list
  /\ Follow(m.begin + 1)

(* The list ends, or the next block is beyond the range.                   *)
RemoveEnd ==
  /\ pc = "remove"
  /\ \A m \in list : m.begin >= at => m.begin > call.end
  /\ Finish
  /\ UNCHANGED list

-----------------------------------------------------------------------------
(* The hole after block m: from the end of m, rounded up, to the next      *)
(* block.                                                                  *)
HoleBegin(m) == ((m.end + 1 + Gran - 1) \div Gran) * Gran
HoleEnd(m) ==
  LET after == {n \in list : n.begin > m.begin}
  IN  IF after = {} THEN Wrap - 1
      ELSE (CHOOSE n \in after : \A x \in after : n.begin <= x.begin).begin - 1

(* Mutant of Offer: a hole of exactly the size asked for is passed over.   *)
OfferStrict(m, h, size) ==
  IF HoleBegin(m) <= h /\ HoleEnd(m) >= h /\ HoleEnd(m) - h + 1 > size
  THEN {IF h < Lowest THEN Lowest ELSE h}
  ELSE IF HoleBegin(m) >= h /\ (HoleEnd(m) - HoleBegin(m) + 1) % Wrap > size
  THEN {HoleBegin(m)} ELSE {}

(* What the hole after m gives for hint h: the hint itself, or the start   *)
(* of the hole.  The sizes are unsigned and wrap.                          *)
Offer(m, h, size) ==
  IF HoleBegin(m) <= h /\ HoleEnd(m) >= h /\ HoleEnd(m) - h + 1 >= size
  THEN {IF h < Lowest THEN Lowest ELSE h}
  ELSE IF HoleBegin(m) >= h /\ (HoleEnd(m) - HoleBegin(m) + 1) % Wrap >= size
  THEN {HoleBegin(m)} ELSE {}

(* find47bitBlockNearHint and findBlockNearHint (they differ in the limit, *)
(* and the latter returns the hint where the former returns NULL): the     *)
(* first block below the limit whose hole offers something.                *)
FindBlock(h, size) ==
  LET S == {m \in list : m.end < Limit /\ Offer(m, h, size) # {}}
  IN  /\ pc = "idle"
      /\ \/ /\ S = {}
            /\ found' = NoPage
         \/ \E m \in S :
              /\ \A n \in S : m.begin <= n.begin
              /\ found' \in Offer(m, h, size)
      /\ UNCHANGED <<list, pc, newm, at, call>>

-----------------------------------------------------------------------------
RemoveStep(m) ==
  RemoveWhole(m) \/ RemoveSplit(m) \/ RemoveTail(m) \/ RemoveHead(m) \/ RemoveSkip(m)

Loop ==
  \/ Fuse \/ FuseEnd
  \/ \E m \in list : RemoveStep(m)
  \/ RemoveEnd

Next ==
  \/ \E b, e \in Page : b <= e /\ (AddMapMem(b, e) \/ RemoveMapMem(b, e))
  \/ \E h \in Page, size \in Sizes : FindBlock(h, size)
  \/ Loop

Spec == Init /\ [][Next]_vars

(* The thread that makes the call runs it to its end.                      *)
FairSpec == Spec /\ WF_vars(Loop)

-----------------------------------------------------------------------------
(* Every variable stays in its type: no loop makes a block that leaves the *)
(* address space.                                                          *)
TypeOK ==
  /\ list \subseteq Interval
  /\ pc \in {"idle", "fuse", "remove"}
  /\ newm \in Interval
  /\ at \in 0 .. NPages + 1
  /\ call \in [fn : {"none", "add", "remove"}, begin : Page, end : Page]
  /\ found \in Int

(* Blocks a and b have at least one free page between them.                *)
Apart(a, b) == a.end + 1 < b.begin \/ b.end + 1 < a.begin

(* Between two calls the list is the coarsest one: no block is empty, and  *)
(* no two blocks overlap or touch, so that every hole of the list is a     *)
(* hole of memory (addMapMem fuses, removeMapMem splits).                  *)
Coarsest ==
  pc = "idle" =>
    /\ \A m \in list : m.begin <= m.end
    /\ \A m, n \in list : m # n => Apart(m, n)

(* The head of the list, which covers page 0, is never freed: "change      *)
(* attach, but should never happens" (removeMapMem).                       *)
HeadStays == (pc = "fuse" /\ newm.begin = 0) \/ \E m \in list : m.begin = 0

(* The pages of the list, and what they are while a call is under way: the *)
(* range of a removal counts as gone from its start.                       *)
PagesOf(m) == m.begin .. m.end
Covered ==
  (UNION {PagesOf(m) : m \in list}) \cup (IF pc = "fuse" THEN PagesOf(newm) ELSE {})
Mapped ==
  IF pc = "remove" THEN Covered \ (Begin .. call.end) ELSE Covered

(* The list is the set of mapped pages: no sequence of calls loses a page  *)
(* or keeps one that was removed.                                          *)
Pages == INSTANCE MappedPages WITH mapped <- Mapped
ImplementsPages == Pages!Spec

(* Every call ends: both loops walk a list that they change.               *)
CallReturns == pc # "idle" ~> pc = "idle"

(* The pages p .. p + size - 1 are free.                                   *)
Free(p, size) == \A q \in p .. p + size - 1 : q \notin Covered

(* NULL is returned only when no hole has room for the size at or after    *)
(* the hint, at an address that is a multiple of the granularity.          *)
NullMeansFull ==
  [][\A h \in Page, size \in Sizes :
       FindBlock(h, size) /\ found' = NoPage =>
         \A p \in Page : p >= h /\ p < Limit /\ p % Gran = 0 /\ p + size <= Wrap =>
                           ~Free(p, size)]_vars

(* The block the search returns is free: it "check[s] hint and available   *)
(* size" (findBlockNearHint, find47bitBlockNearHint).  This fails (README, *)
(* section 5).                                                             *)
FoundIsFree ==
  [][\A h \in Page, size \in Sizes :
       FindBlock(h, size) /\ found' # NoPage => Free(found', size)]_vars
=============================================================================
