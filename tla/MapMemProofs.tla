--------------------------- MODULE MapMemProofs ---------------------------
(***************************************************************************)
(* For an address space of any size: the list of mapped blocks stays the   *)
(* coarsest one, its head stays, and it implements the set of mapped pages *)
(* of MappedPages; and a search that returns NULL was right.               *)
(***************************************************************************)
EXTENDS MapMem, WellFoundedInduction, TLAPS

(* Coarsest speaks of the list between two calls only.  Inside a call: the *)
(* blocks of the list are still apart; those before the block that is      *)
(* being fused are apart from it; those the removal has passed are outside *)
(* its range.                                                              *)
BlocksApart ==
  /\ \A m \in list : m.begin <= m.end
  /\ \A m, n \in list : m # n => Apart(m, n)

FusingApart ==
  pc = "fuse" =>
    /\ newm.begin <= newm.end
    /\ \A n \in list : n.begin < newm.begin => n.end + 1 < newm.begin

RemovedBehind ==
  pc = "remove" =>
    /\ Begin <= call.end
    /\ \A n \in list : n.begin < at => n.end < Begin \/ n.begin > call.end

CursorReset == pc # "remove" => at = 0

ListInv == TypeOK /\ CursorReset /\ BlocksApart /\ FusingApart /\ RemovedBehind /\ HeadStays

-----------------------------------------------------------------------------
(* The first page of a range is never page 0 after the adjustment.         *)
LEMMA SaneType == ASSUME NEW b \in Page PROVE Sane(b) \in Page /\ Sane(b) > 0
BY MapMemAssumption DEF Sane, Page

(* The list with the one block below LOWEST.                               *)
LEMMA ListInit == Init => ListInv
<1> SUFFICES ASSUME Init PROVE ListInv
  OBVIOUS
<1>1. list = {[begin |-> 0, end |-> Lowest - 1]} /\ pc = "idle"
  BY DEF Init
<1>2. [begin |-> 0, end |-> Lowest - 1] \in Interval /\ NoBlock \in Interval
  BY MapMemAssumption DEF Interval, Page, NoBlock
<1>3. TypeOK
  BY <1>1, <1>2, MapMemAssumption DEF Init, TypeOK, Page, NoPage
<1>4. BlocksApart /\ HeadStays
  BY <1>1, MapMemAssumption DEF BlocksApart, HeadStays
<1> QED  BY <1>1, <1>3, <1>4 DEF Init, ListInv, FusingApart, RemovedBehind, CursorReset

(* addMapMem attaches a block.                                             *)
LEMMA AddInv ==
  ASSUME ListInv, NEW b \in Page, NEW e \in Page, b <= e, AddMapMem(b, e)
  PROVE  ListInv'
<1> DEFINE s == Sane(b)
<1>0. /\ s \in Page /\ s > 0 /\ list \subseteq Interval /\ pc = "idle"
      /\ \A n \in list : n.begin \in Int /\ n.end \in Int /\ n.begin \in Page /\ n.end \in Page
  BY SaneType DEF ListInv, TypeOK, AddMapMem, Interval, Page
<1>1. call' \in [fn : {"none", "add", "remove"}, begin : Page, end : Page] /\ at' = at /\ found' = found
  BY DEF AddMapMem
<1>2. CASE UNCHANGED <<list, pc, newm>>
  BY <1>0, <1>1, <1>2 DEF ListInv, TypeOK, BlocksApart, Apart, FusingApart, RemovedBehind, HeadStays, CursorReset, Begin
<1>3. ASSUME NEW m \in list, e >= Lowest, IsAttach(m, s), m.end >= s - 1, e > m.end,
             list' = list \ {m}, newm' = [begin |-> m.begin, end |-> e], pc' = "fuse"
      PROVE  ListInv'
  <2>1. newm' \in Interval /\ newm'.begin = m.begin /\ newm'.end = e /\ m.begin <= m.end
    BY <1>0, <1>3 DEF Interval, ListInv, BlocksApart
  <2>2. TypeOK'
    BY <1>0, <1>1, <1>3, <2>1 DEF ListInv, TypeOK
  <2>3. BlocksApart'
    BY <1>0, <1>3 DEF ListInv, BlocksApart, Apart
  <2>4. FusingApart'
    <3>1. m.begin <= e
      BY <1>0, <1>3, <2>1 DEF Page
    <3>2. \A n \in list' : n.begin < m.begin => n.end + 1 < m.begin
      <4> TAKE n \in list'
      <4>1. n \in list /\ n # m
        BY <1>3
      <4>2. Apart(m, n) /\ n.begin <= n.end
        BY <4>1, <1>3 DEF ListInv, BlocksApart
      <4> QED  BY <1>0, <2>1, <4>1, <4>2 DEF Apart
    <3> QED  BY <2>1, <3>1, <3>2 DEF FusingApart
  <2>5. HeadStays'
    BY <1>0, <1>3, <2>1 DEF ListInv, HeadStays
  <2> QED  BY <1>0, <1>1, <1>3, <2>2, <2>3, <2>4, <2>5 DEF ListInv, RemovedBehind, CursorReset
<1>4. ASSUME NEW m \in list, e >= Lowest, IsAttach(m, s), m.end < s - 1,
             list' = list, newm' = [begin |-> s, end |-> e], pc' = "fuse"
      PROVE  ListInv'
  <2>1. newm' \in Interval /\ newm'.begin = s /\ newm'.end = e /\ s <= e
    BY <1>0, <1>4, MapMemAssumption DEF Interval, Sane, Page
  <2>2. TypeOK'
    BY <1>0, <1>1, <1>4, <2>1 DEF ListInv, TypeOK
  <2>3. BlocksApart'
    BY <1>4 DEF ListInv, BlocksApart, Apart
  <2>4. \A n \in list : n.begin < s => n.end + 1 < s
    <3> TAKE n \in list
    <3>1. CASE n = m
      BY <1>0, <1>4, <3>1 DEF Page
    <3>2. CASE n # m
      <4>1. Apart(m, n) /\ n.begin <= n.end /\ m.begin <= m.end
        BY <3>2, <1>4 DEF ListInv, BlocksApart
      <4>2. n.begin < s => n.begin <= m.begin
        BY <1>4 DEF IsAttach
      <4> QED  BY <1>0, <1>4, <4>1, <4>2 DEF Apart, IsAttach, Page
    <3> QED  BY <3>1, <3>2
  <2>5. FusingApart'
    BY <1>4, <2>1, <2>4 DEF FusingApart
  <2>6. HeadStays'
    BY <1>0, <1>4 DEF ListInv, HeadStays
  <2> QED  BY <1>0, <1>1, <1>4, <2>2, <2>3, <2>5, <2>6 DEF ListInv, RemovedBehind, CursorReset
<1> QED  BY <1>2, <1>3, <1>4 DEF AddMapMem

(* The fusing loop.                                                        *)
LEMMA FuseInv == ASSUME ListInv, Fuse \/ FuseEnd PROVE ListInv'
<1>0. /\ list \subseteq Interval /\ newm \in Interval /\ pc = "fuse"
      /\ newm.begin \in Int /\ newm.end \in Int /\ newm.begin \in Page /\ newm.end \in Page
      /\ \A n \in list : n.begin \in Int /\ n.end \in Int /\ n.begin \in Page /\ n.end \in Page
  BY DEF ListInv, TypeOK, Fuse, FuseEnd, Interval, Page
<1>1. CASE Fuse
  <2>1. PICK n \in list :
          /\ Touches(n)
          /\ \A x \in list : Touches(x) => n.begin <= x.begin
          /\ newm' = [newm EXCEPT !.end = IF n.end > @ THEN n.end ELSE @]
          /\ list' = list \ {n}
    BY <1>1 DEF Fuse
  <2>2. /\ newm' \in Interval /\ newm'.begin = newm.begin
        /\ newm'.end = IF n.end > newm.end THEN n.end ELSE newm.end
    BY <1>0, <2>1 DEF Interval
  <2>3. TypeOK'
    BY <1>1, <2>1, <2>2 DEF Fuse, ListInv, TypeOK
  <2>4. BlocksApart'
    BY <2>1 DEF ListInv, BlocksApart, Apart
  <2>5. FusingApart'
    BY <1>0, <2>1, <2>2 DEF ListInv, FusingApart
  <2>6. HeadStays'
    <3>1. CASE newm.begin = 0
      BY <1>0, <1>1, <2>2, <3>1 DEF Fuse, HeadStays
    <3>2. CASE newm.begin # 0
      <4>1. PICK h \in list : h.begin = 0
        BY <3>2 DEF ListInv, HeadStays
      <4>2. h # n
        BY <1>0, <2>1, <3>2, <4>1 DEF Touches, Page
      <4> QED  BY <2>1, <4>1, <4>2 DEF HeadStays
    <3> QED  BY <3>1, <3>2
  <2> QED  BY <1>0, <1>1, <2>3, <2>4, <2>5, <2>6 DEF Fuse, ListInv, RemovedBehind, CursorReset
<1>2. CASE FuseEnd
  <2>1. list' = list \cup {newm} /\ pc' = "idle" /\ newm' = NoBlock
    BY <1>2 DEF FuseEnd
  <2>2. TypeOK'
    BY <1>0, <1>2, <2>1, MapMemAssumption DEF FuseEnd, ListInv, TypeOK, NoBlock, Interval, Page
  <2>3. \A n \in list : Apart(newm, n)
    BY <1>0, <1>2 DEF FuseEnd, Touches, ListInv, BlocksApart, FusingApart, Apart
  <2>4. \A n \in list : Apart(n, newm)
    BY <2>3 DEF Apart
  <2>5. BlocksApart'
    <3>1. \A n \in list' : n.begin <= n.end
      BY <1>0, <2>1 DEF ListInv, BlocksApart, FusingApart
    <3>2. \A m, n \in list' : m # n => Apart(m, n)
      BY <2>1, <2>3, <2>4 DEF ListInv, BlocksApart
    <3> QED  BY <3>1, <3>2 DEF BlocksApart, Apart
  <2>6. HeadStays'
    BY <1>0, <2>1 DEF ListInv, HeadStays
  <2> QED  BY <1>0, <1>2, <2>1, <2>2, <2>5, <2>6
           DEF FuseEnd, ListInv, FusingApart, RemovedBehind, CursorReset
<1> QED  BY <1>1, <1>2

(* removeMapMem starts.                                                    *)
LEMMA RemoveStartInv ==
  ASSUME ListInv, NEW b \in Page, NEW e \in Page, b <= e, RemoveMapMem(b, e)
  PROVE  ListInv'
<1>1. /\ call' = [fn |-> "remove", begin |-> b, end |-> e] /\ list' = list /\ at' = at
      /\ newm' = newm /\ found' = found /\ pc = "idle"
      /\ pc' = IF e < Lowest THEN "idle" ELSE "remove"
  BY DEF RemoveMapMem
<1>2. TypeOK'
  BY <1>1 DEF ListInv, TypeOK
<1>3. pc' = "remove" => Begin' <= call'.end
  BY <1>1, MapMemAssumption DEF Begin, Sane, Page
<1>4. at = 0
  BY <1>1 DEF ListInv, CursorReset
<1>5. BlocksApart' /\ HeadStays'
  BY <1>1 DEF ListInv, BlocksApart, Apart, HeadStays
<1>6. RemovedBehind'
  BY <1>1, <1>3, <1>4 DEF ListInv, TypeOK, Interval, Page, RemovedBehind
<1> QED  BY <1>1, <1>2, <1>4, <1>5, <1>6 DEF ListInv, FusingApart, CursorReset

(* The removing loop.                                                      *)
LEMMA RemoveInv == ASSUME ListInv, NEW m \in list, RemoveStep(m) PROVE ListInv'
<1> DEFINE s == Begin
           e == call.end
<1>0. /\ list \subseteq Interval /\ pc = "remove" /\ IsCurrent(m) /\ m \in Interval
      /\ m.begin \in Int /\ m.end \in Int /\ m.begin \in Page /\ m.end \in Page
      /\ \A n \in list : n.begin \in Int /\ n.end \in Int /\ n.begin \in Page /\ n.end \in Page
  BY DEF ListInv, TypeOK, RemoveStep, RemoveWhole, RemoveSplit, RemoveTail, RemoveHead,
         RemoveSkip, IsCurrent, Interval, Page
<1>1. /\ s \in Page /\ e \in Page /\ s \in Int /\ e \in Int /\ s > 0 /\ s <= e
      /\ at \in Int /\ m.begin >= at /\ m.begin <= e /\ m.begin <= m.end
      /\ \A n \in list : n.begin < at => n.end < s \/ n.begin > e
      /\ \A n \in list : n.begin >= at => m.begin <= n.begin
      /\ \A n \in list : n # m => Apart(n, m) /\ n.begin <= n.end
  BY <1>0, SaneType DEF ListInv, TypeOK, Begin, RemovedBehind, IsCurrent, Page, BlocksApart
<1>2. newm' = newm /\ call' = call /\ found' = found /\ Begin' = Begin
  BY DEF RemoveStep, RemoveWhole, RemoveSplit, RemoveTail, RemoveHead, RemoveSkip, Follow, Finish,
         Begin
<1>b. ASSUME NEW n \in list, n # m, n.begin <= m.begin PROVE n.end < s \/ n.begin > e
  <2>1. Apart(n, m) /\ n.begin <= n.end
    BY <1>1, <1>b
  <2>2. n.begin < at
    BY <1>0, <1>1, <1>b, <2>1 DEF Apart
  <2> QED  BY <1>1, <2>2
<1>a. ASSUME NEW S \in SUBSET Interval, Replace(m, S), at' \in 0 .. NPages + 1,
             pc' \in {"idle", "remove"}, pc' = "idle" => at' = 0,
             \A x \in S : x.begin <= x.end /\ m.begin <= x.begin /\ x.end <= m.end,
             \A x, y \in S : x # y => Apart(x, y),
             m.begin = 0 => \E x \in S : x.begin = 0,
             pc' = "remove" => \A n \in list' : n.begin < at' => n.end < s \/ n.begin > e
      PROVE  ListInv'
  <2>1. list' = (list \ {m}) \cup S
    BY <1>a DEF Replace
  <2>2. TypeOK'
    BY <1>0, <1>2, <1>a, <2>1 DEF ListInv, TypeOK
  <2>3. \A n \in list' : n.begin <= n.end
    BY <1>a, <2>1 DEF ListInv, BlocksApart
  <2>4. ASSUME NEW n \in list, NEW x \in S, n # m PROVE Apart(n, x) /\ Apart(x, n)
    <3>1. Apart(n, m) /\ n.begin <= n.end
      BY <1>1, <2>4
    <3>2. x.begin \in Int /\ x.end \in Int /\ x.begin <= x.end /\ m.begin <= x.begin /\ x.end <= m.end
      BY <1>a DEF Interval, Page
    <3> QED  BY <1>0, <3>1, <3>2 DEF Apart
  <2>5. \A x, y \in list' : x # y => Apart(x, y)
    BY <1>a, <2>1, <2>4 DEF ListInv, BlocksApart
  <2>6. BlocksApart'
    BY <2>3, <2>5 DEF BlocksApart, Apart
  <2>7. HeadStays'
    <3>1. PICK h \in list : h.begin = 0
      BY <1>0 DEF ListInv, HeadStays
    <3>2. CASE h = m
      BY <1>a, <2>1, <3>1, <3>2 DEF HeadStays
    <3>3. CASE h # m
      BY <2>1, <3>1, <3>3 DEF HeadStays
    <3> QED  BY <3>2, <3>3
  <2>8. RemovedBehind'
    BY <1>1, <1>2, <1>a DEF RemovedBehind
  <2> QED  BY <1>a, <2>2, <2>6, <2>7, <2>8 DEF ListInv, FusingApart, CursorReset
<1>3. CASE RemoveWhole(m)
  <2>1. Replace(m, {}) /\ at' = m.begin + 1 /\ pc' = pc /\ m.begin >= s /\ list' = list \ {m}
    BY <1>3 DEF RemoveWhole, Replace, Follow
  <2>2. \A n \in list' : n.begin < at' => n.end < s \/ n.begin > e
    BY <1>0, <1>1, <1>b, <2>1
  <2> QED  BY <1>0, <1>1, <1>a, <2>1, <2>2, MapMemAssumption DEF Page
<1>4. CASE RemoveSplit(m)
  <2> DEFINE x == [m EXCEPT !.end = s - 1]
             y == [m EXCEPT !.begin = e + 1]
  <2>1. Replace(m, {x, y}) /\ at' = 0 /\ pc' = "idle" /\ s > m.begin /\ e < m.end
    BY <1>4 DEF RemoveSplit, Finish
  <2>2. /\ x \in Interval /\ y \in Interval /\ x.begin = m.begin /\ x.end = s - 1
        /\ y.begin = e + 1 /\ y.end = m.end
    BY <1>0, <1>1, <2>1, MapMemAssumption DEF Interval, Page
  <2>3. Apart(x, y) /\ Apart(y, x)
    BY <1>1, <2>2 DEF Apart
  <2> HIDE DEF x, y
  <2> QED  BY <1>0, <1>1, <1>a, <2>1, <2>2, <2>3, MapMemAssumption
<1>5. CASE RemoveTail(m)
  <2> DEFINE x == [m EXCEPT !.end = s - 1]
  <2>1. /\ Replace(m, {x}) /\ at' = m.begin + 1 /\ pc' = pc /\ s > m.begin /\ e >= m.end
        /\ s <= m.end /\ list' = (list \ {m}) \cup {x}
    BY <1>5 DEF RemoveTail, Follow, Replace
  <2>2. x \in Interval /\ x.begin = m.begin /\ x.end = s - 1
    BY <1>0, <1>1, <2>1, MapMemAssumption DEF Interval, Page
  <2> HIDE DEF x
  <2>3. \A n \in list' : n.begin < at' => n.end < s \/ n.begin > e
    BY <1>0, <1>1, <1>b, <2>1, <2>2
  <2> QED  BY <1>0, <1>1, <1>a, <2>1, <2>2, <2>3, MapMemAssumption DEF Page
<1>6. CASE RemoveHead(m)
  <2> DEFINE x == [m EXCEPT !.begin = e + 1]
  <2>1. /\ Replace(m, {x}) /\ at' = e + 2 /\ pc' = pc /\ s <= m.begin /\ e < m.end
        /\ list' = (list \ {m}) \cup {x}
    BY <1>6 DEF RemoveHead, Follow, Replace
  <2>2. x \in Interval /\ x.begin = e + 1 /\ x.end = m.end
    BY <1>0, <1>1, <2>1, MapMemAssumption DEF Interval, Page
  <2> HIDE DEF x
  <2>3. ASSUME NEW n \in list', n.begin < at' PROVE n.end < s \/ n.begin > e
    <3>1. CASE n = x
      BY <1>1, <2>2, <3>1
    <3>2. CASE n \in list /\ n # m
      <4>1. Apart(n, m) /\ n.begin <= n.end
        BY <1>1, <3>2
      <4> QED  BY <1>0, <1>1, <2>1, <2>3, <3>2, <4>1 DEF Apart
    <3> QED  BY <2>1, <3>1, <3>2
  <2> QED  BY <1>0, <1>1, <1>a, <2>1, <2>2, <2>3, MapMemAssumption DEF Page
<1>7. CASE RemoveSkip(m)
  <2>1. at' = m.begin + 1 /\ pc' = pc /\ s > m.end /\ list' = list /\ Replace(m, {m})
    BY <1>7 DEF RemoveSkip, Follow, Replace
  <2>2. \A n \in list' : n.begin < at' => n.end < s \/ n.begin > e
    BY <1>0, <1>1, <1>b, <2>1
  <2> QED  BY <1>0, <1>1, <1>a, <2>1, <2>2, MapMemAssumption DEF Page
<1> QED  BY <1>3, <1>4, <1>5, <1>6, <1>7 DEF RemoveStep

(* Every step of a call, and every search, keeps the list in order.        *)
LEMMA ListStep == ListInv /\ [Next]_vars => ListInv'
<1> SUFFICES ASSUME ListInv, [Next]_vars PROVE ListInv'
  OBVIOUS
<1> USE DEF ListInv, TypeOK, BlocksApart, Apart, FusingApart, RemovedBehind, HeadStays, CursorReset
<1>1. CASE UNCHANGED vars
  BY <1>1 DEF vars, Begin
<1>2. CASE RemoveEnd
  BY <1>2, MapMemAssumption DEF RemoveEnd, Finish
<1>3. ASSUME NEW h \in Page, NEW size \in Sizes, FindBlock(h, size) PROVE ListInv'
  <2>1. UNCHANGED <<list, pc, newm, at, call>>
    BY <1>3 DEF FindBlock
  <2>2. found' \in Int
    <3>1. ASSUME NEW m \in list PROVE Offer(m, h, size) \subseteq Int
      <4>1. m.end + 1 + Gran - 1 \in Int /\ Gran \in Int /\ Gran > 0
        BY MapMemAssumption DEF Interval, Page
      <4>2. (m.end + 1 + Gran - 1) \div Gran \in Int
        BY <4>1
      <4>3. HoleBegin(m) \in Int
        BY <4>1, <4>2 DEF HoleBegin
      <4>4. h \in Int /\ Lowest \in Int
        BY MapMemAssumption DEF Page
      <4> QED  BY <4>3, <4>4 DEF Offer
    <3> QED  BY <1>3, <3>1 DEF FindBlock, NoPage
  <2> QED  BY <2>1, <2>2 DEF Begin
<1> HIDE DEF ListInv
<1> QED  BY <1>1, <1>2, <1>3, AddInv, FuseInv, RemoveStartInv, RemoveInv DEF Next, Loop

(* The inductive invariant holds throughout.                               *)
LEMMA ListAlways == Spec => []ListInv
BY ListInit, ListStep, PTL DEF Spec

(* An address space of any size, any sequence of addMapMem and             *)
(* removeMapMem: between two calls no two blocks of the list overlap or    *)
(* touch, and none is empty.                                               *)
THEOREM AlwaysCoarsest == Spec => []Coarsest
<1>1. ListInv => Coarsest
  BY DEF ListInv, BlocksApart, Coarsest
<1> QED  BY <1>1, ListAlways, PTL

(* removeMapMem never frees the head of the list.                          *)
THEOREM HeadAlwaysStays == Spec => []HeadStays
<1>1. ListInv => HeadStays
  BY DEF ListInv
<1> QED  BY <1>1, ListAlways, PTL

-----------------------------------------------------------------------------
(* The list implements the set of mapped pages.  The pages of the list,    *)
(* page by page.                                                           *)
In(p, m) == p \in Int /\ m.begin <= p /\ p <= m.end

(* The pages of a block are the ones between its ends.                     *)
LEMMA InPages == ASSUME NEW m \in Interval, NEW p PROVE p \in PagesOf(m) <=> In(p, m)
BY DEF PagesOf, In, Interval, Page

(* A page of a list lies in one of its blocks.                             *)
LEMMA InList ==
  ASSUME NEW L \in SUBSET Interval, NEW p
  PROVE  p \in UNION {PagesOf(m) : m \in L} <=> \E m \in L : In(p, m)
<1>1. \A m \in L : p \in PagesOf(m) <=> In(p, m)
  BY InPages
<1> QED  BY <1>1, Zenon

(* A covered page lies in the list or in the block being fused ...         *)
LEMMA InCovered ==
  ASSUME TypeOK, NEW p
  PROVE  p \in Covered <=> \/ \E m \in list : In(p, m)
                           \/ pc = "fuse" /\ In(p, newm)
<1>1. list \in SUBSET Interval /\ newm \in Interval
  BY DEF TypeOK
<1>2. p \in PagesOf(newm) <=> In(p, newm)
  BY <1>1, InPages
<1>3. p \in UNION {PagesOf(m) : m \in list} <=> \E m \in list : In(p, m)
  BY <1>1, InList
<1>4. CASE pc = "fuse"
  BY <1>2, <1>3, <1>4, Zenon DEF Covered
<1>5. CASE pc # "fuse"
  BY <1>3, <1>5, Zenon DEF Covered
<1> QED  BY <1>4, <1>5

(* ... after the step as well.                                             *)
LEMMA InCoveredNext ==
  ASSUME TypeOK', NEW p
  PROVE  p \in Covered' <=> \/ \E m \in list' : In(p, m)
                            \/ pc' = "fuse" /\ In(p, newm')
<1>1. list' \in SUBSET Interval /\ newm' \in Interval
  BY DEF TypeOK
<1>2. p \in PagesOf(newm') <=> In(p, newm')
  BY <1>1, InPages
<1>3. p \in UNION {PagesOf(m) : m \in list'} <=> \E m \in list' : In(p, m)
  BY <1>1, InList
<1>x. Covered' = (UNION {PagesOf(m) : m \in list'})
                  \cup (IF pc' = "fuse" THEN PagesOf(newm') ELSE {})
  BY DEF Covered, PagesOf
<1>4. CASE pc' = "fuse"
  BY <1>x, <1>2, <1>3, <1>4, Zenon
<1>5. CASE pc' # "fuse"
  BY <1>x, <1>3, <1>5, Zenon
<1> QED  BY <1>4, <1>5

(* addMapMem adds its range when it attaches the block.                    *)
LEMMA AddRefines ==
  ASSUME ListInv, ListInv', NEW b \in Page, NEW e \in Page, b <= e, AddMapMem(b, e)
  PROVE  Pages!Add(b, e)
<1> DEFINE s == Sane(b)
<1>0. /\ TypeOK /\ TypeOK' /\ pc = "idle" /\ s \in Int /\ e \in Int /\ e \in Page
      /\ \A n \in list : n.begin \in Int /\ n.end \in Int /\ n.begin <= n.end
  BY SaneType DEF ListInv, TypeOK, BlocksApart, AddMapMem, Interval, Page
<1>1. Mapped = Covered /\ Mapped' = Covered'
  BY <1>0 DEF AddMapMem, Mapped
<1>2. \A p : p \in Pages!Zone(b, e) <=> p \in Int /\ e >= Lowest /\ s <= p /\ p <= e
  BY <1>0, MapMemAssumption DEF Pages!Zone, Pages!Sane, Sane
<1>3. ASSUME NEW p PROVE p \in Covered' <=> p \in Covered \/ p \in Pages!Zone(b, e)
  <2>1. p \in Covered <=> \E m \in list : In(p, m)
    BY <1>0, InCovered
  <2>2. p \in Covered' <=> \/ \E m \in list' : In(p, m)
                           \/ pc' = "fuse" /\ In(p, newm')
    BY <1>0, InCoveredNext
  <2>3. CASE e < Lowest /\ UNCHANGED <<list, pc, newm>>
    BY <1>0, <1>2, <2>1, <2>2, <2>3, MapMemAssumption
  <2>4. ASSUME NEW m \in list, e >= Lowest, IsAttach(m, s)
        PROVE  m.begin < s
    BY <2>4 DEF IsAttach
  <2>5. ASSUME NEW m \in list, e >= Lowest, IsAttach(m, s), m.end >= s - 1, e <= m.end,
               UNCHANGED <<list, pc, newm>>
        PROVE  p \in Covered' <=> p \in Covered \/ p \in Pages!Zone(b, e)
    <3>1. p \in Pages!Zone(b, e) => In(p, m)
      BY <1>0, <1>2, <2>4, <2>5 DEF In
    <3> QED  BY <1>0, <2>1, <2>2, <2>5, <3>1
  <2>6. ASSUME NEW m \in list, e >= Lowest, IsAttach(m, s), m.end >= s - 1, e > m.end,
               list' = list \ {m}, newm' = [begin |-> m.begin, end |-> e], pc' = "fuse"
        PROVE  p \in Covered' <=> p \in Covered \/ p \in Pages!Zone(b, e)
    <3>1. In(p, newm') <=> In(p, m) \/ p \in Pages!Zone(b, e)
      BY <1>0, <1>2, <2>4, <2>6 DEF In
    <3> QED  BY <2>1, <2>2, <2>6, <3>1
  <2>7. ASSUME NEW m \in list, e >= Lowest, IsAttach(m, s), m.end < s - 1,
               list' = list, newm' = [begin |-> s, end |-> e], pc' = "fuse"
        PROVE  p \in Covered' <=> p \in Covered \/ p \in Pages!Zone(b, e)
    <3>1. In(p, newm') <=> p \in Pages!Zone(b, e)
      BY <1>0, <1>2, <2>7 DEF In
    <3> QED  BY <2>1, <2>2, <2>7, <3>1
  <2> QED  BY <2>3, <2>5, <2>6, <2>7 DEF AddMapMem
<1>4. Mapped' = Mapped \cup Pages!Zone(b, e)
  BY <1>1, <1>3
<1> QED  BY <1>4 DEF Pages!Add, AddMapMem

(* removeMapMem's range counts as gone when it starts.                     *)
LEMMA RemoveRefines ==
  ASSUME ListInv, NEW b \in Page, NEW e \in Page, b <= e, RemoveMapMem(b, e)
  PROVE  Pages!Remove(b, e)
<1>1. /\ pc = "idle" /\ list' = list /\ newm' = newm /\ pc' = IF e < Lowest THEN "idle" ELSE "remove"
      /\ call' = [fn |-> "remove", begin |-> b, end |-> e]
  BY DEF RemoveMapMem
<1>2. Covered' = Covered /\ Mapped = Covered
  BY <1>1 DEF Covered, Mapped, PagesOf
<1>3. Begin' .. call'.end = Sane(b) .. e
  BY <1>1 DEF Begin, Sane
<1>4. Mapped' = Mapped \ Pages!Zone(b, e)
  <2>1. CASE e < Lowest
    BY <1>1, <1>2, <2>1 DEF Mapped, Pages!Zone
  <2>2. CASE ~(e < Lowest)
    BY <1>1, <1>2, <1>3, <2>2 DEF Mapped, Pages!Zone, Pages!Sane, Sane
  <2> QED  BY <2>1, <2>2
<1> QED  BY <1>1, <1>4 DEF Pages!Remove

(* Fusing blocks keeps their pages.                                        *)
LEMMA FuseRefines ==
  ASSUME ListInv, ListInv', Fuse \/ FuseEnd
  PROVE  Mapped' = Mapped /\ call' = call
<1>0. /\ TypeOK /\ TypeOK' /\ pc = "fuse" /\ pc' # "remove" /\ call' = call
      /\ newm \in Interval /\ newm.begin \in Int /\ newm.end \in Int /\ newm.begin <= newm.end
      /\ \A n \in list : n.begin \in Int /\ n.end \in Int /\ n.begin <= n.end
  BY DEF ListInv, TypeOK, BlocksApart, FusingApart, Fuse, FuseEnd, Interval, Page
<1>1. Mapped = Covered /\ Mapped' = Covered'
  BY <1>0 DEF Mapped
<1>2. ASSUME NEW p PROVE p \in Covered' <=> p \in Covered
  <2>1. p \in Covered <=> (\E m \in list : In(p, m)) \/ In(p, newm)
    BY <1>0, InCovered
  <2>2. p \in Covered' <=> (\E m \in list' : In(p, m)) \/ (pc' = "fuse" /\ In(p, newm'))
    BY <1>0, InCoveredNext
  <2>3. CASE Fuse
    <3>1. PICK n \in list :
            /\ Touches(n)
            /\ newm' = [newm EXCEPT !.end = IF n.end > @ THEN n.end ELSE @]
            /\ list' = list \ {n}
      BY <2>3 DEF Fuse
    <3>2. newm'.begin = newm.begin /\ newm'.end = IF n.end > newm.end THEN n.end ELSE newm.end
      BY <1>0, <3>1 DEF Interval
    <3>3. In(p, newm') <=> In(p, newm) \/ In(p, n)
      BY <1>0, <3>1, <3>2 DEF In, Touches
    <3>4. pc' = "fuse"
      BY <1>0, <2>3 DEF Fuse
    <3> QED  BY <2>1, <2>2, <3>1, <3>3, <3>4
  <2>4. CASE FuseEnd
    BY <2>1, <2>2, <2>4 DEF FuseEnd
  <2> QED  BY <2>3, <2>4
<1> QED  BY <1>0, <1>1, <1>2

(* Every turn of the removing loop takes pages of the range only ...       *)
LEMMA RemoveStepRefines ==
  ASSUME ListInv, ListInv', NEW m \in list, RemoveStep(m)
  PROVE  Mapped' = Mapped /\ call' = call
<1> DEFINE s == Begin
           e == call.end
<1>0. /\ TypeOK /\ TypeOK' /\ pc = "remove" /\ pc' # "fuse" /\ call' = call /\ Begin' = Begin
      /\ m \in Interval /\ m.begin \in Int /\ m.end \in Int /\ m.begin <= m.end
      /\ s \in Int /\ e \in Int /\ s <= e /\ IsCurrent(m)
      /\ \A n \in list : n.begin \in Int /\ n.end \in Int /\ n.begin <= n.end
  BY SaneType DEF ListInv, TypeOK, BlocksApart, RemovedBehind, RemoveStep, RemoveWhole, RemoveSplit,
     RemoveTail, RemoveHead, RemoveSkip, Follow, Finish, IsCurrent, Begin, Interval, Page
<1>1. ASSUME NEW p PROVE p \in Covered' \ (s .. e) <=> p \in Covered \ (s .. e)
  <2>1. p \in Covered <=> \E n \in list : In(p, n)
    BY <1>0, InCovered
  <2>2. p \in Covered' <=> \E n \in list' : In(p, n)
    BY <1>0, InCoveredNext
  <2>3. ASSUME NEW S, Replace(m, S), p \notin s .. e => (In(p, m) <=> \E x \in S : In(p, x))
        PROVE  p \in Covered' \ (s .. e) <=> p \in Covered \ (s .. e)
    BY <2>1, <2>2, <2>3 DEF Replace
  <2>4. CASE RemoveWhole(m)
    BY <1>0, <2>3, <2>4 DEF RemoveWhole, In
  <2>5. CASE RemoveSplit(m)
    <3> DEFINE x == [m EXCEPT !.end = s - 1]
               y == [m EXCEPT !.begin = e + 1]
    <3>1. Replace(m, {x, y}) /\ s > m.begin /\ e < m.end
      BY <2>5 DEF RemoveSplit
    <3>2. x.begin = m.begin /\ x.end = s - 1 /\ y.begin = e + 1 /\ y.end = m.end
      BY <1>0 DEF Interval
    <3> HIDE DEF x, y
    <3>3. p \notin s .. e => (In(p, m) <=> In(p, x) \/ In(p, y))
      BY <1>0, <3>1, <3>2 DEF In
    <3> QED  BY <2>3, <3>1, <3>3
  <2>6. CASE RemoveTail(m)
    <3> DEFINE x == [m EXCEPT !.end = s - 1]
    <3>1. Replace(m, {x}) /\ s > m.begin /\ e >= m.end
      BY <2>6 DEF RemoveTail
    <3>2. x.begin = m.begin /\ x.end = s - 1
      BY <1>0 DEF Interval
    <3> HIDE DEF x
    <3>3. p \notin s .. e => (In(p, m) <=> In(p, x))
      BY <1>0, <2>6, <3>1, <3>2 DEF In, RemoveTail
    <3> QED  BY <2>3, <3>1, <3>3
  <2>7. CASE RemoveHead(m)
    <3> DEFINE x == [m EXCEPT !.begin = e + 1]
    <3>1. Replace(m, {x}) /\ s <= m.begin /\ e < m.end /\ m.begin <= e
      BY <2>7 DEF RemoveHead, IsCurrent
    <3>2. x.begin = e + 1 /\ x.end = m.end
      BY <1>0 DEF Interval
    <3> HIDE DEF x
    <3>3. p \notin s .. e => (In(p, m) <=> In(p, x))
      BY <1>0, <3>1, <3>2 DEF In
    <3> QED  BY <2>3, <3>1, <3>3
  <2>8. CASE RemoveSkip(m)
    BY <2>1, <2>2, <2>8 DEF RemoveSkip
  <2> QED  BY <2>4, <2>5, <2>6, <2>7, <2>8 DEF RemoveStep
<1>2. Covered' \ (s .. e) = Covered \ (s .. e)
  BY <1>1
<1>3. CASE pc' = "remove"
  BY <1>0, <1>2, <1>3 DEF Mapped
<1>4. CASE pc' # "remove"
  <2>1. RemoveSplit(m)
    BY <1>0, <1>4 DEF RemoveStep, RemoveWhole, RemoveTail, RemoveHead, RemoveSkip, Follow
  <2> DEFINE x == [m EXCEPT !.end = s - 1]
             y == [m EXCEPT !.begin = e + 1]
  <2>2. list' = (list \ {m}) \cup {x, y} /\ s > m.begin /\ e < m.end
    BY <2>1 DEF RemoveSplit, Replace
  <2>3. x.begin = m.begin /\ x.end = s - 1 /\ y.begin = e + 1 /\ y.end = m.end
    BY <1>0 DEF Interval
  <2> HIDE DEF x, y
  <2>4. ASSUME NEW p, p \in Covered' PROVE p \notin s .. e
    <3>1. PICK n \in list' : In(p, n)
      BY <1>0, <2>4, InCoveredNext
    <3>2. CASE n \in {x, y}
      BY <1>0, <2>2, <2>3, <3>1, <3>2 DEF In
    <3>3. CASE n \in list /\ n # m
      <4>1. Apart(n, m)
        BY <3>3 DEF ListInv, BlocksApart
      <4> QED  BY <1>0, <2>2, <3>1, <3>3, <4>1 DEF In, Apart
    <3> QED  BY <2>2, <3>2, <3>3
  <2>5. Covered' \ (s .. e) = Covered'
    BY <2>4
  <2> QED  BY <1>0, <1>2, <1>4, <2>5 DEF Mapped
<1> QED  BY <1>0, <1>3, <1>4

(* ... and it ends when no page of the range is left in the list.          *)
LEMMA RemoveEndRefines ==
  ASSUME ListInv, RemoveEnd
  PROVE  Mapped' = Mapped /\ call' = call
<1> DEFINE s == Begin
           e == call.end
<1>0. /\ TypeOK /\ pc = "remove" /\ pc' = "idle" /\ call' = call /\ list' = list /\ newm' = newm
      /\ s \in Int /\ e \in Int /\ at \in Int
      /\ \A n \in list : n.begin \in Int /\ n.end \in Int
      /\ \A n \in list : n.begin >= at => n.begin > e
      /\ \A n \in list : n.begin < at => n.end < s \/ n.begin > e
  BY SaneType DEF ListInv, TypeOK, RemovedBehind, RemoveEnd, Finish, Begin, Interval, Page
<1>1. ASSUME NEW p, p \in Covered PROVE p \notin s .. e
  <2>1. PICK n \in list : In(p, n)
    BY <1>0, <1>1, InCovered
  <2> QED  BY <1>0, <2>1 DEF In
<1>2. Covered' = Covered
  BY <1>0 DEF Covered, PagesOf
<1>3. Covered \ (s .. e) = Covered
  BY <1>1
<1> QED  BY <1>0, <1>2, <1>3 DEF Mapped

(* The initial list stands for the pages below LOWEST.                     *)
LEMMA PagesInit == Init => Pages!Init
<1> SUFFICES ASSUME Init PROVE Pages!Init
  OBVIOUS
<1>1. list = {[begin |-> 0, end |-> Lowest - 1]} /\ pc = "idle"
  BY DEF Init
<1>2. Mapped = 0 .. Lowest - 1
  BY <1>1 DEF Mapped, Covered, PagesOf
<1> QED  BY <1>2 DEF Init, Pages!Init

(* A step of the list is a step of the set of pages, or leaves it alone.   *)
LEMMA PagesStep == ListInv /\ ListInv' /\ [Next]_vars => [Pages!Next]_(Pages!vars)
<1> SUFFICES ASSUME ListInv, ListInv', [Next]_vars PROVE [Pages!Next]_(Pages!vars)
  OBVIOUS
<1>1. CASE UNCHANGED vars
  BY <1>1 DEF vars, Pages!vars, Mapped, Covered, PagesOf, Begin
<1>2. ASSUME NEW b \in Page, NEW e \in Page, b <= e, AddMapMem(b, e) \/ RemoveMapMem(b, e)
      PROVE  Pages!Next
  <2>1. Pages!Add(b, e) \/ Pages!Remove(b, e)
    BY <1>2, AddRefines, RemoveRefines
  <2> QED  BY <1>2, <2>1 DEF Pages!Next, Pages!Page, Page
<1>3. ASSUME NEW h \in Page, NEW size \in Sizes, FindBlock(h, size) PROVE UNCHANGED Pages!vars
  BY <1>3 DEF FindBlock, Pages!vars, Mapped, Covered, PagesOf, Begin
<1>4. CASE Loop
  <2>1. Mapped' = Mapped /\ call' = call
    BY <1>4, FuseRefines, RemoveStepRefines, RemoveEndRefines DEF Loop
  <2> QED  BY <2>1 DEF Pages!vars
<1> QED  BY <1>1, <1>2, <1>3, <1>4 DEF Next

(* An address space of any size: whatever blocks the calls split and fuse, *)
(* the list of custommem.c stands for exactly the pages that were added    *)
(* and not removed since.                                                  *)
THEOREM ListImplementsPages == Spec => ImplementsPages
<1>1. ListInv /\ ListInv' /\ [Next]_vars => [Pages!Next]_(Pages!vars)
  BY PagesStep
<1> QED  BY <1>1, ListAlways, PagesInit, PTL DEF Spec, ImplementsPages, Pages!Spec

-----------------------------------------------------------------------------
(* Of the blocks with a property, one begins first, and one last.          *)
LEMMA FirstBlock ==
  ASSUME NEW S, S \subseteq Interval, S # {}
  PROVE  /\ \E m \in S : \A n \in S : m.begin <= n.begin
         /\ \E m \in S : \A n \in S : n.begin <= m.begin
<1> DEFINE L == {m.begin : m \in S}
           G == {NPages - m.begin : m \in S}
           Least(T) == \E x \in T : \A y \in T : x <= y
<1>1. ASSUME NEW T \in SUBSET Nat, T # {} PROVE Least(T)
  <2>1. PICK x \in T : \A y \in T : <<y, x>> \notin OpToRel(<, Nat)
    BY <1>1, NatLessThanWellFounded, WFMin
  <2>2. ASSUME NEW y \in T, y < x PROVE FALSE
    BY <2>1, <2>2 DEF OpToRel
  <2> QED  BY <2>2
<1>2. \A m \in S : m.begin \in 0 .. NPages - 1 /\ NPages \in Nat
  BY MapMemAssumption DEF Interval, Page
<1>3. L \in SUBSET Nat /\ L # {} /\ G \in SUBSET Nat /\ G # {}
  BY <1>2
<1>4. Least(L) /\ Least(G)
  BY <1>1, <1>3
<1>5. PICK m \in S : \A n \in S : m.begin <= n.begin
  BY <1>4
<1>6. PICK k \in S : \A n \in S : NPages - k.begin <= NPages - n.begin
  BY <1>4
<1>7. \A n \in S : n.begin <= k.begin
  BY <1>2, <1>6
<1> QED  BY <1>5, <1>7

(* A hole begins at the first multiple of the granularity after its block. *)
LEMMA RoundUp ==
  ASSUME NEW e \in Nat, NEW g \in Nat, 0 < g, NEW p \in Nat, p % g = 0, e < p
  PROVE  ((e + 1 + g - 1) \div g) * g \in 0 .. p
<1> DEFINE q == (e + 1 + g - 1) \div g
           k == p \div g
<1>1. q \in Nat /\ q * g <= e + g
  BY Z3
<1>2. k \in Nat /\ p = k * g
  BY Z3
<1> HIDE DEF q, k
<1>3. q <= k
  <2> SUFFICES ASSUME q >= k + 1 PROVE FALSE
    BY <1>1, <1>2
  <2>1. q * g >= (k + 1) * g
    BY <1>1, <1>2
  <2>2. (k + 1) * g = p + g
    BY <1>2
  <2> QED  BY <1>1, <2>1, <2>2
<1>4. q * g <= k * g /\ q * g >= 0 /\ q * g \in Int
  BY <1>1, <1>2, <1>3
<1> QED  BY <1>2, <1>4 DEF q

(* A free range that starts at a multiple of the granularity at or after   *)
(* the hint is in a hole that the search would have offered.               *)
LEMMA FreeIsOffered ==
  ASSUME ListInv, pc = "idle", NEW h \in Page, NEW size \in Sizes,
         NEW p \in Page, p >= h, p % Gran = 0, p + size <= Wrap, Free(p, size)
  PROVE  \E m \in list : m.end < p /\ Offer(m, h, size) # {}
<1>0. /\ list \subseteq Interval
      /\ \A n \in list : n.begin \in Nat /\ n.end \in Nat /\ n.begin <= n.end
                         /\ n.begin < NPages
      /\ p \in Nat /\ h \in Nat /\ size \in Nat /\ size > 0
      /\ NPages \in Nat /\ NPages < Wrap /\ Wrap \in Nat /\ Gran \in Nat /\ 0 < Gran
  BY MapMemAssumption DEF ListInv, TypeOK, BlocksApart, Interval, Page
<1>1. \A q \in p .. p + size - 1, n \in list : ~(n.begin <= q /\ q <= n.end)
  BY <1>0 DEF Free, Covered, PagesOf
<1> DEFINE B == {n \in list : n.begin <= p}
<1>2. B \subseteq Interval /\ B # {}
  <2>1. PICK n \in list : n.begin = 0
    BY DEF ListInv, HeadStays
  <2>2. n \in B
    BY <1>0, <2>1
  <2> QED  BY <1>0, <2>2
<1>3. PICK m \in B : \A n \in B : n.begin <= m.begin
  BY <1>2, FirstBlock
<1>4. m \in list /\ m.begin <= p /\ m.end < p /\ m.end \in Nat /\ m.begin \in Nat
  <2>1. p \in p .. p + size - 1
    BY <1>0
  <2> QED  BY <1>0, <1>1, <2>1
<1> DEFINE hb == HoleBegin(m)
           he == HoleEnd(m)
           after == {n \in list : n.begin > m.begin}
<1>5. hb \in Nat /\ hb <= p
  <2>1. hb \in 0 .. p
    BY <1>0, <1>4, RoundUp DEF HoleBegin
  <2> HIDE DEF hb
  <2> QED  BY <1>0, <2>1
<1>6. he \in Int /\ he >= p + size - 1 /\ he <= Wrap - 1
  <2>1. CASE after = {}
    <3>1. he = Wrap - 1
      BY <2>1 DEF HoleEnd
    <3> HIDE DEF he
    <3> QED  BY <1>0, <3>1
  <2>2. CASE after # {}
    <3> DEFINE Next1(n) == \A x \in after : n.begin <= x.begin
               k == CHOOSE n \in after : Next1(n)
    <3>1. \E n \in after : Next1(n)
      <4>1. after \subseteq Interval
        BY <1>0
      <4> HIDE DEF after
      <4> QED  BY <2>2, <4>1, FirstBlock
    <3>2. k \in after
      BY <3>1
    <3>3. he = k.begin - 1
      BY <2>2 DEF HoleEnd
    <3> HIDE DEF k, he
    <3>4. k \in list /\ k \notin B /\ k.begin > p
      BY <1>0, <1>3, <1>4, <3>2
    <3>5. k.begin >= p + size
      <4> SUFFICES ASSUME k.begin < p + size PROVE FALSE
        BY <1>0, <3>4
      <4>1. k.begin \in p .. p + size - 1
        BY <1>0, <3>4
      <4> QED  BY <1>0, <1>1, <3>4, <4>1
    <3> QED  BY <1>0, <3>3, <3>4, <3>5
  <2> QED  BY <2>1, <2>2
<1> HIDE DEF hb, he
<1>7. CASE hb <= h
  <2>1. he >= h /\ he - h + 1 >= size
    BY <1>0, <1>6
  <2>2. Offer(m, h, size) = {IF h < Lowest THEN Lowest ELSE h}
    BY <1>7, <2>1 DEF Offer, hb, he
  <2> QED  BY <1>4, <2>2
<1>8. CASE hb > h
  <2>1. he - hb + 1 >= size /\ he - hb + 1 \in 0 .. Wrap - 1
    BY <1>0, <1>5, <1>6, <1>8
  <2>2. (he - hb + 1) % Wrap = he - hb + 1
    BY <1>0, <2>1
  <2>3. Offer(m, h, size) # {}
    <3>1. ~(hb <= h) /\ hb >= h /\ (he - hb + 1) % Wrap >= size
      BY <1>0, <1>5, <1>8, <2>1, <2>2
    <3> QED  BY <3>1 DEF Offer, hb, he
  <2> QED  BY <1>4, <2>3
<1> QED  BY <1>0, <1>5, <1>7, <1>8

(* A list of any length: findBlockNearHint and find47bitBlockNearHint      *)
(* return NULL only when no hole below the limit has room for the size at  *)
(* or after the hint.                                                      *)
THEOREM NullAlwaysMeansFull == Spec => NullMeansFull
<1>1. ASSUME ListInv, NEW h \in Page, NEW size \in Sizes, FindBlock(h, size), found' = NoPage,
             NEW p \in Page, p >= h, p < Limit, p % Gran = 0, p + size <= Wrap, Free(p, size)
      PROVE  FALSE
  <2>1. PICK m \in list : m.end < p /\ Offer(m, h, size) # {}
    BY <1>1, FreeIsOffered DEF FindBlock
  <2>2. m.end < Limit
    BY <1>1, <2>1, MapMemAssumption DEF ListInv, TypeOK, Interval, Page
  <2>3. PICK n \in list : found' \in Offer(n, h, size)
    BY <1>1, <2>1, <2>2 DEF FindBlock
  <2>4. found' \in Nat
    <3>1. n.end \in Nat /\ h \in Nat /\ Lowest \in Nat /\ Gran \in Nat /\ 0 < Gran
      BY <1>1, MapMemAssumption DEF ListInv, TypeOK, Interval, Page
    <3> DEFINE q == (n.end + 1 + Gran - 1) \div Gran
    <3>2. q \in Nat
      BY <3>1
    <3> HIDE DEF q
    <3>3. q * Gran \in Nat
      BY <3>1, <3>2
    <3>4. HoleBegin(n) \in Nat
      BY <3>3 DEF HoleBegin, q
    <3> QED  BY <2>3, <3>1, <3>4 DEF Offer
  <2> QED  BY <1>1, <2>4 DEF NoPage
<1>2. ListInv => [\A h \in Page, size \in Sizes :
                    FindBlock(h, size) /\ found' = NoPage =>
                      \A p \in Page : p >= h /\ p < Limit /\ p % Gran = 0 /\ p + size <= Wrap =>
                                        ~Free(p, size)]_vars
  BY <1>1
<1> QED  BY <1>2, ListAlways, PTL DEF NullMeansFull
=============================================================================
