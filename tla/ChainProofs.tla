---------------------------- MODULE ChainProofs ----------------------------
(***************************************************************************)
(* The chain of marks of BlockChain, for blocks of any size: what a sound  *)
(* chain is, said of each mark without walking; what the walks of the code *)
(* find on one; and that cutting and merging keep it sound.                *)
(*                                                                         *)
(* A walk is a recursive function.  Each lemma on one exhibits the function*)
(* it must be (WalkIs), which solves the recursive equation because of the *)
(* links of the chain, and alone does because every step goes on strictly. *)
(***************************************************************************)
EXTENDS BlockChain, WellFoundedInduction, SequenceTheorems, TLAPS

(* The subblock behind m: its size, the mark at its other end, nothing in  *)
(* between, and no free subblock next to a free one.                       *)
Linked(mk, m) ==
  /\ mk[m].next.size > 0
  /\ NextBlock(mk, m) \in DOMAIN mk
  /\ mk[NextBlock(mk, m)].prev = mk[m].next
  /\ \A x \in DOMAIN mk : x <= m \/ NextBlock(mk, m) <= x
  /\ mk[m].next.fill \/ mk[NextBlock(mk, m)].next = Zero \/ mk[NextBlock(mk, m)].next.fill

(* The mark before m leads to m.                                           *)
LinkedBack(mk, m) ==
  /\ PrevBlock(mk, m) \in DOMAIN mk
  /\ NextBlock(mk, PrevBlock(mk, m)) = m

Marked(mk, last) ==
  /\ DOMAIN mk \subseteq 0 .. last /\ 0 \in DOMAIN mk /\ last \in DOMAIN mk
  /\ \A m \in DOMAIN mk : mk[m] \in [prev : Half, next : Half]

(* A sound chain up to the mark last.                                      *)
Chained(mk, last) ==
  /\ last \in Nat
  /\ Marked(mk, last)
  /\ mk[last].next = Zero /\ mk[0].prev = Zero
  /\ \A m \in DOMAIN mk : m # last => Linked(mk, m)
  /\ \A m \in DOMAIN mk : m # 0 => LinkedBack(mk, m)

-----------------------------------------------------------------------------
(* A set of natural numbers has a least element, ...                       *)
LEMMA LeastNat ==
  ASSUME NEW T \in SUBSET Nat, T # {}
  PROVE  \E x \in T : \A y \in T : x <= y
<1>1. PICK x \in T : \A y \in T : <<y, x>> \notin OpToRel(<, Nat)
  BY NatLessThanWellFounded, WFMin
<1>2. ASSUME NEW y \in T, y < x PROVE FALSE
  BY <1>1, <1>2 DEF OpToRel
<1> QED  BY <1>2

(* and a bounded one a greatest.                                           *)
LEMMA GreatestNat ==
  ASSUME NEW b \in Nat, NEW T \in SUBSET (0 .. b), T # {}
  PROVE  \E x \in T : \A y \in T : y <= x
<1> DEFINE U == {b - y : y \in T}
<1>1. U \in SUBSET Nat /\ U # {}
  <2>1. \A y \in T : b - y \in Nat
    OBVIOUS
  <2>2. PICK y \in T : TRUE
    OBVIOUS
  <2>3. b - y \in U
    OBVIOUS
  <2> QED  BY <2>1, <2>3
<1>2. PICK u \in U : \A v \in U : u <= v
  BY <1>1, LeastNat
<1>3. PICK x \in T : u = b - x
  OBVIOUS
<1>4. ASSUME NEW y \in T PROVE y <= x
  <2>1. b - y \in U
    OBVIOUS
  <2> QED  BY <1>2, <1>3, <2>1
<1> QED  BY <1>4

(* What a mark of a sound chain is.                                        *)
LEMMA MarkFacts ==
  ASSUME NEW mk, NEW last, Chained(mk, last), NEW m \in DOMAIN mk
  PROVE  /\ m \in Nat /\ m <= last /\ last \in Nat /\ MarkSize \in Nat /\ MarkSize > 0
         /\ mk[m].next \in Half /\ mk[m].prev \in Half
         /\ mk[m].next.size \in Nat /\ mk[m].next.fill \in BOOLEAN
         /\ mk[m].prev.size \in Nat /\ mk[m].prev.fill \in BOOLEAN
BY MarkSizeAssumption DEF Chained, Marked, Half

(* The walk forward stops at the last mark, and only there.                *)
LEMMA EndsAtLast ==
  ASSUME NEW mk, NEW last, Chained(mk, last), NEW m \in DOMAIN mk
  PROVE  X32(mk[m].next) <=> m # last
<1>1. CASE m = last
  BY <1>1 DEF Chained, X32
<1>2. CASE m # last
  <2>1. mk[m].next.size > 0
    BY <1>2 DEF Chained, Linked
  <2> QED  BY <1>2, <2>1 DEF X32, Zero
<1> QED  BY <1>1, <1>2

(* The subblock behind a mark other than the last.                         *)
LEMMA LinkFacts ==
  ASSUME NEW mk, NEW last, Chained(mk, last), NEW m \in DOMAIN mk, m # last
  PROVE  /\ NextBlock(mk, m) \in DOMAIN mk
         /\ NextBlock(mk, m) = m + mk[m].next.size + MarkSize
         /\ NextBlock(mk, m) > m /\ mk[m].next.size > 0
         /\ mk[NextBlock(mk, m)].prev = mk[m].next
         /\ \A x \in DOMAIN mk : x <= m \/ NextBlock(mk, m) <= x
         /\ mk[m].next.fill \/ mk[NextBlock(mk, m)].next = Zero \/ mk[NextBlock(mk, m)].next.fill
<1>1. Linked(mk, m)
  BY DEF Chained
<1> QED  BY <1>1, MarkFacts DEF Linked, NextBlock

(* The subblock before a mark other than the first.                        *)
LEMMA BackFacts ==
  ASSUME NEW mk, NEW last, Chained(mk, last), NEW m \in DOMAIN mk, m # 0
  PROVE  /\ PrevBlock(mk, m) \in DOMAIN mk
         /\ PrevBlock(mk, m) # last
         /\ NextBlock(mk, PrevBlock(mk, m)) = m
         /\ PrevBlock(mk, m) = m - mk[m].prev.size - MarkSize
         /\ PrevBlock(mk, m) < m
         /\ mk[PrevBlock(mk, m)].next = mk[m].prev
         /\ \A x \in DOMAIN mk : x <= PrevBlock(mk, m) \/ m <= x
<1> DEFINE p == PrevBlock(mk, m)
<1>1. p \in DOMAIN mk /\ NextBlock(mk, p) = m
  BY DEF Chained, LinkedBack
<1>2. p = m - mk[m].prev.size - MarkSize /\ p < m
  BY MarkFacts DEF PrevBlock
<1>3. p # last
  BY <1>1, <1>2, MarkFacts
<1> HIDE DEF p
<1>4. mk[p].next = mk[m].prev /\ \A x \in DOMAIN mk : x <= p \/ m <= x
  BY <1>1, <1>3, LinkFacts
<1> QED  BY <1>1, <1>2, <1>3, <1>4 DEF p

(* The walk backward stops at the first mark, and only there.              *)
LEMMA EndsAtFirst ==
  ASSUME NEW mk, NEW last, Chained(mk, last), NEW m \in DOMAIN mk
  PROVE  X32(mk[m].prev) <=> m # 0
<1>1. CASE m = 0
  BY <1>1 DEF Chained, X32
<1>2. CASE m # 0
  <2>1. mk[m].prev.size > 0
    BY <1>2, BackFacts, LinkFacts
  <2> QED  BY <1>2, <2>1 DEF X32, Zero
<1> QED  BY <1>1, <1>2

-----------------------------------------------------------------------------
(* Two functions that agree at the end of a walk and agree at a mark if    *)
(* they do at the next one the walk goes to are the same.                  *)
LEMMA SameForward ==
  ASSUME NEW mk, NEW last, Chained(mk, last), NEW g, NEW h,
         g = [m \in DOMAIN mk |-> g[m]], h = [m \in DOMAIN mk |-> h[m]],
         g[last] = h[last],
         \A m \in DOMAIN mk : m # last /\ g[NextBlock(mk, m)] = h[NextBlock(mk, m)] => g[m] = h[m]
  PROVE  g = h
<1> DEFINE D == {m \in DOMAIN mk : g[m] # h[m]}
<1>1. CASE D = {}
  <2>1. \A m \in DOMAIN mk : g[m] = h[m]
    BY <1>1
  <2> QED  BY <2>1
<1>2. CASE D # {}
  <2>1. D \in SUBSET (0 .. last) /\ last \in Nat
    BY DEF Chained, Marked
  <2>2. PICK x \in D : \A y \in D : y <= x
    BY <1>2, <2>1, GreatestNat
  <2>3. x \in DOMAIN mk /\ x # last
    OBVIOUS
  <2>4. NextBlock(mk, x) \in DOMAIN mk /\ NextBlock(mk, x) > x /\ x \in Nat /\ NextBlock(mk, x) \in Nat
    BY <2>3, LinkFacts, MarkFacts
  <2>5. NextBlock(mk, x) \notin D
    BY <2>2, <2>4
  <2> QED  BY <2>3, <2>4, <2>5
<1> QED  BY <1>1, <1>2

(* The same for a walk to the mark before.                                 *)
LEMMA SameBackward ==
  ASSUME NEW mk, NEW last, Chained(mk, last), NEW g, NEW h,
         g = [m \in DOMAIN mk |-> g[m]], h = [m \in DOMAIN mk |-> h[m]],
         g[0] = h[0],
         \A m \in DOMAIN mk : m # 0 /\ g[PrevBlock(mk, m)] = h[PrevBlock(mk, m)] => g[m] = h[m]
  PROVE  g = h
<1> DEFINE D == {m \in DOMAIN mk : g[m] # h[m]}
<1>1. CASE D = {}
  <2>1. \A m \in DOMAIN mk : g[m] = h[m]
    BY <1>1
  <2> QED  BY <2>1
<1>2. CASE D # {}
  <2>1. D \in SUBSET Nat
    BY DEF Chained, Marked
  <2>2. PICK x \in D : \A y \in D : x <= y
    BY <1>2, <2>1, LeastNat
  <2>3. x \in DOMAIN mk /\ x # 0
    OBVIOUS
  <2>4. PrevBlock(mk, x) \in DOMAIN mk /\ PrevBlock(mk, x) < x /\ x \in Nat /\ PrevBlock(mk, x) \in Nat
    BY <2>3, BackFacts, MarkFacts
  <2>5. PrevBlock(mk, x) \notin D
    BY <2>2, <2>4
  <2> QED  BY <2>3, <2>4, <2>5
<1> QED  BY <1>1, <1>2

-----------------------------------------------------------------------------
(* The marks a walk meets from start on: all of them but the last.         *)
SubblocksEq(mk, g) ==
  g = [m \in DOMAIN mk |-> IF X32(mk[m].next) THEN {m} \cup g[NextBlock(mk, m)] ELSE {}]

(* Subblocks walks over every mark from start on but the last.             *)
LEMMA SubblocksAre ==
  ASSUME NEW mk, NEW last, Chained(mk, last), NEW start \in DOMAIN mk
  PROVE  Subblocks(mk, start) = {x \in DOMAIN mk : start <= x /\ x # last}
<1> DEFINE g == [m \in DOMAIN mk |-> {x \in DOMAIN mk : m <= x /\ x # last}]
<1>1. SubblocksEq(mk, g)
  <2>1. ASSUME NEW m \in DOMAIN mk
        PROVE  g[m] = IF X32(mk[m].next) THEN {m} \cup g[NextBlock(mk, m)] ELSE {}
    <3>1. CASE m = last
      BY <3>1, EndsAtLast, MarkFacts
    <3>2. CASE m # last
      <4>1. X32(mk[m].next) /\ NextBlock(mk, m) \in DOMAIN mk
        BY <3>2, EndsAtLast, LinkFacts
      <4>2. \A x \in DOMAIN mk : x \in Nat
        BY MarkFacts
      <4>3. \A x \in DOMAIN mk : m <= x <=> x = m \/ NextBlock(mk, m) <= x
        BY <3>2, <4>1, <4>2, LinkFacts
      <4> QED  BY <3>2, <4>1, <4>3
    <3> QED  BY <3>1, <3>2
  <2> QED  BY <2>1 DEF SubblocksEq
<1> HIDE DEF g
<1>2. ASSUME NEW h, SubblocksEq(mk, h) PROVE h = g
  <2>1. g = [m \in DOMAIN mk |-> g[m]] /\ h = [m \in DOMAIN mk |-> h[m]]
    BY <1>1, <1>2 DEF SubblocksEq
  <2>2. \A m \in DOMAIN mk :
          /\ g[m] = IF X32(mk[m].next) THEN {m} \cup g[NextBlock(mk, m)] ELSE {}
          /\ h[m] = IF X32(mk[m].next) THEN {m} \cup h[NextBlock(mk, m)] ELSE {}
    BY <1>1, <1>2 DEF SubblocksEq
  <2>3. last \in DOMAIN mk /\ ~X32(mk[last].next)
    BY EndsAtLast DEF Chained, Marked
  <2>4. g[last] = h[last]
    BY <2>2, <2>3
  <2>5. \A m \in DOMAIN mk :
          m # last /\ g[NextBlock(mk, m)] = h[NextBlock(mk, m)] => g[m] = h[m]
    BY <2>2
  <2> QED  BY <2>1, <2>4, <2>5, SameForward
<1>3. Subblocks(mk, start) = (CHOOSE h : SubblocksEq(mk, h))[start]
  BY DEF Subblocks, SubblocksEq
<1>4. (CHOOSE h : SubblocksEq(mk, h)) = g
  BY <1>1, <1>2
<1> QED  BY <1>3, <1>4 DEF g

(* The first free subblock of at least maxsize bytes, and that there is    *)
(* none when the walk finds none.                                          *)
Roomy(mk, last, maxsize, x) == x # last /\ ~mk[x].next.fill /\ mk[x].next.size >= maxsize
RoomyFrom(mk, last, maxsize, m) == {x \in DOMAIN mk : m <= x /\ Roomy(mk, last, maxsize, x)}
Least(S) == CHOOSE x \in S : \A y \in S : x <= y

FirstEq(mk, maxsize, g) ==
  g = [m \in DOMAIN mk |->
         IF ~X32(mk[m].next) THEN NoSub
         ELSE IF ~mk[m].next.fill /\ mk[m].next.size >= maxsize THEN m
         ELSE g[NextBlock(mk, m)]]

(* What Least chooses, ...                                                 *)
LEMMA LeastIs ==
  ASSUME NEW S \in SUBSET Nat, S # {}
  PROVE  Least(S) \in S /\ \A y \in S : Least(S) <= y
BY LeastNat DEF Least

(* and that nothing else would do.                                         *)
LEMMA LeastOf ==
  ASSUME NEW S \in SUBSET Nat, NEW x \in S, \A y \in S : x <= y
  PROVE  Least(S) = x
<1>1. Least(S) \in S /\ \A y \in S : Least(S) <= y
  BY LeastIs
<1>2. Least(S) <= x /\ x <= Least(S) /\ Least(S) \in Nat /\ x \in Nat
  BY <1>1
<1> QED  BY <1>2

(* getFirstBlock returns the first subblock from start on with room, ...   *)
LEMMA FirstIs ==
  ASSUME NEW mk, NEW last, Chained(mk, last), NEW maxsize \in Nat, NEW start \in DOMAIN mk
  PROVE  GetFirstBlock(mk, maxsize, start)
           = IF RoomyFrom(mk, last, maxsize, start) = {} THEN NoSub
             ELSE Least(RoomyFrom(mk, last, maxsize, start))
<1> DEFINE S(m) == RoomyFrom(mk, last, maxsize, m)
           g == [m \in DOMAIN mk |-> IF S(m) = {} THEN NoSub ELSE Least(S(m))]
<1>0. \A m \in DOMAIN mk : S(m) \in SUBSET Nat
  BY MarkFacts DEF RoomyFrom
<1>1. FirstEq(mk, maxsize, g)
  <2>1. ASSUME NEW m \in DOMAIN mk
        PROVE  g[m] = IF ~X32(mk[m].next) THEN NoSub
                      ELSE IF ~mk[m].next.fill /\ mk[m].next.size >= maxsize THEN m
                      ELSE g[NextBlock(mk, m)]
    <3>1. CASE m = last
      <4>1. S(m) = {}
        BY <3>1, MarkFacts DEF RoomyFrom, Roomy
      <4> QED  BY <3>1, <4>1, EndsAtLast
    <3>2. CASE m # last /\ ~mk[m].next.fill /\ mk[m].next.size >= maxsize
      <4>1. m \in S(m) /\ \A y \in S(m) : m <= y
        BY <3>2, MarkFacts DEF RoomyFrom, Roomy
      <4>2. Least(S(m)) = m
        BY <4>1, <1>0, LeastOf
      <4> QED  BY <3>2, <4>1, <4>2, EndsAtLast
    <3>3. CASE m # last /\ ~(~mk[m].next.fill /\ mk[m].next.size >= maxsize)
      <4>1. X32(mk[m].next) /\ NextBlock(mk, m) \in DOMAIN mk
        BY <3>3, EndsAtLast, LinkFacts
      <4>2. \A x \in DOMAIN mk : x \in Nat
        BY MarkFacts
      <4>3. \A x \in DOMAIN mk : m <= x <=> x = m \/ NextBlock(mk, m) <= x
        BY <3>3, <4>1, <4>2, LinkFacts
      <4>4. S(m) = S(NextBlock(mk, m))
        BY <3>3, <4>3 DEF RoomyFrom, Roomy
      <4> QED  BY <3>3, <4>1, <4>4
    <3> QED  BY <3>1, <3>2, <3>3
  <2> QED  BY <2>1 DEF FirstEq
<1> HIDE DEF g
<1>2. ASSUME NEW h, FirstEq(mk, maxsize, h) PROVE h = g
  <2>1. g = [m \in DOMAIN mk |-> g[m]] /\ h = [m \in DOMAIN mk |-> h[m]]
    BY <1>1, <1>2 DEF FirstEq
  <2>2. \A m \in DOMAIN mk :
          /\ g[m] = IF ~X32(mk[m].next) THEN NoSub
                    ELSE IF ~mk[m].next.fill /\ mk[m].next.size >= maxsize THEN m
                    ELSE g[NextBlock(mk, m)]
          /\ h[m] = IF ~X32(mk[m].next) THEN NoSub
                    ELSE IF ~mk[m].next.fill /\ mk[m].next.size >= maxsize THEN m
                    ELSE h[NextBlock(mk, m)]
    BY <1>1, <1>2 DEF FirstEq
  <2>3. last \in DOMAIN mk /\ ~X32(mk[last].next)
    BY EndsAtLast DEF Chained, Marked
  <2>4. g[last] = h[last]
    BY <2>2, <2>3
  <2>5. \A m \in DOMAIN mk :
          m # last /\ g[NextBlock(mk, m)] = h[NextBlock(mk, m)] => g[m] = h[m]
    BY <2>2
  <2> QED  BY <2>1, <2>4, <2>5, SameForward
<1>3. GetFirstBlock(mk, maxsize, start) = (CHOOSE h : FirstEq(mk, maxsize, h))[start]
  BY DEF GetFirstBlock, FirstEq
<1>4. (CHOOSE h : FirstEq(mk, maxsize, h)) = g
  BY <1>1, <1>2
<1> QED  BY <1>3, <1>4 DEF g

(* or NULL if there is none.                                               *)
LEMMA FirstFound ==
  ASSUME NEW mk, NEW last, Chained(mk, last), NEW maxsize \in Nat, NEW start \in DOMAIN mk,
         NEW s, s = GetFirstBlock(mk, maxsize, start)
  PROVE  /\ s = NoSub => \A x \in DOMAIN mk : start <= x => ~Roomy(mk, last, maxsize, x)
         /\ s # NoSub => /\ s \in DOMAIN mk /\ start <= s /\ Roomy(mk, last, maxsize, s)
                         /\ \A x \in DOMAIN mk :
                              start <= x /\ Roomy(mk, last, maxsize, x) => s <= x
<1> DEFINE S == RoomyFrom(mk, last, maxsize, start)
<1>1. S \in SUBSET Nat
  BY MarkFacts DEF RoomyFrom
<1>2. CASE S = {}
  <2>1. s = NoSub
    BY <1>2, FirstIs
  <2> QED  BY <1>2, <2>1 DEF RoomyFrom
<1>3. CASE S # {}
  <2>1. s = Least(S)
    BY <1>3, FirstIs
  <2>2. s \in S /\ \A y \in S : s <= y
    BY <1>1, <1>3, <2>1, LeastIs
  <2>3. s \in Nat
    BY <1>1, <2>2
  <2>4. s # NoSub
    BY <2>3 DEF NoSub
  <2> QED  BY <2>2, <2>4 DEF RoomyFrom
<1> QED  BY <1>2, <1>3

-----------------------------------------------------------------------------
(* The first free subblock from f on, or the last mark.                    *)
NextFreeEq(mk, g) ==
  g = [m \in DOMAIN mk |-> IF mk[m].next.fill THEN g[NextBlock(mk, m)] ELSE m]

FreeMarksFrom(mk, m) == {x \in DOMAIN mk : m <= x /\ ~mk[x].next.fill}

(* getNextFreeBlock returns the first mark from f on that is not filled.   *)
LEMMA NextFreeIs ==
  ASSUME NEW mk, NEW last, Chained(mk, last), NEW f \in DOMAIN mk
  PROVE  /\ NextFree(mk, f) \in DOMAIN mk /\ f <= NextFree(mk, f)
         /\ ~mk[NextFree(mk, f)].next.fill
         /\ \A x \in DOMAIN mk : f <= x /\ ~mk[x].next.fill => NextFree(mk, f) <= x
<1> DEFINE S(m) == FreeMarksFrom(mk, m)
           g == [m \in DOMAIN mk |-> Least(S(m))]
<1>0. last \in DOMAIN mk /\ ~mk[last].next.fill
  BY DEF Chained, Marked, Zero
<1>1. ASSUME NEW m \in DOMAIN mk PROVE S(m) \in SUBSET Nat /\ S(m) # {}
  <2>1. m <= last
    BY MarkFacts
  <2>2. last \in S(m)
    BY <1>0, <2>1 DEF FreeMarksFrom
  <2> QED  BY <2>2, MarkFacts DEF FreeMarksFrom
<1>2. NextFreeEq(mk, g)
  <2>1. ASSUME NEW m \in DOMAIN mk
        PROVE  g[m] = IF mk[m].next.fill THEN g[NextBlock(mk, m)] ELSE m
    <3>1. CASE ~mk[m].next.fill
      <4>1. m \in S(m) /\ \A y \in S(m) : m <= y
        BY <3>1, MarkFacts DEF FreeMarksFrom
      <4>2. Least(S(m)) = m
        BY <4>1, <1>1, LeastOf
      <4> QED  BY <3>1, <4>2
    <3>2. CASE mk[m].next.fill
      <4>0. m # last
        BY <1>0, <3>2
      <4>1. NextBlock(mk, m) \in DOMAIN mk
        BY <4>0, LinkFacts
      <4>2. \A x \in DOMAIN mk : x \in Nat
        BY MarkFacts
      <4>3. \A x \in DOMAIN mk : m <= x <=> x = m \/ NextBlock(mk, m) <= x
        BY <4>0, <4>1, <4>2, LinkFacts
      <4>4. S(m) = S(NextBlock(mk, m))
        BY <3>2, <4>3 DEF FreeMarksFrom
      <4> QED  BY <3>2, <4>1, <4>4
    <3> QED  BY <3>1, <3>2
  <2> QED  BY <2>1 DEF NextFreeEq
<1> HIDE DEF g
<1>3. ASSUME NEW h, NextFreeEq(mk, h) PROVE h = g
  <2>1. g = [m \in DOMAIN mk |-> g[m]] /\ h = [m \in DOMAIN mk |-> h[m]]
    BY <1>2, <1>3 DEF NextFreeEq
  <2>2. \A m \in DOMAIN mk :
          /\ g[m] = IF mk[m].next.fill THEN g[NextBlock(mk, m)] ELSE m
          /\ h[m] = IF mk[m].next.fill THEN h[NextBlock(mk, m)] ELSE m
    BY <1>2, <1>3 DEF NextFreeEq
  <2>4. g[last] = h[last]
    BY <2>2, <1>0
  <2>5. \A m \in DOMAIN mk :
          m # last /\ g[NextBlock(mk, m)] = h[NextBlock(mk, m)] => g[m] = h[m]
    BY <2>2
  <2> QED  BY <2>1, <2>4, <2>5, SameForward
<1>4. NextFree(mk, f) = (CHOOSE h : NextFreeEq(mk, h))[f]
  BY DEF NextFree, NextFreeEq
<1>5. (CHOOSE h : NextFreeEq(mk, h)) = g
  BY <1>2, <1>3
<1>6. NextFree(mk, f) = Least(S(f))
  BY <1>4, <1>5 DEF g
<1>7. Least(S(f)) \in S(f) /\ \A y \in S(f) : Least(S(f)) <= y
  BY <1>1, LeastIs
<1> QED  BY <1>6, <1>7 DEF FreeMarksFrom

-----------------------------------------------------------------------------
(* The largest free subblock, either way.  Greatest(S) is what a walk that *)
(* starts from the sizes S has to find.                                    *)
Greatest(S) == CHOOSE x \in S : \A y \in S : y <= x
Bounded(S) == S # {} /\ \E b \in Nat : S \in SUBSET (0 .. b)

(* What Greatest chooses.                                                  *)
LEMMA GreatestIs ==
  ASSUME NEW S, Bounded(S)
  PROVE  Greatest(S) \in S /\ Greatest(S) \in Nat /\ \A y \in S : y <= Greatest(S)
<1>1. PICK b \in Nat : S \in SUBSET (0 .. b)
  BY DEF Bounded
<1>2. S # {}
  BY DEF Bounded
<1>3. \E x \in S : \A y \in S : y <= x
  BY <1>1, <1>2, GreatestNat
<1>4. Greatest(S) \in S /\ \A y \in S : y <= Greatest(S)
  BY <1>3 DEF Greatest
<1>5. Greatest(S) \in 0 .. b
  BY <1>1, <1>4
<1> QED  BY <1>4, <1>5

(* Two sets that hold each other's greatest element agree in it.           *)
LEMMA GreatestSame ==
  ASSUME NEW S, NEW T, Bounded(S), Bounded(T), Greatest(S) \in T, Greatest(T) \in S
  PROVE  Greatest(S) = Greatest(T)
<1>1. Greatest(S) <= Greatest(T) /\ Greatest(T) <= Greatest(S)
  BY GreatestIs
<1> QED  BY <1>1, GreatestIs

SizesIn(mk, M, best) == {best} \cup {mk[x].next.size : x \in {y \in M : ~mk[y].next.fill}}

(* The sizes of the free subblocks at some marks have a greatest.          *)
LEMMA SizesBounded ==
  ASSUME NEW mk, NEW last, Chained(mk, last), NEW M \in SUBSET DOMAIN mk, NEW best \in Nat
  PROVE  Bounded(SizesIn(mk, M, best))
<1> DEFINE b == last + best
<1>1. b \in Nat /\ last \in Nat /\ best <= b /\ last <= b
  BY DEF Chained
<1>2. ASSUME NEW x \in DOMAIN mk PROVE mk[x].next.size \in 0 .. b
  <2>1. CASE x = last
    BY <1>1, <2>1 DEF Chained, Zero
  <2>2. CASE x # last
    <3>1. NextBlock(mk, x) \in 0 .. last
      BY <2>2, LinkFacts, MarkFacts
    <3>2. mk[x].next.size <= last
      BY <2>2, <3>1, LinkFacts, MarkFacts
    <3> QED  BY <1>1, <3>2, MarkFacts
  <2> QED  BY <2>1, <2>2
<1> HIDE DEF b
<1>3. SizesIn(mk, M, best) \in SUBSET (0 .. b)
  BY <1>1, <1>2 DEF SizesIn
<1>4. best \in SizesIn(mk, M, best)
  BY DEF SizesIn
<1> QED  BY <1>1, <1>3, <1>4 DEF Bounded

(* One step of such a walk: the marks M and a mark m that is not one of    *)
(* them.                                                                   *)
Better(mk, m, best) == IF ~mk[m].next.fill /\ mk[m].next.size > best THEN mk[m].next.size ELSE best

(* One turn of the loop of getMaxFreeBlock, at the mark m.                 *)
LEMMA GreatestStep ==
  ASSUME NEW mk, NEW last, Chained(mk, last), NEW M \in SUBSET DOMAIN mk, NEW m \in DOMAIN mk,
         NEW best \in Nat
  PROVE  /\ Better(mk, m, best) \in Nat
         /\ Greatest(SizesIn(mk, M \cup {m}, best)) = Greatest(SizesIn(mk, M, Better(mk, m, best)))
<1> DEFINE S == SizesIn(mk, M \cup {m}, best)
           T == SizesIn(mk, M, Better(mk, m, best))
<1>0. mk[m].next.size \in Nat
  BY MarkFacts
<1>1. Better(mk, m, best) \in Nat
  BY <1>0 DEF Better
<1>2. Bounded(S) /\ Bounded(T)
  BY <1>1, SizesBounded
<1>3. T \subseteq S
  BY DEF SizesIn, Better
<1>4. Greatest(T) \in S
  BY <1>2, <1>3, GreatestIs
<1>5. Better(mk, m, best) \in T /\ Better(mk, m, best) \in S
  BY <1>3 DEF SizesIn
<1>6. Greatest(S) \in S /\ Better(mk, m, best) <= Greatest(S) /\ Greatest(S) \in Nat
  BY <1>2, <1>5, GreatestIs
<1>7. ASSUME NEW x \in S, Better(mk, m, best) <= x PROVE x \in T
  <2>1. CASE x = best
    <3>1. Better(mk, m, best) = best
      BY <1>0, <1>7, <2>1 DEF Better
    <3> QED  BY <2>1, <3>1 DEF SizesIn
  <2>2. CASE x = mk[m].next.size /\ ~mk[m].next.fill
    <3>1. Better(mk, m, best) = x
      BY <1>0, <1>7, <2>2 DEF Better
    <3> QED  BY <3>1 DEF SizesIn
  <2>3. CASE \E y \in M : ~mk[y].next.fill /\ x = mk[y].next.size
    BY <2>3 DEF SizesIn
  <2> QED  BY <2>1, <2>2, <2>3 DEF SizesIn
<1>8. Greatest(S) \in T
  BY <1>6, <1>7
<1> QED  BY <1>1, <1>2, <1>4, <1>8, GreatestSame

(* The greatest element is the only one.                                   *)
LEMMA GreatestOf ==
  ASSUME NEW S \in SUBSET Nat, NEW x \in S, \A y \in S : y <= x
  PROVE  Greatest(S) = x
<1>1. Greatest(S) \in S /\ \A y \in S : y <= Greatest(S)
  BY DEF Greatest
<1>2. Greatest(S) <= x /\ x <= Greatest(S) /\ Greatest(S) \in Nat /\ x \in Nat
  BY <1>1
<1> QED  BY <1>2

(* The walk forward.                                                       *)
MarksFrom(mk, m) == {x \in DOMAIN mk : m <= x}

MaxFromEq(mk, g) ==
  g = [m \in DOMAIN mk |->
        [best \in Nat |->
          IF ~X32(mk[m].next) THEN Worth(best)
          ELSE g[NextBlock(mk, m)][IF ~mk[m].next.fill /\ mk[m].next.size > best
                                   THEN mk[m].next.size ELSE best]]]

(* getMaxFreeBlock from a mark on, and ...                                 *)
LEMMA MaxFreeFromIs ==
  ASSUME NEW mk, NEW last, Chained(mk, last), NEW start \in DOMAIN mk
  PROVE  GetMaxFreeFrom(mk, start) = Worth(Greatest(SizesIn(mk, MarksFrom(mk, start), 0)))
<1> DEFINE G(m, best) == Worth(Greatest(SizesIn(mk, MarksFrom(mk, m), best)))
           g == [m \in DOMAIN mk |-> [best \in Nat |-> G(m, best)]]
<1>1. ASSUME NEW m \in DOMAIN mk, NEW best \in Nat
      PROVE  G(m, best) = IF ~X32(mk[m].next) THEN Worth(best)
                          ELSE G(NextBlock(mk, m), Better(mk, m, best))
  <2>1. CASE m = last
    <3>1. MarksFrom(mk, m) = {last}
      BY <2>1, MarkFacts DEF MarksFrom
    <3>2. SizesIn(mk, {last}, best) = {best, 0}
      BY DEF SizesIn, Chained, Marked, Zero
    <3>3. Greatest({best, 0}) = best
      BY GreatestOf
    <3> QED  BY <2>1, <3>1, <3>2, <3>3, EndsAtLast
  <2>2. CASE m # last
    <3>1. X32(mk[m].next) /\ NextBlock(mk, m) \in DOMAIN mk
      BY <2>2, EndsAtLast, LinkFacts
    <3>2. \A x \in DOMAIN mk : x \in Nat
      BY MarkFacts
    <3>3. \A x \in DOMAIN mk : m <= x <=> x = m \/ NextBlock(mk, m) <= x
      BY <2>2, <3>1, <3>2, LinkFacts
    <3>4. MarksFrom(mk, m) = MarksFrom(mk, NextBlock(mk, m)) \cup {m}
      BY <3>3 DEF MarksFrom
    <3>5. MarksFrom(mk, NextBlock(mk, m)) \in SUBSET DOMAIN mk
      BY DEF MarksFrom
    <3>6. Greatest(SizesIn(mk, MarksFrom(mk, NextBlock(mk, m)) \cup {m}, best))
            = Greatest(SizesIn(mk, MarksFrom(mk, NextBlock(mk, m)), Better(mk, m, best)))
      BY <3>5, GreatestStep
    <3> QED  BY <3>1, <3>4, <3>6
  <2> QED  BY <2>1, <2>2
<1>2. MaxFromEq(mk, g)
  <2>1. ASSUME NEW m \in DOMAIN mk, NEW best \in Nat
        PROVE  G(m, best) = IF ~X32(mk[m].next) THEN Worth(best)
                            ELSE g[NextBlock(mk, m)][IF ~mk[m].next.fill /\ mk[m].next.size > best
                                                     THEN mk[m].next.size ELSE best]
    <3>1. CASE ~X32(mk[m].next)
      BY <1>1, <3>1
    <3>2. CASE X32(mk[m].next)
      <4>1. NextBlock(mk, m) \in DOMAIN mk
        BY <3>2, EndsAtLast, LinkFacts
      <4>2. Better(mk, m, best) \in Nat
        BY MarkFacts DEF Better
      <4>3. g[NextBlock(mk, m)][Better(mk, m, best)] = G(NextBlock(mk, m), Better(mk, m, best))
        BY <4>1, <4>2
      <4> HIDE DEF G, g
      <4> QED  BY <1>1, <3>2, <4>3 DEF Better
    <3> QED  BY <3>1, <3>2
  <2> HIDE DEF G
  <2> QED  BY <2>1 DEF MaxFromEq
<1> HIDE DEF g, G
<1>3. ASSUME NEW h, MaxFromEq(mk, h) PROVE h = g
  <2>1. g = [m \in DOMAIN mk |-> g[m]] /\ h = [m \in DOMAIN mk |-> h[m]]
    BY <1>2, <1>3 DEF MaxFromEq
  <2>2. \A m \in DOMAIN mk :
          /\ g[m] = [best \in Nat |->
                       IF ~X32(mk[m].next) THEN Worth(best)
                       ELSE g[NextBlock(mk, m)][IF ~mk[m].next.fill /\ mk[m].next.size > best
                                                THEN mk[m].next.size ELSE best]]
          /\ h[m] = [best \in Nat |->
                       IF ~X32(mk[m].next) THEN Worth(best)
                       ELSE h[NextBlock(mk, m)][IF ~mk[m].next.fill /\ mk[m].next.size > best
                                                THEN mk[m].next.size ELSE best]]
    BY <1>2, <1>3 DEF MaxFromEq
  <2>3. last \in DOMAIN mk /\ ~X32(mk[last].next)
    BY EndsAtLast DEF Chained, Marked
  <2>4. g[last] = h[last]
    BY <2>2, <2>3
  <2>5. ASSUME NEW m \in DOMAIN mk, g[NextBlock(mk, m)] = h[NextBlock(mk, m)]
        PROVE  g[m] = h[m]
    <3> DEFINE E(f, best) ==
          IF ~X32(mk[m].next) THEN Worth(best)
          ELSE f[NextBlock(mk, m)][IF ~mk[m].next.fill /\ mk[m].next.size > best
                                   THEN mk[m].next.size ELSE best]
    <3>1. \A best \in Nat : E(g, best) = E(h, best)
      BY <2>5
    <3>2. g[m] = [best \in Nat |-> E(g, best)] /\ h[m] = [best \in Nat |-> E(h, best)]
      BY <2>2
    <3> HIDE DEF E
    <3> QED  BY <3>1, <3>2
  <2> QED  BY <2>1, <2>4, <2>5, SameForward
<1>4. GetMaxFreeFrom(mk, start) = (CHOOSE h : MaxFromEq(mk, h))[start][0]
  BY DEF GetMaxFreeFrom, MaxFromEq
<1>5. (CHOOSE h : MaxFromEq(mk, h)) = g
  BY <1>2, <1>3
<1>6. g[start][0] = G(start, 0)
  BY DEF g
<1> QED  BY <1>4, <1>5, <1>6 DEF G

(* The walk backward.  It never gives up early: a subblock that is larger  *)
(* than all that is left before it would reach beyond the block.           *)
MarksBefore(mk, m) == {x \in DOMAIN mk : x < m}

MaxBackEq(mk, g) ==
  g = [m \in DOMAIN mk |->
        [best \in Nat |->
          IF ~X32(mk[m].prev) THEN Worth(best)
          ELSE IF mk[m].prev.fill \/ mk[m].prev.size <= best
               THEN g[PrevBlock(mk, m)][best]
          ELSE IF mk[m].prev.size > m THEN Worth(mk[m].prev.size)
          ELSE g[PrevBlock(mk, m)][mk[m].prev.size]]]

BackValue(mk, g, m, best) ==
  IF ~X32(mk[m].prev) THEN Worth(best)
  ELSE IF mk[m].prev.fill \/ mk[m].prev.size <= best THEN g[PrevBlock(mk, m)][best]
  ELSE IF mk[m].prev.size > m THEN Worth(mk[m].prev.size)
  ELSE g[PrevBlock(mk, m)][mk[m].prev.size]

(* from the last mark back: the largest free subblock, if worth a mark.    *)
LEMMA MaxFreeBackIs ==
  ASSUME NEW mk, NEW bsize, Chained(mk, LastBlock(bsize))
  PROVE  GetMaxFreeBack(mk, bsize)
           = Worth(Greatest(SizesIn(mk, MarksBefore(mk, LastBlock(bsize)), 0)))
<1> DEFINE last == LastBlock(bsize)
           G(m, best) == Worth(Greatest(SizesIn(mk, MarksBefore(mk, m), best)))
           g == [m \in DOMAIN mk |-> [best \in Nat |-> G(m, best)]]
<1>0. Chained(mk, last)
  OBVIOUS
<1> HIDE DEF last
<1>1. ASSUME NEW m \in DOMAIN mk, NEW best \in Nat
      PROVE  G(m, best) = BackValue(mk, g, m, best)
  <2>1. CASE m = 0
    <3>1. MarksBefore(mk, m) = {}
      BY <2>1, <1>0, MarkFacts DEF MarksBefore
    <3>2. SizesIn(mk, {}, best) = {best}
      BY DEF SizesIn
    <3>3. Greatest({best}) = best
      BY GreatestOf
    <3>4. ~X32(mk[m].prev)
      BY <2>1, <1>0, EndsAtFirst
    <3> QED  BY <3>1, <3>2, <3>3, <3>4 DEF BackValue
  <2>2. CASE m # 0
    <3> DEFINE p == PrevBlock(mk, m)
    <3>1. X32(mk[m].prev) /\ p \in DOMAIN mk /\ mk[p].next = mk[m].prev /\ p < m
      BY <1>0, <2>2, EndsAtFirst, BackFacts
    <3>2. \A x \in DOMAIN mk : x \in Nat
      BY <1>0, MarkFacts
    <3>3. \A x \in DOMAIN mk : x < m <=> x = p \/ x < p
      BY <1>0, <2>2, <3>1, <3>2, BackFacts
    <3>4. ~(mk[m].prev.size > m)
      BY <1>0, <2>2, <3>1, <3>2, BackFacts, MarkFacts
    <3>5. mk[m].prev.size \in Nat
      BY <1>0, MarkFacts
    <3> HIDE DEF p
    <3>6. MarksBefore(mk, m) = MarksBefore(mk, p) \cup {p}
      BY <3>1, <3>3 DEF MarksBefore
    <3>7. MarksBefore(mk, p) \in SUBSET DOMAIN mk
      BY DEF MarksBefore
    <3>8. /\ Better(mk, p, best) \in Nat
          /\ Greatest(SizesIn(mk, MarksBefore(mk, p) \cup {p}, best))
               = Greatest(SizesIn(mk, MarksBefore(mk, p), Better(mk, p, best)))
      BY <1>0, <3>1, <3>7, GreatestStep
    <3>9. G(m, best) = g[p][Better(mk, p, best)]
      BY <3>1, <3>6, <3>8
    <3> HIDE DEF G, g
    <3>10. CASE mk[m].prev.fill \/ mk[m].prev.size <= best
      <4>1. Better(mk, p, best) = best
        BY <3>1, <3>5, <3>10 DEF Better
      <4> QED  BY <3>1, <3>9, <3>10, <4>1 DEF BackValue, p
    <3>11. CASE ~(mk[m].prev.fill \/ mk[m].prev.size <= best)
      <4>1. Better(mk, p, best) = mk[m].prev.size
        BY <3>1, <3>5, <3>11 DEF Better
      <4> QED  BY <3>1, <3>4, <3>9, <3>11, <4>1 DEF BackValue, p
    <3> QED  BY <3>10, <3>11
  <2> QED  BY <2>1, <2>2
<1>2. MaxBackEq(mk, g)
  <2> HIDE DEF G
  <2> QED  BY <1>1 DEF MaxBackEq, BackValue
<1> HIDE DEF g, G
<1>3. ASSUME NEW h, MaxBackEq(mk, h) PROVE h = g
  <2>1. g = [m \in DOMAIN mk |-> g[m]] /\ h = [m \in DOMAIN mk |-> h[m]]
    BY <1>2, <1>3 DEF MaxBackEq
  <2>2. \A m \in DOMAIN mk : /\ g[m] = [best \in Nat |-> BackValue(mk, g, m, best)]
                             /\ h[m] = [best \in Nat |-> BackValue(mk, h, m, best)]
    BY <1>2, <1>3 DEF MaxBackEq, BackValue
  <2>3. 0 \in DOMAIN mk /\ ~X32(mk[0].prev)
    BY <1>0, EndsAtFirst DEF Chained, Marked
  <2>4. g[0] = h[0]
    BY <2>2, <2>3 DEF BackValue
  <2>5. ASSUME NEW m \in DOMAIN mk, g[PrevBlock(mk, m)] = h[PrevBlock(mk, m)]
        PROVE  g[m] = h[m]
    <3>1. \A best \in Nat : BackValue(mk, g, m, best) = BackValue(mk, h, m, best)
      BY <2>5 DEF BackValue
    <3> QED  BY <2>2, <3>1
  <2> QED  BY <1>0, <2>1, <2>4, <2>5, SameBackward
<1>4. GetMaxFreeBack(mk, bsize) = (CHOOSE h : MaxBackEq(mk, h))[last][0]
  BY DEF GetMaxFreeBack, MaxBackEq, last
<1>5. (CHOOSE h : MaxBackEq(mk, h)) = g
  BY <1>2, <1>3
<1>6. last \in DOMAIN mk
  BY <1>0 DEF Chained, Marked
<1>7. g[last][0] = G(last, 0)
  BY <1>6 DEF g
<1> QED  BY <1>4, <1>5, <1>7 DEF G, last

(* What the two walks compute: 0, or the size of a free subblock that is   *)
(* worth a mark and that none exceeds.                                     *)
LEMMA WorthGreatest ==
  ASSUME NEW mk, NEW last, Chained(mk, last), NEW M \in SUBSET DOMAIN mk, NEW r,
         r = Worth(Greatest(SizesIn(mk, M, 0)))
  PROVE  /\ r \in Nat
         /\ r # 0 => \E x \in M : x # last /\ ~mk[x].next.fill /\ mk[x].next.size = r
         /\ \A x \in M : ~mk[x].next.fill /\ mk[x].next.size >= MarkSize => mk[x].next.size <= r
<1> DEFINE S == SizesIn(mk, M, 0)
           k == Greatest(S)
<1>1. k \in S /\ k \in Nat /\ \A y \in S : y <= k
  BY SizesBounded, GreatestIs
<1>2. r = IF k >= MarkSize THEN k ELSE 0
  BY DEF Worth
<1>3. k = 0 \/ \E x \in M : ~mk[x].next.fill /\ mk[x].next.size = k
  BY <1>1 DEF SizesIn
<1>4. ASSUME NEW x \in M, ~mk[x].next.fill PROVE mk[x].next.size \in S
  BY <1>4 DEF SizesIn
<1>5. mk[last].next.size = 0
  BY DEF Chained, Zero
<1>6. ASSUME NEW x \in M, ~mk[x].next.fill, mk[x].next.size >= MarkSize PROVE mk[x].next.size <= r
  <2>1. mk[x].next.size <= k /\ mk[x].next.size \in Nat
    BY <1>1, <1>4, <1>6, MarkFacts
  <2> QED  BY <1>1, <1>2, <1>6, <2>1, MarkSizeAssumption
<1> HIDE DEF k
<1>7. r # 0 => r = k
  BY <1>2
<1> QED  BY <1>1, <1>2, <1>3, <1>5, <1>6, <1>7

-----------------------------------------------------------------------------
(* Two marks never lead to the same one.                                   *)
LEMMA NextInverse ==
  ASSUME NEW mk, NEW last, Chained(mk, last), NEW x \in DOMAIN mk, x # last
  PROVE  /\ PrevBlock(mk, NextBlock(mk, x)) = x
         /\ NextBlock(mk, x) # 0
<1>1. /\ NextBlock(mk, x) = x + mk[x].next.size + MarkSize
      /\ mk[NextBlock(mk, x)].prev = mk[x].next
  BY LinkFacts
<1>2. x \in Nat /\ MarkSize \in Nat /\ MarkSize > 0 /\ mk[x].next.size \in Nat
  BY MarkFacts
<1>3. PrevBlock(mk, NextBlock(mk, x)) = NextBlock(mk, x) - mk[x].next.size - MarkSize
  BY <1>1 DEF PrevBlock
<1> QED  BY <1>1, <1>2, <1>3

(* The chain of a new block is sound, with one free subblock.              *)
LEMMA NewChained ==
  ASSUME NEW bsize \in Nat, bsize > 2 * MarkSize
  PROVE  /\ Chained(NewChain(bsize), LastBlock(bsize))
         /\ DOMAIN NewChain(bsize) = {0, LastBlock(bsize)}
         /\ LastBlock(bsize) # 0
         /\ NewChain(bsize)[0].next = Free(bsize - 2 * MarkSize)
<1> DEFINE last == LastBlock(bsize)
           mk == NewChain(bsize)
           whole == Free(bsize - 2 * MarkSize)
<1>1. MarkSize \in Nat /\ MarkSize > 0
  BY MarkSizeAssumption
<1>2. last \in Nat /\ last > 0 /\ last = bsize - MarkSize
  BY <1>1 DEF LastBlock
<1>3. /\ DOMAIN mk = {0, last}
      /\ mk[0] = [prev |-> Zero, next |-> whole] /\ mk[last] = [prev |-> whole, next |-> Zero]
  BY <1>2 DEF NewChain
<1>4. whole \in Half /\ Zero \in Half /\ whole.size = bsize - 2 * MarkSize /\ whole.size > 0
  BY <1>1 DEF Half, Free, Zero
<1> HIDE DEF mk, last, whole
<1>5. NextBlock(mk, 0) = last /\ PrevBlock(mk, last) = 0
  BY <1>1, <1>2, <1>3, <1>4 DEF NextBlock, PrevBlock
<1>6. Linked(mk, 0) /\ LinkedBack(mk, last)
  BY <1>2, <1>3, <1>4, <1>5 DEF Linked, LinkedBack
<1>7. Chained(mk, last)
  BY <1>2, <1>3, <1>4, <1>6 DEF Chained, Marked
<1> QED  BY <1>2, <1>3, <1>7 DEF mk, last, whole

-----------------------------------------------------------------------------
(* The mark a filled subblock ends at.                                     *)
GotBy(mk, s, size) == CutSize(mk[s].next.size, size)
CutAt(mk, s, size) == s + GotBy(mk, s, size) + MarkSize

(* Half of a mark replaced, or marked filled.                              *)
LEMMA SetFill ==
  ASSUME NEW n, NEW f, NEW v
  PROVE  [[size |-> n, fill |-> f] EXCEPT !.fill = v] = [size |-> n, fill |-> v]
OBVIOUS

(* A mark whose prev is written.                                           *)
LEMMA SetPrev ==
  ASSUME NEW r, NEW p, NEW q, NEW v, r = [prev |-> p, next |-> q]
  PROVE  [r EXCEPT !.prev = v] = [prev |-> v, next |-> q]
OBVIOUS

(* allocBlock: what it leaves of the marks.                                *)
LEMMA AllocEffect ==
  ASSUME NEW mk, NEW last, Chained(mk, last), NEW s \in DOMAIN mk, NEW size \in Nat \ {0},
         Roomy(mk, last, size, s),
         NEW n, n = NextBlock(mk, s), NEW m, m = CutAt(mk, s, size),
         NEW new, new = AllocBlock(mk, s, size)
  PROVE  LET got == GotBy(mk, s, size) IN
         /\ got \in Nat /\ got >= size /\ s < m /\ m <= n /\ m \in Nat
         /\ DOMAIN new = DOMAIN mk \cup {m}
         /\ \A x \in DOMAIN new : new[x] \in [prev : Half, next : Half]
         /\ new[s].next = Filled(got)
         /\ new[m].prev = Filled(got)
         /\ m # n => /\ m \notin DOMAIN mk
                     /\ n - m - MarkSize > 0 /\ n - m - MarkSize < mk[s].next.size
                     /\ new[m].next = Free(n - m - MarkSize)
                     /\ new[n].prev = Free(n - m - MarkSize)
         /\ \A x \in DOMAIN mk : x # s => new[x].next = mk[x].next
         /\ \A x \in DOMAIN mk : x # n => new[x].prev = mk[x].prev
<1> DEFINE got == GotBy(mk, s, size)
           have == mk[s].next.size
           rest == Free(n - m - MarkSize)
<1>1. /\ s # last /\ ~mk[s].next.fill /\ have >= size
      /\ have \in Nat /\ s \in Nat /\ MarkSize \in Nat /\ MarkSize > 0
  BY MarkFacts DEF Roomy
<1>2. /\ n \in DOMAIN mk /\ n = s + have + MarkSize /\ n > s /\ n \in Nat
      /\ mk[n].prev = mk[s].next /\ \A x \in DOMAIN mk : x <= s \/ n <= x
  BY <1>1, LinkFacts
<1>3. /\ got \in Nat /\ got >= size /\ got > 0
      /\ got = IF have > size + 2 * MarkSize THEN size ELSE have
  BY <1>1 DEF GotBy, CutSize
<1>4. m = s + got + MarkSize /\ s < m /\ m <= n /\ m \in Nat
  BY <1>1, <1>2, <1>3 DEF CutAt
<1>5. Filled(got) \in Half
  BY <1>3 DEF Filled, Half
<1>6. mk[s] = [prev |-> mk[s].prev, next |-> mk[s].next] /\ mk[n] = [prev |-> mk[n].prev, next |-> mk[n].next]
  BY <1>2 DEF Chained, Marked
<1>7. new = IF m = n
            THEN [mk EXCEPT ![s].next = Filled(got), ![n].prev.fill = TRUE]
            ELSE [x \in DOMAIN mk \cup {m} |->
                    CASE x = m -> [prev |-> Filled(got), next |-> rest]
                      [] x = s -> [mk[s] EXCEPT !.next = Filled(got)]
                      [] x = n -> [mk[n] EXCEPT !.prev = rest]
                      [] OTHER -> mk[x]]
  BY DEF AllocBlock, GotBy, CutAt
<1> HIDE DEF got, have, rest
<1>8. CASE m = n
  <2>1. got = have
    BY <1>1, <1>2, <1>3, <1>4, <1>8
  <2>2. mk[n].prev = [size |-> have, fill |-> FALSE]
    BY <1>1, <1>2, MarkFacts DEF Half, have
  <2>3. new = [mk EXCEPT ![s].next = Filled(got), ![n].prev.fill = TRUE]
    BY <1>7, <1>8
  <2>4. DOMAIN new = DOMAIN mk
    BY <2>3
  <2>5. new[s] = [prev |-> mk[s].prev, next |-> Filled(got)]
    BY <1>2, <1>6, <2>3
  <2>6. new[n] = [prev |-> Filled(got), next |-> mk[n].next]
    <3> DEFINE a == [mk EXCEPT ![s].next = Filled(got)]
    <3>1. a[n] = mk[n] /\ DOMAIN a = DOMAIN mk
      BY <1>2, <1>1
    <3>2. new = [a EXCEPT ![n].prev.fill = TRUE]
      BY <2>3
    <3> HIDE DEF a
    <3> DEFINE v == [a[n].prev EXCEPT !.fill = TRUE]
    <3>3. new[n] = [a[n] EXCEPT !.prev = v]
      BY <1>2, <3>1, <3>2
    <3>4. a[n].prev = [size |-> have, fill |-> FALSE]
      BY <2>2, <3>1
    <3>5. v = [size |-> have, fill |-> TRUE]
      <4> DEFINE h == a[n].prev
      <4>1. h = [size |-> have, fill |-> FALSE] /\ v = [h EXCEPT !.fill = TRUE]
        BY <3>4
      <4> HIDE DEF h, v
      <4>2. [h EXCEPT !.fill = TRUE] = [size |-> have, fill |-> TRUE]
        BY <4>1, SetFill
      <4> QED  BY <4>1, <4>2
    <3> HIDE DEF v
    <3>6. v = Filled(got)
      BY <2>1, <3>5 DEF Filled
    <3>7. a[n] = [prev |-> mk[n].prev, next |-> mk[n].next]
      BY <1>6, <3>1
    <3>8. [a[n] EXCEPT !.prev = v] = [prev |-> v, next |-> mk[n].next]
      BY <3>7, SetPrev
    <3> QED  BY <3>3, <3>6, <3>8
  <2>7. \A x \in DOMAIN mk : x # s /\ x # n => new[x] = mk[x]
    BY <2>3
  <2>8. \A x \in DOMAIN new : new[x] \in [prev : Half, next : Half]
    BY <1>2, <1>5, <2>4, <2>5, <2>6, <2>7 DEF Chained, Marked
  <2>9. DOMAIN new = DOMAIN mk \cup {m}
    BY <1>2, <1>8, <2>4
  <2>10. new[s].next = Filled(got) /\ new[m].prev = Filled(got)
    BY <1>8, <2>5, <2>6
  <2>11. /\ \A x \in DOMAIN mk : x # s => new[x].next = mk[x].next
         /\ \A x \in DOMAIN mk : x # n => new[x].prev = mk[x].prev
    BY <2>5, <2>6, <2>7
  <2> QED  BY <1>3, <1>4, <1>8, <2>8, <2>9, <2>10, <2>11 DEF got
<1>9. CASE m # n
  <2>1. got = size /\ have > size + 2 * MarkSize
    BY <1>1, <1>2, <1>3, <1>4, <1>9
  <2>2. n - m - MarkSize \in Nat /\ n - m - MarkSize > 0 /\ n - m - MarkSize < have /\ m < n
    BY <1>1, <1>2, <1>3, <1>4, <2>1
  <2>3. m \notin DOMAIN mk
    BY <1>2, <1>4, <2>2, MarkFacts
  <2>4. rest \in Half
    BY <2>2 DEF rest, Half, Free
  <2>5. new = [x \in DOMAIN mk \cup {m} |->
                    CASE x = m -> [prev |-> Filled(got), next |-> rest]
                      [] x = s -> [mk[s] EXCEPT !.next = Filled(got)]
                      [] x = n -> [mk[n] EXCEPT !.prev = rest]
                      [] OTHER -> mk[x]]
    BY <1>7, <1>9
  <2>6. DOMAIN new = DOMAIN mk \cup {m}
    BY <2>5
  <2>7. new[m] = [prev |-> Filled(got), next |-> rest]
    BY <1>2, <2>3, <2>5
  <2>8. new[s] = [prev |-> mk[s].prev, next |-> Filled(got)]
    BY <1>6, <1>2, <2>3, <2>5
  <2>9. new[n] = [prev |-> rest, next |-> mk[n].next]
    BY <1>6, <1>2, <2>3, <2>5
  <2>10. \A x \in DOMAIN mk : x # s /\ x # n => new[x] = mk[x]
    BY <2>3, <2>5
  <2>11. \A x \in DOMAIN new : new[x] \in [prev : Half, next : Half]
    BY <1>2, <1>5, <2>4, <2>6, <2>7, <2>8, <2>9, <2>10 DEF Chained, Marked
  <2> QED  BY <1>2, <1>3, <1>4, <2>2, <2>3, <2>6, <2>7, <2>8, <2>9, <2>10, <2>11 DEF got, rest, have
<1> QED  BY <1>8, <1>9

(* ... a sound chain.                                                      *)
LEMMA AllocChained ==
  ASSUME NEW mk, NEW last, Chained(mk, last), NEW s \in DOMAIN mk, NEW size \in Nat \ {0},
         Roomy(mk, last, size, s)
  PROVE  Chained(AllocBlock(mk, s, size), last)
<1> DEFINE n == NextBlock(mk, s)
           m == CutAt(mk, s, size)
           new == AllocBlock(mk, s, size)
           got == GotBy(mk, s, size)
<1>1. /\ s # last /\ ~mk[s].next.fill
      /\ \A x \in DOMAIN mk : x \in Nat /\ x <= last
      /\ MarkSize \in Nat /\ MarkSize > 0 /\ last \in Nat
  BY MarkFacts DEF Roomy
<1>2. /\ n \in DOMAIN mk /\ n > s /\ mk[n].prev = mk[s].next
      /\ \A x \in DOMAIN mk : x <= s \/ n <= x
      /\ mk[n].next = Zero \/ mk[n].next.fill
  BY <1>1, LinkFacts
<1>3. m = s + got + MarkSize
  BY DEF CutAt
<1>4. /\ got \in Nat /\ got >= size /\ s < m /\ m <= n /\ m \in Nat
      /\ DOMAIN new = DOMAIN mk \cup {m}
      /\ \A x \in DOMAIN new : new[x] \in [prev : Half, next : Half]
      /\ new[s].next = Filled(got)
      /\ new[m].prev = Filled(got)
      /\ m # n => /\ m \notin DOMAIN mk
                  /\ n - m - MarkSize > 0
                  /\ new[m].next = Free(n - m - MarkSize)
                  /\ new[n].prev = Free(n - m - MarkSize)
      /\ \A x \in DOMAIN mk : x # s => new[x].next = mk[x].next
      /\ \A x \in DOMAIN mk : x # n => new[x].prev = mk[x].prev
  BY AllocEffect
<1> HIDE DEF n, m, new, got
<1>5. /\ Filled(got).size = got /\ Filled(got).fill
      /\ Free(n - m - MarkSize).size = n - m - MarkSize /\ ~Free(n - m - MarkSize).fill
  BY DEF Filled, Free
<1>6. Marked(new, last)
  <2>1. DOMAIN mk \subseteq 0 .. last /\ 0 \in DOMAIN mk /\ last \in DOMAIN mk
    BY DEF Chained, Marked
  <2>2. m \in 0 .. last
    BY <1>1, <1>2, <1>4
  <2> QED  BY <1>4, <2>1, <2>2 DEF Marked
<1>7. new[last].next = Zero /\ new[0].prev = Zero
  BY <1>1, <1>2, <1>4 DEF Chained, Marked
<1>8. NextBlock(new, s) = m /\ PrevBlock(new, m) = s
  BY <1>1, <1>3, <1>4, <1>5 DEF NextBlock, PrevBlock
<1>9. m # n => NextBlock(new, m) = n /\ PrevBlock(new, n) = m
  BY <1>1, <1>2, <1>4, <1>5 DEF NextBlock, PrevBlock
<1>10. \A x \in DOMAIN mk : x # s => NextBlock(new, x) = NextBlock(mk, x)
  BY <1>4 DEF NextBlock
<1>11. \A x \in DOMAIN mk : x # n => PrevBlock(new, x) = PrevBlock(mk, x)
  BY <1>4 DEF PrevBlock
<1>12. ASSUME NEW x \in DOMAIN new, x # last PROVE Linked(new, x)
  <2>1. CASE x = s
    <3>1. \A y \in DOMAIN new : y <= s \/ m <= y
      BY <1>1, <1>2, <1>4
    <3> QED  BY <1>1, <1>4, <1>5, <1>8, <2>1, <3>1 DEF Linked
  <2>2. CASE x = m /\ m # n
    <3>1. n # s /\ new[n].next = mk[n].next
      BY <1>1, <1>2, <1>4
    <3>2. \A y \in DOMAIN new : y <= m \/ n <= y
      BY <1>1, <1>2, <1>4
    <3>3. new[m].next.size > 0 /\ new[n].prev = new[m].next
      BY <1>4, <1>5, <2>2
    <3> QED  BY <1>2, <1>4, <1>9, <2>2, <3>1, <3>2, <3>3 DEF Linked
  <2>3. CASE x \in DOMAIN mk /\ x # s
    <3> DEFINE y == NextBlock(mk, x)
    <3>1. /\ y \in DOMAIN mk /\ y > x /\ mk[x].next.size > 0
          /\ mk[y].prev = mk[x].next
          /\ \A z \in DOMAIN mk : z <= x \/ y <= z
          /\ mk[x].next.fill \/ mk[y].next = Zero \/ mk[y].next.fill
      BY <1>12, <2>3, LinkFacts
    <3>2. y # n
      BY <1>1, <2>3, <1>12, NextInverse DEF n
    <3>3. NextBlock(new, x) = y
      BY <1>10, <2>3
    <3> HIDE DEF y
    <3>4. new[y].prev = mk[y].prev /\ new[x].next = mk[x].next
      BY <1>4, <2>3, <3>1, <3>2
    <3>5. ASSUME NEW z \in DOMAIN new PROVE z <= x \/ y <= z
      <4>1. CASE z \in DOMAIN mk
        BY <3>1, <4>1
      <4>2. CASE z = m
        <5>1. x <= s \/ n <= x
          BY <1>2, <2>3
        <5>2. s <= x \/ y <= s
          BY <3>1
        <5> QED  BY <1>1, <1>2, <1>4, <2>3, <3>1, <4>2, <5>1, <5>2
      <4> QED  BY <1>4, <4>1, <4>2
    <3>6. new[x].next.fill \/ new[y].next = Zero \/ new[y].next.fill
      <4>1. CASE y = s
        BY <1>4, <1>5, <4>1
      <4>2. CASE y # s
        BY <1>4, <3>1, <3>4, <4>2
      <4> QED  BY <4>1, <4>2
    <3> QED  BY <1>4, <3>1, <3>3, <3>4, <3>5, <3>6 DEF Linked
  <2> QED  BY <1>4, <1>2, <1>1, <2>1, <2>2, <2>3
<1>13. ASSUME NEW x \in DOMAIN new, x # 0 PROVE LinkedBack(new, x)
  <2>1. CASE x = m
    BY <1>4, <1>8, <2>1 DEF LinkedBack
  <2>2. CASE x = n /\ m # n
    BY <1>4, <1>9, <2>2 DEF LinkedBack
  <2>3. CASE x \in DOMAIN mk /\ x # n
    <3> DEFINE p == PrevBlock(mk, x)
    <3>1. p \in DOMAIN mk /\ NextBlock(mk, p) = x
      BY <1>13, <2>3, BackFacts
    <3>2. p # s
      BY <2>3, <3>1 DEF n
    <3> HIDE DEF p
    <3>3. PrevBlock(new, x) = p
      BY <1>11, <2>3 DEF p
    <3>4. NextBlock(new, p) = x
      BY <1>10, <3>1, <3>2
    <3> QED  BY <1>4, <3>1, <3>3, <3>4 DEF LinkedBack
  <2> QED  BY <1>4, <2>1, <2>2, <2>3
<1> QED  BY <1>1, <1>6, <1>7, <1>12, <1>13 DEF Chained, new

-----------------------------------------------------------------------------
(* The marks at both ends of a freed subblock.                             *)
FreedTo(mk, s) ==
  IF MergesNext(mk, NextBlock(mk, s)) THEN NextBlock(mk, NextBlock(mk, s)) ELSE NextBlock(mk, s)

(* freeBlock: between the marks f and e it leaves one free subblock, and   *)
(* drops the marks in between.                                             *)
LEMMA FreeEffect ==
  ASSUME NEW mk, NEW last, Chained(mk, last), NEW s \in DOMAIN mk, s # last, mk[s].next.fill,
         NEW n, n = NextBlock(mk, s), NEW f, f = FreedAt(mk, s), NEW e, e = FreedTo(mk, s),
         NEW new, new = FreeBlock(mk, s)
  PROVE  /\ f \in DOMAIN mk /\ e \in DOMAIN mk /\ n \in DOMAIN mk /\ f # last
         /\ f <= s /\ s < n /\ n <= e
         /\ e - f - MarkSize > 0
         /\ f = s => s = 0 \/ mk[s].prev.fill
         /\ f # s => f = PrevBlock(mk, s) /\ NextBlock(mk, f) = s /\ ~mk[f].next.fill
         /\ e = n => mk[n].next = Zero \/ mk[n].next.fill
         /\ e # n => e = NextBlock(mk, n) /\ n # last /\ ~mk[n].next.fill
         /\ DOMAIN new = DOMAIN mk \ (({s} \ {f}) \cup ({n} \ {e}))
         /\ \A x \in DOMAIN new : new[x] \in [prev : Half, next : Half]
         /\ new[f].next = Free(e - f - MarkSize)
         /\ new[e].prev = Free(e - f - MarkSize)
         /\ \A x \in DOMAIN new : x # f => new[x].next = mk[x].next
         /\ \A x \in DOMAIN new : x # e => new[x].prev = mk[x].prev
<1>1. /\ s \in Nat /\ MarkSize \in Nat /\ MarkSize > 0 /\ mk[s].next.size \in Nat
      /\ \A x \in DOMAIN mk : x \in Nat /\ mk[x] \in [prev : Half, next : Half]
  BY MarkFacts DEF Chained, Marked
<1>2. n \in DOMAIN mk /\ n = s + mk[s].next.size + MarkSize /\ s < n /\ n # 0
  BY LinkFacts, <1>1
<1>3. /\ f \in DOMAIN mk /\ f <= s /\ f # last
      /\ f = s => s = 0 \/ mk[s].prev.fill
      /\ f # s => f = PrevBlock(mk, s) /\ NextBlock(mk, f) = s /\ ~mk[f].next.fill
      /\ f # s => s = f + mk[f].next.size + MarkSize /\ mk[f].next.size \in Nat
  <2>1. CASE MergesPrev(mk, s)
    <3>1. s # 0
      BY <2>1, EndsAtFirst DEF MergesPrev
    <3>2. f = PrevBlock(mk, s)
      BY <2>1 DEF FreedAt
    <3>3. /\ f \in DOMAIN mk /\ f # last /\ NextBlock(mk, f) = s /\ f < s /\ mk[f].next = mk[s].prev
      BY <3>1, <3>2, BackFacts
    <3>4. mk[f].next.size \in Nat
      BY <3>3, MarkFacts
    <3> QED  BY <1>1, <2>1, <3>2, <3>3, <3>4 DEF MergesPrev, NextBlock
  <2>2. CASE ~MergesPrev(mk, s)
    <3>1. f = s
      BY <2>2 DEF FreedAt
    <3>2. s = 0 \/ mk[s].prev.fill
      BY <2>2, EndsAtFirst DEF MergesPrev
    <3> QED  BY <1>1, <3>1, <3>2
  <2> QED  BY <2>1, <2>2
<1>4. /\ e \in DOMAIN mk /\ n <= e
      /\ e = n => mk[n].next = Zero \/ mk[n].next.fill
      /\ e # n => e = NextBlock(mk, n) /\ n # last /\ ~mk[n].next.fill
      /\ e # n => e = n + mk[n].next.size + MarkSize /\ mk[n].next.size \in Nat
      /\ (e # n) <=> MergesNext(mk, n)
  <2>1. CASE MergesNext(mk, n)
    <3>1. n # last
      BY <1>2, <2>1, EndsAtLast DEF MergesNext
    <3>2. e = NextBlock(mk, n)
      BY <2>1 DEF FreedTo
    <3>3. e \in DOMAIN mk /\ e = n + mk[n].next.size + MarkSize /\ n < e
      BY <1>2, <3>1, <3>2, LinkFacts
    <3>4. mk[n].next.size \in Nat /\ n \in Nat
      BY <1>2, MarkFacts
    <3>5. e # n /\ n <= e
      <4>1. e \in Nat
        BY <1>1, <3>3
      <4> QED  BY <3>3, <3>4, <4>1
    <3>6. ~mk[n].next.fill
      BY <2>1 DEF MergesNext
    <3> QED  BY <2>1, <3>1, <3>2, <3>3, <3>4, <3>5, <3>6
  <2>2. CASE ~MergesNext(mk, n)
    <3>1. e = n
      BY <2>2 DEF FreedTo
    <3>2. mk[n].next = Zero \/ mk[n].next.fill
      BY <2>2 DEF MergesNext, X32
    <3> QED  BY <1>1, <1>2, <2>2, <3>1, <3>2
  <2> QED  BY <2>1, <2>2
<1> DEFINE whole == Free(mk[s].next.size
                         + (IF f = s THEN 0 ELSE mk[f].next.size + MarkSize)
                         + (IF e = n THEN 0 ELSE mk[n].next.size + MarkSize))
           gone == ({s} \ {f}) \cup ({n} \ {e})
<1>5. whole = Free(e - f - MarkSize)
  <2>1. mk[s].next.size + (IF f = s THEN 0 ELSE mk[f].next.size + MarkSize)
          + (IF e = n THEN 0 ELSE mk[n].next.size + MarkSize) = e - f - MarkSize
    BY <1>1, <1>2, <1>3, <1>4
  <2> QED  BY <2>1
<1>6. mk[s].next.size > 0
  BY LinkFacts
<1>7. e - f - MarkSize \in Nat /\ e - f - MarkSize > 0
  BY <1>1, <1>2, <1>3, <1>4, <1>6
<1>8. Free(e - f - MarkSize) \in Half
  BY <1>7 DEF Free, Half
<1>9. new = [x \in DOMAIN mk \ gone |->
               CASE x = f -> [mk[f] EXCEPT !.next = whole]
                 [] x = e -> [mk[e] EXCEPT !.prev = whole]
                 [] OTHER -> mk[x]]
  BY DEF FreeBlock, FreedTo
<1> HIDE DEF whole
<1>10. f \notin gone /\ e \notin gone /\ f # e
  BY <1>1, <1>2, <1>3, <1>4
<1>11. DOMAIN new = DOMAIN mk \ gone
  BY <1>9
<1> HIDE DEF gone
<1>12. /\ mk[f] = [prev |-> mk[f].prev, next |-> mk[f].next]
       /\ mk[e] = [prev |-> mk[e].prev, next |-> mk[e].next]
  BY <1>1, <1>3, <1>4
<1>13. new[f] = [prev |-> mk[f].prev, next |-> whole]
  BY <1>3, <1>9, <1>10, <1>12
<1>14. new[e] = [prev |-> whole, next |-> mk[e].next]
  BY <1>4, <1>9, <1>10, <1>12
<1>15. \A x \in DOMAIN new : x # f /\ x # e => new[x] = mk[x]
  BY <1>9
<1>16. \A x \in DOMAIN new : new[x] \in [prev : Half, next : Half]
  BY <1>1, <1>3, <1>4, <1>5, <1>8, <1>11, <1>13, <1>14, <1>15
<1>17. /\ \A x \in DOMAIN new : x # f => new[x].next = mk[x].next
       /\ \A x \in DOMAIN new : x # e => new[x].prev = mk[x].prev
  BY <1>13, <1>14, <1>15
<1> QED  BY <1>2, <1>3, <1>4, <1>5, <1>7, <1>11, <1>13, <1>14, <1>16, <1>17 DEF gone

(* ... a sound chain.                                                      *)
LEMMA FreeChained ==
  ASSUME NEW mk, NEW last, Chained(mk, last), NEW s \in DOMAIN mk, s # last, mk[s].next.fill
  PROVE  Chained(FreeBlock(mk, s), last)
<1> DEFINE n == NextBlock(mk, s)
           f == FreedAt(mk, s)
           e == FreedTo(mk, s)
           new == FreeBlock(mk, s)
<1>1. /\ \A x \in DOMAIN mk : x \in Nat /\ x <= last
      /\ MarkSize \in Nat /\ MarkSize > 0 /\ last \in Nat /\ n = NextBlock(mk, s)
  BY MarkFacts
<1>2. /\ f \in DOMAIN mk /\ e \in DOMAIN mk /\ n \in DOMAIN mk /\ f # last
      /\ f <= s /\ s < n /\ n <= e
      /\ e - f - MarkSize > 0
      /\ f = s => s = 0 \/ mk[s].prev.fill
      /\ f # s => f = PrevBlock(mk, s) /\ NextBlock(mk, f) = s /\ ~mk[f].next.fill
      /\ e = n => mk[n].next = Zero \/ mk[n].next.fill
      /\ e # n => e = NextBlock(mk, n) /\ n # last /\ ~mk[n].next.fill
      /\ DOMAIN new = DOMAIN mk \ (({s} \ {f}) \cup ({n} \ {e}))
      /\ \A x \in DOMAIN new : new[x] \in [prev : Half, next : Half]
      /\ new[f].next = Free(e - f - MarkSize)
      /\ new[e].prev = Free(e - f - MarkSize)
      /\ \A x \in DOMAIN new : x # f => new[x].next = mk[x].next
      /\ \A x \in DOMAIN new : x # e => new[x].prev = mk[x].prev
  BY FreeEffect
<1> HIDE DEF n, f, e, new
<1>3. /\ Free(e - f - MarkSize).size = e - f - MarkSize /\ ~Free(e - f - MarkSize).fill
  BY DEF Free
<1>4. f \in DOMAIN new /\ e \in DOMAIN new /\ f # e /\ f < e /\ f \in Nat /\ e \in Nat
  BY <1>1, <1>2
<1>5. \A x \in DOMAIN new : x \in DOMAIN mk /\ (x <= f \/ e <= x)
  <2>1. \A x \in DOMAIN mk : x <= s \/ n <= x
    BY <1>1, LinkFacts
  <2>2. f # s => \A x \in DOMAIN mk : x <= f \/ s <= x
    BY <1>2, LinkFacts
  <2>3. e # n => \A x \in DOMAIN mk : x <= n \/ e <= x
    BY <1>2, LinkFacts
  <2>4. ASSUME NEW x \in DOMAIN new PROVE x \in DOMAIN mk /\ (x <= f \/ e <= x)
    <3>1. x \in DOMAIN mk /\ (x = s => f = s) /\ (x = n => e = n)
      BY <1>2
    <3>2. x <= s \/ n <= x
      BY <2>1, <3>1
    <3>3. x <= s => x <= f
      <4>1. CASE f = s
        BY <4>1
      <4>2. CASE f # s
        BY <1>1, <1>2, <2>2, <3>1, <4>2
      <4> QED  BY <4>1, <4>2
    <3>4. n <= x => e <= x
      <4>1. CASE e = n
        BY <4>1
      <4>2. CASE e # n
        BY <1>1, <1>2, <2>3, <3>1, <4>2
      <4> QED  BY <4>1, <4>2
    <3> QED  BY <3>1, <3>2, <3>3, <3>4
  <2> QED  BY <2>4
<1>6. Marked(new, last)
  <2>1. DOMAIN mk \subseteq 0 .. last /\ 0 \in DOMAIN mk /\ last \in DOMAIN mk
    BY DEF Chained, Marked
  <2>2. 0 \in DOMAIN new
    BY <1>1, <1>2, <2>1
  <2>3. last \in DOMAIN new
    BY <1>1, <1>2, <2>1
  <2> QED  BY <1>2, <1>5, <2>1, <2>2, <2>3 DEF Marked
<1>7. new[last].next = Zero /\ new[0].prev = Zero
  <2>1. e # 0 /\ f # last
    BY <1>2, <1>4
  <2> QED  BY <1>2, <1>6, <2>1 DEF Chained, Marked
<1>8. NextBlock(new, f) = e /\ PrevBlock(new, e) = f
  BY <1>1, <1>2, <1>3, <1>4 DEF NextBlock, PrevBlock
<1>9. \A x \in DOMAIN new : x # f => NextBlock(new, x) = NextBlock(mk, x)
  BY <1>2 DEF NextBlock
<1>10. \A x \in DOMAIN new : x # e => PrevBlock(new, x) = PrevBlock(mk, x)
  BY <1>2 DEF PrevBlock
<1>11. ASSUME NEW x \in DOMAIN new, x # last PROVE Linked(new, x)
  <2>1. CASE x = f
    <3>1. new[e].next = Zero \/ new[e].next.fill
      <4>1. new[e].next = mk[e].next
        BY <1>2, <1>4
      <4>2. CASE e = n
        BY <1>2, <4>1, <4>2
      <4>3. CASE e # n
        <5>1. mk[n].next.fill \/ mk[NextBlock(mk, n)].next = Zero \/ mk[NextBlock(mk, n)].next.fill
          BY <1>2, <4>3, LinkFacts
        <5> QED  BY <1>2, <4>1, <4>3, <5>1
      <4> QED  BY <4>2, <4>3
    <3>2. \A y \in DOMAIN new : y <= f \/ e <= y
      BY <1>5
    <3> QED  BY <1>2, <1>3, <1>4, <1>8, <2>1, <3>1, <3>2 DEF Linked
  <2>2. CASE x # f
    <3> DEFINE y == NextBlock(mk, x)
    <3>0. x \in DOMAIN mk /\ (x = s => f = s) /\ (x = n => e = n) /\ x # s
      BY <1>2, <2>2
    <3>1. /\ y \in DOMAIN mk /\ mk[x].next.size > 0
          /\ mk[y].prev = mk[x].next
          /\ \A z \in DOMAIN mk : z <= x \/ y <= z
          /\ mk[x].next.fill \/ mk[y].next = Zero \/ mk[y].next.fill
      BY <1>11, <3>0, LinkFacts
    <3>2. PrevBlock(mk, y) = x
      BY <1>11, <3>0, NextInverse
    <3>3. y # n
      BY <3>0, <3>2, <1>1, NextInverse
    <3>4. y = s => f = s
      BY <1>2, <2>2, <3>2
    <3>5. y \in DOMAIN new
      BY <1>2, <3>1, <3>3, <3>4
    <3>6. y # e
      <4>1. CASE e = n
        BY <3>3, <4>1
      <4>2. CASE e # n
        <5>1. PrevBlock(mk, e) = n /\ x # n
          BY <1>2, <3>0, <4>2, NextInverse
        <5> QED  BY <3>2, <5>1
      <4> QED  BY <4>1, <4>2
    <3>7. NextBlock(new, x) = y
      BY <1>9, <2>2
    <3> HIDE DEF y
    <3>8. new[y].prev = mk[y].prev /\ new[x].next = mk[x].next
      BY <1>2, <2>2, <3>5, <3>6
    <3>9. \A z \in DOMAIN new : z <= x \/ y <= z
      BY <1>5, <3>1
    <3>10. new[x].next.fill \/ new[y].next = Zero \/ new[y].next.fill
      <4>1. CASE y # f
        BY <1>2, <3>1, <3>5, <3>8, <4>1
      <4>2. CASE y = f /\ f = s
        <5>1. s # 0
          BY <3>0, <1>11, <4>2, NextInverse DEF y
        <5>2. mk[s].prev.fill
          BY <1>2, <4>2, <5>1
        <5> QED  BY <3>1, <3>8, <4>2, <5>2
      <4>3. CASE y = f /\ f # s
        <5>1. ~mk[f].next.fill
          BY <1>2, <4>3
        <5>2. mk[f].next # Zero
          BY <1>2, EndsAtLast DEF X32
        <5> QED  BY <3>1, <3>8, <4>3, <5>1, <5>2
      <4> QED  BY <4>1, <4>2, <4>3
    <3> QED  BY <3>1, <3>5, <3>7, <3>8, <3>9, <3>10 DEF Linked
  <2> QED  BY <2>1, <2>2
<1>12. ASSUME NEW x \in DOMAIN new, x # 0 PROVE LinkedBack(new, x)
  <2>1. CASE x = e
    BY <1>4, <1>8, <2>1 DEF LinkedBack
  <2>2. CASE x # e
    <3> DEFINE p == PrevBlock(mk, x)
    <3>0. x \in DOMAIN mk /\ (x = s => f = s) /\ (x = n => e = n) /\ x # n
      BY <1>2, <2>2
    <3>1. p \in DOMAIN mk /\ NextBlock(mk, p) = x
      BY <1>12, <3>0, BackFacts
    <3> HIDE DEF p
    <3>2. p # s
      BY <1>1, <3>0, <3>1
    <3>3. p = n => e = n
      BY <1>2, <2>2, <3>1
    <3>4. p \in DOMAIN new
      BY <1>2, <3>1, <3>2, <3>3
    <3>5. p # f
      <4>1. CASE f = s
        BY <3>2, <4>1
      <4>2. CASE f # s
        <5>1. NextBlock(mk, f) = s /\ x # s
          BY <1>2, <3>0, <4>2
        <5> QED  BY <3>1, <5>1
      <4> QED  BY <4>1, <4>2
    <3>6. PrevBlock(new, x) = p
      BY <1>10, <2>2 DEF p
    <3>7. NextBlock(new, p) = x
      BY <1>9, <3>1, <3>4, <3>5
    <3> QED  BY <3>4, <3>6, <3>7 DEF LinkedBack
  <2> QED  BY <2>1, <2>2
<1> QED  BY <1>1, <1>6, <1>7, <1>11, <1>12 DEF Chained, new

-----------------------------------------------------------------------------
(* A sound chain is what ChainSound finds by walking.                      *)
LEMMA ChainedIsSound ==
  ASSUME NEW mk, NEW bsize, Chained(mk, LastBlock(bsize)), LastBlock(bsize) # 0
  PROVE  ChainSound(mk, bsize)
<1> DEFINE last == LastBlock(bsize)
           subs == Subblocks(mk, 0)
<1>1. 0 \in DOMAIN mk /\ last \in DOMAIN mk
  BY DEF Chained, Marked
<1>2. subs = {x \in DOMAIN mk : 0 <= x /\ x # last}
  BY <1>1, SubblocksAre
<1>3. subs = {x \in DOMAIN mk : x # last}
  BY <1>2, MarkFacts
<1>4. DOMAIN mk = subs \cup {last} /\ last \notin subs
  BY <1>1, <1>3
<1>5. ~X32(mk[last].next) /\ ~X32(mk[0].prev)
  BY <1>1, EndsAtLast, EndsAtFirst
<1>6. ASSUME NEW m \in subs
      PROVE  /\ NextBlock(mk, m) \in DOMAIN mk
             /\ mk[NextBlock(mk, m)].prev = mk[m].next
             /\ X32(mk[NextBlock(mk, m)].next) =>
                  (mk[m].next.fill \/ mk[NextBlock(mk, m)].next.fill)
  BY <1>3, LinkFacts DEF X32
<1> HIDE DEF subs, last
<1> QED  BY <1>4, <1>5, <1>6 DEF ChainSound, subs, last

-----------------------------------------------------------------------------
(* The filled subblocks: allocBlock adds one, freeBlock takes one away, and*)
(* neither touches another.                                                *)
FilledOf(mk) == {x \in DOMAIN mk : mk[x].next.fill}

(* allocBlock fills one subblock, and leaves the filled ones alone, ...    *)
LEMMA AllocFills ==
  ASSUME NEW mk, NEW last, Chained(mk, last), NEW s \in DOMAIN mk, NEW size \in Nat \ {0},
         Roomy(mk, last, size, s),
         NEW new, new = AllocBlock(mk, s, size)
  PROVE  /\ s \notin FilledOf(mk) /\ FilledOf(new) = FilledOf(mk) \cup {s}
         /\ \A x \in FilledOf(mk) : new[x].next = mk[x].next
         /\ new[s].next.size >= size /\ new[s].next.size \in Nat
<1> DEFINE n == NextBlock(mk, s)
           m == CutAt(mk, s, size)
           got == GotBy(mk, s, size)
<1>1. /\ got \in Nat /\ got >= size
      /\ DOMAIN new = DOMAIN mk \cup {m}
      /\ new[s].next = Filled(got)
      /\ m # n => m \notin DOMAIN mk /\ new[m].next = Free(n - m - MarkSize)
      /\ \A x \in DOMAIN mk : x # s => new[x].next = mk[x].next
  BY AllocEffect
<1>2. n \in DOMAIN mk /\ s # last /\ ~mk[s].next.fill
  BY LinkFacts DEF Roomy
<1> HIDE DEF n, m, got
<1>3. Filled(got).fill /\ Filled(got).size = got /\ ~Free(n - m - MarkSize).fill
  BY DEF Filled, Free
<1>4. ASSUME NEW x \in DOMAIN new PROVE new[x].next.fill <=> x = s \/ x \in FilledOf(mk)
  <2>1. CASE x \in DOMAIN mk /\ x # s
    BY <1>1, <2>1 DEF FilledOf
  <2>2. CASE x = s
    BY <1>1, <1>3, <2>2
  <2>3. CASE x \notin DOMAIN mk
    <3>1. x = m /\ m # n /\ x # s
      BY <1>1, <1>2, <2>3
    <3> QED  BY <1>1, <1>3, <2>3, <3>1 DEF FilledOf
  <2> QED  BY <2>1, <2>2, <2>3
<1>5. s \in DOMAIN new /\ \A x \in FilledOf(mk) : x \in DOMAIN new
  BY <1>1 DEF FilledOf
<1>6. FilledOf(new) = FilledOf(mk) \cup {s}
  BY <1>4, <1>5 DEF FilledOf
<1>7. s \notin FilledOf(mk)
  BY <1>2 DEF FilledOf
<1>8. \A x \in FilledOf(mk) : new[x].next = mk[x].next
  BY <1>1, <1>7 DEF FilledOf
<1> QED  BY <1>1, <1>3, <1>6, <1>7, <1>8

(* and freeBlock gives back that one.                                      *)
LEMMA FreeFills ==
  ASSUME NEW mk, NEW last, Chained(mk, last), NEW s \in DOMAIN mk, s # last, mk[s].next.fill,
         NEW new, new = FreeBlock(mk, s)
  PROVE  /\ FilledOf(new) = FilledOf(mk) \ {s}
         /\ \A x \in FilledOf(new) : new[x].next = mk[x].next
<1> DEFINE n == NextBlock(mk, s)
           f == FreedAt(mk, s)
           e == FreedTo(mk, s)
<1>1. /\ f \in DOMAIN mk /\ e \in DOMAIN mk /\ n \in DOMAIN mk
      /\ f # s => f = PrevBlock(mk, s) /\ NextBlock(mk, f) = s /\ ~mk[f].next.fill
      /\ e # n => e = NextBlock(mk, n) /\ n # last /\ ~mk[n].next.fill
      /\ DOMAIN new = DOMAIN mk \ (({s} \ {f}) \cup ({n} \ {e}))
      /\ new[f].next = Free(e - f - MarkSize)
      /\ \A x \in DOMAIN new : x # f => new[x].next = mk[x].next
  BY FreeEffect
<1> HIDE DEF n, f, e
<1>2. ~new[f].next.fill
  BY <1>1 DEF Free
<1>3. ASSUME NEW x PROVE x \in FilledOf(new) <=> x \in FilledOf(mk) /\ x # s
  <2>1. CASE x \in DOMAIN new /\ x # f
    BY <1>1, <2>1 DEF FilledOf
  <2>2. CASE x = f
    BY <1>1, <1>2, <2>2 DEF FilledOf
  <2>3. CASE x \notin DOMAIN new /\ x # f
    BY <1>1, <2>3 DEF FilledOf
  <2> QED  BY <2>1, <2>2, <2>3
<1>4. \A x \in FilledOf(new) : x \in DOMAIN new /\ x # f
  BY <1>2 DEF FilledOf
<1> QED  BY <1>1, <1>3, <1>4

-----------------------------------------------------------------------------
(* What is recorded as the largest free subblock is one of them, or 0, and *)
(* no smaller than any that is worth a mark.                               *)
FreeSub(mk, last, x) == x # last /\ ~mk[x].next.fill
MaxFreeOK(mk, last, maxfree) ==
  /\ maxfree \in Nat
  /\ maxfree # 0 => \E x \in DOMAIN mk : FreeSub(mk, last, x) /\ mk[x].next.size = maxfree
  /\ \A x \in DOMAIN mk :
       FreeSub(mk, last, x) /\ mk[x].next.size >= MarkSize => mk[x].next.size <= maxfree

(* It is when it is computed from the end ...                              *)
LEMMA MaxFreeFromEnd ==
  ASSUME NEW mk, NEW bsize, Chained(mk, LastBlock(bsize))
  PROVE  MaxFreeOK(mk, LastBlock(bsize), GetMaxFreeBack(mk, bsize))
<1> DEFINE last == LastBlock(bsize)
           M == MarksBefore(mk, last)
           r == GetMaxFreeBack(mk, bsize)
<1>1. r = Worth(Greatest(SizesIn(mk, M, 0))) /\ M \in SUBSET DOMAIN mk
  BY MaxFreeBackIs DEF MarksBefore
<1>2. \A x \in DOMAIN mk : x # last => x \in M
  BY MarkFacts DEF MarksBefore
<1> HIDE DEF M, r
<1>3. /\ r \in Nat
      /\ r # 0 => \E x \in M : x # last /\ ~mk[x].next.fill /\ mk[x].next.size = r
      /\ \A x \in M : ~mk[x].next.fill /\ mk[x].next.size >= MarkSize => mk[x].next.size <= r
  BY <1>1, WorthGreatest
<1> QED  BY <1>1, <1>2, <1>3 DEF MaxFreeOK, FreeSub, r

(* ... or from a mark that no free subblock lies before,                   *)
LEMMA MaxFreeFromStart ==
  ASSUME NEW mk, NEW last, Chained(mk, last), NEW start \in DOMAIN mk,
         \A x \in DOMAIN mk : x < start => mk[x].next.fill
  PROVE  MaxFreeOK(mk, last, GetMaxFreeFrom(mk, start))
<1> DEFINE M == MarksFrom(mk, start)
           r == GetMaxFreeFrom(mk, start)
<1>1. r = Worth(Greatest(SizesIn(mk, M, 0))) /\ M \in SUBSET DOMAIN mk
  BY MaxFreeFromIs DEF MarksFrom
<1>2. \A x \in DOMAIN mk : ~mk[x].next.fill => x \in M
  BY MarkFacts DEF MarksFrom
<1> HIDE DEF M, r
<1>3. /\ r \in Nat
      /\ r # 0 => \E x \in M : x # last /\ ~mk[x].next.fill /\ mk[x].next.size = r
      /\ \A x \in M : ~mk[x].next.fill /\ mk[x].next.size >= MarkSize => mk[x].next.size <= r
  BY <1>1, WorthGreatest
<1> QED  BY <1>1, <1>2, <1>3 DEF MaxFreeOK, FreeSub, r

(* when a subblock of another size is filled,                              *)
LEMMA MaxFreeStays ==
  ASSUME NEW mk, NEW last, Chained(mk, last), NEW s \in DOMAIN mk, NEW size \in Nat \ {0},
         Roomy(mk, last, size, s), NEW maxfree, MaxFreeOK(mk, last, maxfree),
         mk[s].next.size # maxfree, maxfree # 0
  PROVE  MaxFreeOK(AllocBlock(mk, s, size), last, maxfree)
<1> DEFINE n == NextBlock(mk, s)
           m == CutAt(mk, s, size)
           got == GotBy(mk, s, size)
           new == AllocBlock(mk, s, size)
<1>1. /\ DOMAIN new = DOMAIN mk \cup {m} /\ m \in Nat
      /\ new[s].next = Filled(got)
      /\ m # n => /\ m \notin DOMAIN mk
                  /\ n - m - MarkSize > 0 /\ n - m - MarkSize < mk[s].next.size
                  /\ new[m].next = Free(n - m - MarkSize)
      /\ \A x \in DOMAIN mk : x # s => new[x].next = mk[x].next
  BY AllocEffect
<1>2. n \in DOMAIN mk /\ n \in Nat /\ s # last /\ ~mk[s].next.fill /\ mk[s].next.size \in Nat
      /\ MarkSize \in Nat
  BY LinkFacts, MarkFacts DEF Roomy
<1> HIDE DEF n, m, got, new
<1>3. Filled(got).fill /\ Free(n - m - MarkSize).size = n - m - MarkSize
  BY DEF Filled, Free
<1>4. \E x \in DOMAIN new : FreeSub(new, last, x) /\ new[x].next.size = maxfree
  <2>1. PICK x \in DOMAIN mk : FreeSub(mk, last, x) /\ mk[x].next.size = maxfree
    BY DEF MaxFreeOK
  <2>2. x # s
    BY <2>1
  <2> QED  BY <1>1, <2>1, <2>2 DEF FreeSub
<1>5. ASSUME NEW x \in DOMAIN new, FreeSub(new, last, x), new[x].next.size >= MarkSize
      PROVE  new[x].next.size <= maxfree
  <2>1. CASE x \in DOMAIN mk
    <3>1. x # s
      BY <1>1, <1>3, <1>5 DEF FreeSub
    <3> QED  BY <1>1, <1>5, <2>1, <3>1 DEF FreeSub, MaxFreeOK
  <2>2. CASE x \notin DOMAIN mk
    <3>1. x = m /\ m # n
      BY <1>1, <1>2, <2>2
    <3>2. new[x].next.size = n - m - MarkSize /\ n - m - MarkSize < mk[s].next.size
      BY <1>1, <1>3, <3>1
    <3>3. mk[s].next.size >= MarkSize
      BY <1>1, <1>2, <1>5, <3>2
    <3>4. mk[s].next.size <= maxfree
      BY <1>2, <3>3 DEF MaxFreeOK, FreeSub
    <3> QED  BY <1>1, <1>2, <3>2, <3>4 DEF MaxFreeOK
  <2> QED  BY <2>1, <2>2
<1> QED  BY <1>4, <1>5 DEF MaxFreeOK, new

(* and when it is raised to what a free returns.                           *)
LEMMA MaxFreeRaised ==
  ASSUME NEW mk, NEW last, Chained(mk, last), NEW s \in DOMAIN mk, s # last, mk[s].next.fill,
         NEW maxfree, MaxFreeOK(mk, last, maxfree),
         NEW new, new = FreeBlock(mk, s),
         NEW got, got = new[FreedAt(mk, s)].next.size
  PROVE  /\ got \in Nat
         /\ MaxFreeOK(new, last, IF maxfree < got THEN got ELSE maxfree)
<1> DEFINE n == NextBlock(mk, s)
           f == FreedAt(mk, s)
           e == FreedTo(mk, s)
<1>1. /\ f \in DOMAIN mk /\ e \in DOMAIN mk /\ n \in DOMAIN mk /\ f # last
      /\ f <= s /\ s < n /\ n <= e
      /\ e - f - MarkSize > 0
      /\ f # s => f = PrevBlock(mk, s) /\ NextBlock(mk, f) = s /\ ~mk[f].next.fill
      /\ e # n => e = NextBlock(mk, n) /\ n # last /\ ~mk[n].next.fill
      /\ DOMAIN new = DOMAIN mk \ (({s} \ {f}) \cup ({n} \ {e}))
      /\ new[f].next = Free(e - f - MarkSize)
      /\ \A x \in DOMAIN new : x # f => new[x].next = mk[x].next
  BY FreeEffect
<1>2. \A x \in DOMAIN mk : x \in Nat /\ mk[x].next.size \in Nat /\ MarkSize \in Nat /\ MarkSize > 0
  BY MarkFacts
<1>3. got = e - f - MarkSize /\ ~new[f].next.fill
  BY <1>1 DEF Free
<1>4. f # s => mk[f].next.size = s - f - MarkSize
  BY <1>1, <1>2 DEF NextBlock
<1>5. e # n => mk[n].next.size = e - n - MarkSize
  BY <1>1, <1>2 DEF NextBlock
<1> HIDE DEF n, f, e
<1>6. got \in Nat /\ got > 0 /\ maxfree \in Nat
  BY <1>1, <1>2, <1>3 DEF MaxFreeOK
<1>7. f \in DOMAIN new /\ FreeSub(new, last, f) /\ new[f].next.size = got
  <2>1. f # n
    BY <1>1, <1>2
  <2>2. f \in DOMAIN new
    BY <1>1, <2>1
  <2> QED  BY <1>1, <1>3, <2>2 DEF FreeSub, Free
<1>8. CASE maxfree < got
  <2>1. ASSUME NEW x \in DOMAIN new, FreeSub(new, last, x), new[x].next.size >= MarkSize
        PROVE  new[x].next.size <= got
    <3>1. CASE x = f
      BY <1>6, <1>7, <3>1
    <3>2. CASE x # f
      <4>1. x \in DOMAIN mk /\ new[x].next = mk[x].next
        BY <1>1, <3>2
      <4>2. mk[x].next.size <= maxfree
        BY <2>1, <4>1 DEF MaxFreeOK, FreeSub
      <4> QED  BY <1>2, <1>6, <1>8, <4>1, <4>2
    <3> QED  BY <3>1, <3>2
  <2> QED  BY <1>6, <1>7, <1>8, <2>1 DEF MaxFreeOK
<1>9. CASE ~(maxfree < got)
  <2>1. PICK x \in DOMAIN mk : FreeSub(mk, last, x) /\ mk[x].next.size = maxfree
    BY <1>6, <1>9 DEF MaxFreeOK
  <2>2. x # s
    BY <2>1 DEF FreeSub
  <2>3. x # f
    BY <1>1, <1>2, <1>3, <1>4, <1>9, <2>1, <2>2
  <2>4. e # n => x # n
    BY <1>1, <1>2, <1>3, <1>5, <1>9, <2>1
  <2>5. x \in DOMAIN new /\ new[x].next = mk[x].next
    BY <1>1, <2>2, <2>3, <2>4
  <2>6. \E y \in DOMAIN new : FreeSub(new, last, y) /\ new[y].next.size = maxfree
    BY <2>1, <2>5 DEF FreeSub
  <2>7. ASSUME NEW y \in DOMAIN new, FreeSub(new, last, y), new[y].next.size >= MarkSize
        PROVE  new[y].next.size <= maxfree
    <3>1. CASE y = f
      BY <1>6, <1>7, <1>9, <3>1
    <3>2. CASE y # f
      <4>1. y \in DOMAIN mk /\ new[y].next = mk[y].next
        BY <1>1, <3>2
      <4> QED  BY <2>7, <4>1 DEF MaxFreeOK, FreeSub
    <3> QED  BY <3>1, <3>2
  <2> QED  BY <1>6, <1>9, <2>6, <2>7 DEF MaxFreeOK
<1> QED  BY <1>6, <1>8, <1>9

-----------------------------------------------------------------------------
(* A list, whatever is in it.                                              *)
IsList(s) == s \in Seq({s[i] : i \in DOMAIN s})

(* A function on 1 .. n is a list.                                         *)
LEMMA FunctionIsList ==
  ASSUME NEW S, NEW n \in Nat, NEW r \in [1 .. n -> S]
  PROVE  r \in Seq(S)
BY SeqDef

(* One element of a list replaced, or one added.                           *)
LEMMA ListChanged ==
  ASSUME NEW s, IsList(s), NEW i \in DOMAIN s, NEW x
  PROVE  /\ IsList([s EXCEPT ![i] = x])
         /\ DOMAIN [s EXCEPT ![i] = x] = DOMAIN s
         /\ \A j \in DOMAIN s : [s EXCEPT ![i] = x][j] = IF j = i THEN x ELSE s[j]
<1> DEFINE S == {s[j] : j \in DOMAIN s}
           r == [s EXCEPT ![i] = x]
           R == {r[j] : j \in DOMAIN r}
<1>1. s \in Seq(S)
  BY DEF IsList
<1>2. DOMAIN s = 1 .. Len(s) /\ Len(s) \in Nat /\ s \in [1 .. Len(s) -> S]
  BY <1>1
<1>3. DOMAIN r = DOMAIN s /\ \A j \in DOMAIN s : r[j] = IF j = i THEN x ELSE s[j]
  BY <1>2
<1>4. r \in [1 .. Len(s) -> R]
  BY <1>2, <1>3
<1>5. r \in Seq(R)
  BY <1>2, <1>4, FunctionIsList
<1> QED  BY <1>3, <1>5 DEF IsList

(* A list with an element appended.                                        *)
LEMMA ListGrown ==
  ASSUME NEW s, IsList(s), NEW x
  PROVE  /\ IsList(Append(s, x)) /\ Len(s) \in Nat
         /\ DOMAIN s = 1 .. Len(s) /\ DOMAIN Append(s, x) = 1 .. Len(s) + 1
         /\ \A j \in 1 .. Len(s) : Append(s, x)[j] = s[j]
         /\ Append(s, x)[Len(s) + 1] = x
<1> DEFINE S == {s[j] : j \in DOMAIN s} \cup {x}
           r == Append(s, x)
           R == {r[j] : j \in DOMAIN r}
<1>1. s \in Seq({s[j] : j \in DOMAIN s})
  BY DEF IsList
<1>2. s \in Seq(S) /\ x \in S
  BY <1>1
<1>3. /\ r \in Seq(S) /\ Len(s) \in Nat /\ Len(r) = Len(s) + 1
      /\ DOMAIN s = 1 .. Len(s) /\ DOMAIN r = 1 .. Len(r)
      /\ \A j \in 1 .. Len(s) : r[j] = s[j]
      /\ r[Len(s) + 1] = x
  BY <1>2
<1> HIDE DEF r, S
<1>4. r \in [1 .. Len(r) -> S] /\ Len(r) \in Nat
  BY <1>3
<1>5. r \in [1 .. Len(r) -> R]
  BY <1>3, <1>4
<1>6. r \in Seq(R)
  BY <1>4, <1>5, FunctionIsList
<1> QED  BY <1>3, <1>6 DEF IsList, r

-----------------------------------------------------------------------------
(* A list of blocks, or maps, each with its chain.                         *)
AllChained(bs) == \A i \in DOMAIN bs : \E last : Chained(bs[i].mk, last)

(* The pointers to the filled subblocks of a list, and how large they are. *)
FilledIn(bs) == UNION {{<<i, m + MarkSize>> : m \in FilledOf(bs[i].mk)} : i \in DOMAIN bs}
SizeIn(bs, p) == bs[p[1]].mk[p[2] - MarkSize].next.size

(* The pointer to a filled subblock.                                       *)
LEMMA InFilled ==
  ASSUME NEW bs, NEW i \in DOMAIN bs, NEW m \in FilledOf(bs[i].mk)
  PROVE  <<i, m + MarkSize>> \in FilledIn(bs)
BY DEF FilledIn

(* The parts of a pointer into a list.                                     *)
LEMMA PointerParts ==
  ASSUME NEW bs, AllChained(bs), NEW p \in FilledIn(bs)
  PROVE  /\ p = <<p[1], p[2]>> /\ p[1] \in DOMAIN bs /\ p[2] \in Nat
         /\ p[2] - MarkSize \in FilledOf(bs[p[1]].mk)
         /\ p[2] - MarkSize \in DOMAIN bs[p[1]].mk /\ p[2] - MarkSize \in Nat
<1>1. /\ p = <<p[1], p[2]>> /\ p[1] \in DOMAIN bs
      /\ \E x \in FilledOf(bs[p[1]].mk) : p[2] = x + MarkSize
  BY DEF FilledIn
<1> DEFINE mk == bs[p[1]].mk
<1>2. PICK last : Chained(mk, last)
  BY <1>1 DEF AllChained
<1>3. PICK x \in FilledOf(mk) : p[2] = x + MarkSize
  BY <1>1
<1>4. x \in DOMAIN mk
  BY DEF FilledOf
<1>5. x \in Nat /\ MarkSize \in Nat
  BY <1>2, <1>4, MarkFacts
<1> HIDE DEF mk
<1>6. p[2] - MarkSize = x /\ p[2] \in Nat
  BY <1>3, <1>5
<1> QED  BY <1>1, <1>3, <1>4, <1>5, <1>6 DEF mk

-----------------------------------------------------------------------------
(* What is filled in a list whose block i has changed: one subblock more,  *)
(* or one less.                                                            *)
LEMMA FilledAdds ==
  ASSUME NEW bs, AllChained(bs), NEW new, AllChained(new), NEW i \in DOMAIN new, NEW s \in Nat,
         DOMAIN bs \subseteq DOMAIN new,
         DOMAIN new \subseteq DOMAIN bs \cup {i},
         \A j \in DOMAIN bs : j # i => new[j] = bs[j],
         s \in FilledOf(new[i].mk),
         i \in DOMAIN bs => /\ s \notin FilledOf(bs[i].mk)
                            /\ FilledOf(new[i].mk) = FilledOf(bs[i].mk) \cup {s}
                            /\ \A x \in FilledOf(bs[i].mk) : new[i].mk[x].next = bs[i].mk[x].next,
         i \notin DOMAIN bs => FilledOf(new[i].mk) = {s},
         NEW p, p = <<i, s + MarkSize>>
  PROVE  /\ p \notin FilledIn(bs) /\ FilledIn(new) = FilledIn(bs) \cup {p}
         /\ \A q \in FilledIn(bs) : SizeIn(new, q) = SizeIn(bs, q)
         /\ SizeIn(new, p) = new[i].mk[s].next.size
<1>1. MarkSize \in Nat /\ (s + MarkSize) - MarkSize = s
  BY MarkSizeAssumption
<1>2. p \notin FilledIn(bs)
  <2> SUFFICES ASSUME p \in FilledIn(bs) PROVE FALSE
    OBVIOUS
  <2>1. i \in DOMAIN bs /\ (s + MarkSize) - MarkSize \in FilledOf(bs[i].mk)
    BY PointerParts
  <2> QED  BY <1>1, <2>1
<1>3. ASSUME NEW q \in FilledIn(bs)
      PROVE  q \in FilledIn(new) /\ SizeIn(new, q) = SizeIn(bs, q)
  <2> DEFINE j == q[1]
             m == q[2] - MarkSize
  <2>1. q = <<j, q[2]>> /\ j \in DOMAIN bs /\ q[2] \in Nat /\ m \in FilledOf(bs[j].mk) /\ m \in Nat
    BY PointerParts
  <2>2. q = <<j, m + MarkSize>>
    BY <1>1, <2>1
  <2>3. SizeIn(new, q) = new[j].mk[m].next.size /\ SizeIn(bs, q) = bs[j].mk[m].next.size
    BY DEF SizeIn
  <2> HIDE DEF j, m
  <2>4. m \in FilledOf(new[j].mk) /\ new[j].mk[m].next = bs[j].mk[m].next
    BY <2>1
  <2>5. q \in FilledIn(new)
    BY <2>1, <2>2, <2>4, InFilled
  <2> QED  BY <2>3, <2>4, <2>5
<1>4. p \in FilledIn(new) /\ SizeIn(new, p) = new[i].mk[s].next.size
  BY <1>1, InFilled DEF SizeIn
<1>5. ASSUME NEW q \in FilledIn(new), q # p PROVE q \in FilledIn(bs)
  <2> DEFINE j == q[1]
             m == q[2] - MarkSize
  <2>1. q = <<j, q[2]>> /\ j \in DOMAIN new /\ q[2] \in Nat /\ m \in FilledOf(new[j].mk) /\ m \in Nat
    BY PointerParts
  <2>2. q = <<j, m + MarkSize>>
    BY <1>1, <2>1
  <2> HIDE DEF j, m
  <2>3. j = i => m # s
    BY <1>5, <2>2
  <2>4. j \in DOMAIN bs /\ m \in FilledOf(bs[j].mk)
    BY <2>1, <2>3
  <2> QED  BY <2>1, <2>2, <2>4, InFilled
<1>6. FilledIn(new) = FilledIn(bs) \cup {p}
  BY <1>3, <1>4, <1>5
<1> QED  BY <1>2, <1>3, <1>4, <1>6

(* The filled subblocks of a list of chains when one is given back.        *)
LEMMA FilledRemoves ==
  ASSUME NEW bs, AllChained(bs), NEW new, AllChained(new), NEW p \in FilledIn(bs),
         DOMAIN new = DOMAIN bs,
         \A j \in DOMAIN bs : j # p[1] => new[j] = bs[j],
         FilledOf(new[p[1]].mk) = FilledOf(bs[p[1]].mk) \ {p[2] - MarkSize},
         \A x \in FilledOf(new[p[1]].mk) : new[p[1]].mk[x].next = bs[p[1]].mk[x].next
  PROVE  /\ FilledIn(new) = FilledIn(bs) \ {p}
         /\ \A q \in FilledIn(new) : SizeIn(new, q) = SizeIn(bs, q)
<1>0. MarkSize \in Nat
  BY MarkSizeAssumption
<1>1. p = <<p[1], p[2]>> /\ p[1] \in DOMAIN bs /\ p[2] \in Nat /\ p[2] - MarkSize \in Nat
  BY PointerParts
<1>2. ASSUME NEW q \in FilledIn(new)
      PROVE  q \in FilledIn(bs) /\ q # p /\ SizeIn(new, q) = SizeIn(bs, q)
  <2> DEFINE j == q[1]
             m == q[2] - MarkSize
  <2>1. q = <<j, q[2]>> /\ j \in DOMAIN new /\ q[2] \in Nat /\ m \in FilledOf(new[j].mk) /\ m \in Nat
    BY PointerParts
  <2>2. q = <<j, m + MarkSize>>
    BY <1>0, <2>1
  <2>3. SizeIn(new, q) = new[j].mk[m].next.size /\ SizeIn(bs, q) = bs[j].mk[m].next.size
    BY DEF SizeIn
  <2>4. q # p
    BY <2>1
  <2> HIDE DEF j, m
  <2>5. m \in FilledOf(bs[j].mk) /\ new[j].mk[m].next = bs[j].mk[m].next
    BY <2>1
  <2>6. q \in FilledIn(bs)
    BY <2>1, <2>2, <2>5, InFilled
  <2> QED  BY <2>3, <2>4, <2>5, <2>6
<1>3. ASSUME NEW q \in FilledIn(bs), q # p PROVE q \in FilledIn(new)
  <2> DEFINE j == q[1]
             m == q[2] - MarkSize
  <2>1. q = <<j, q[2]>> /\ j \in DOMAIN bs /\ q[2] \in Nat /\ m \in FilledOf(bs[j].mk) /\ m \in Nat
    BY PointerParts
  <2>2. q = <<j, m + MarkSize>>
    BY <1>0, <2>1
  <2>3. j = p[1] => m # p[2] - MarkSize
    BY <1>0, <1>1, <1>3, <2>1
  <2> HIDE DEF j, m
  <2>4. m \in FilledOf(new[j].mk)
    BY <2>1, <2>3
  <2> QED  BY <2>1, <2>2, <2>4, InFilled
<1> QED  BY <1>2, <1>3

(* The size of a filled subblock is a number above 0, and it ends before   *)
(* the next mark.                                                          *)
LEMMA FilledAway ==
  ASSUME NEW bs, AllChained(bs), NEW p \in FilledIn(bs), NEW x \in DOMAIN bs[p[1]].mk
  PROVE  /\ SizeIn(bs, p) \in Nat /\ SizeIn(bs, p) > 0 /\ x \in Nat
         /\ x < p[2] /\ x # p[2] - MarkSize => x < p[2] - MarkSize
         /\ x >= p[2] => x >= p[2] + SizeIn(bs, p)
<1> DEFINE mk == bs[p[1]].mk
           m == p[2] - MarkSize
<1>1. p[1] \in DOMAIN bs /\ p[2] \in Nat /\ m \in DOMAIN mk /\ mk[m].next.fill
  BY PointerParts DEF FilledOf
<1>2. PICK last : Chained(mk, last)
  BY <1>1 DEF AllChained
<1>3. m # last
  BY <1>1, <1>2 DEF Chained, Zero
<1>4. x \in DOMAIN mk
  OBVIOUS
<1>5. SizeIn(bs, p) = mk[m].next.size
  BY DEF SizeIn
<1> HIDE DEF mk
<1>6. /\ NextBlock(mk, m) = m + mk[m].next.size + MarkSize /\ mk[m].next.size > 0
      /\ x <= m \/ NextBlock(mk, m) <= x
  BY <1>1, <1>2, <1>3, <1>4, LinkFacts
<1>7. /\ m \in Nat /\ x \in Nat /\ MarkSize \in Nat /\ MarkSize > 0 /\ mk[m].next.size \in Nat
  BY <1>1, <1>2, <1>4, MarkFacts
<1> QED  BY <1>1, <1>5, <1>6, <1>7

(* A filled subblock is not empty.                                         *)
LEMMA FilledNat ==
  ASSUME NEW bs, AllChained(bs), NEW p \in FilledIn(bs)
  PROVE  SizeIn(bs, p) \in Nat /\ SizeIn(bs, p) > 0
BY PointerParts, FilledAway

(* Two filled subblocks of a block lie apart.                              *)
LEMMA FilledApart ==
  ASSUME NEW bs, AllChained(bs), NEW p \in FilledIn(bs), NEW q \in FilledIn(bs), p # q,
         p[1] = q[1]
  PROVE  p[2] + SizeIn(bs, p) < q[2] \/ q[2] + SizeIn(bs, q) < p[2]
<1> DEFINE m == p[2] - MarkSize
           k == q[2] - MarkSize
<1>1. /\ p = <<p[1], p[2]>> /\ q = <<q[1], q[2]>> /\ p[2] \in Nat /\ q[2] \in Nat
      /\ m \in DOMAIN bs[q[1]].mk /\ k \in DOMAIN bs[p[1]].mk
      /\ MarkSize \in Nat /\ MarkSize > 0
  BY PointerParts, MarkSizeAssumption
<1>2. /\ SizeIn(bs, p) \in Nat /\ SizeIn(bs, q) \in Nat
      /\ k < p[2] /\ k # m => k < m
      /\ m < q[2] /\ m # k => m < k
      /\ k >= p[2] => k >= p[2] + SizeIn(bs, p)
      /\ m >= q[2] => m >= q[2] + SizeIn(bs, q)
  BY <1>1, FilledAway
<1>3. m # k
  BY <1>1
<1> QED  BY <1>1, <1>2, <1>3

-----------------------------------------------------------------------------
(* What the searches see of a cut, and of a merge.                         *)
LEMMA AllocNexts ==
  ASSUME NEW mk, NEW last, Chained(mk, last), NEW s \in DOMAIN mk, NEW size \in Nat \ {0},
         Roomy(mk, last, size, s), NEW new, new = AllocBlock(mk, s, size)
  PROVE  \E m \in Nat : /\ s < m /\ DOMAIN new = DOMAIN mk \cup {m}
                        /\ \A x \in DOMAIN mk : x # s => new[x].next = mk[x].next
<1> DEFINE n == NextBlock(mk, s)
           m == CutAt(mk, s, size)
           got == GotBy(mk, s, size)
<1>1. /\ s < m /\ m \in Nat
      /\ DOMAIN new = DOMAIN mk \cup {m}
      /\ \A x \in DOMAIN mk : x # s => new[x].next = mk[x].next
  BY AllocEffect
<1> QED  BY <1>1

(* What freeBlock does to the marks as seen from the front.                *)
LEMMA FreeNexts ==
  ASSUME NEW mk, NEW last, Chained(mk, last), NEW s \in DOMAIN mk, s # last, mk[s].next.fill,
         NEW new, new = FreeBlock(mk, s), NEW f, f = FreedAt(mk, s)
  PROVE  /\ f \in DOMAIN mk /\ f <= s
         /\ f # s => ~mk[f].next.fill
         /\ f \in DOMAIN new /\ ~new[f].next.fill
         /\ DOMAIN new \subseteq DOMAIN mk
         /\ \A x \in DOMAIN mk : x < s => x \in DOMAIN new
         /\ \A x \in DOMAIN new : x # f => new[x].next = mk[x].next
<1> DEFINE n == NextBlock(mk, s)
           e == FreedTo(mk, s)
<1>1. /\ f \in DOMAIN mk /\ e \in DOMAIN mk /\ n \in DOMAIN mk
      /\ f <= s /\ s < n /\ n <= e
      /\ f # s => f = PrevBlock(mk, s) /\ NextBlock(mk, f) = s /\ ~mk[f].next.fill
      /\ e # n => e = NextBlock(mk, n) /\ n # last /\ ~mk[n].next.fill
      /\ DOMAIN new = DOMAIN mk \ (({s} \ {f}) \cup ({n} \ {e}))
      /\ new[f].next = Free(e - f - MarkSize)
      /\ \A x \in DOMAIN new : x # f => new[x].next = mk[x].next
  BY FreeEffect
<1>2. \A x \in DOMAIN mk : x \in Nat
  BY MarkFacts
<1>3. ~new[f].next.fill
  BY <1>1 DEF Free
<1> HIDE DEF n, e
<1>4. f # n /\ \A x \in DOMAIN mk : x < s => x # n
  BY <1>1, <1>2
<1> QED  BY <1>1, <1>2, <1>3, <1>4
=============================================================================
