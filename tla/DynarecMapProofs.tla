-------------------------- MODULE DynarecMapProofs --------------------------
(***************************************************************************)
(* The memory for native code, for any sizes, maps and blocks: the chains  *)
(* of the maps stay sound and hold exactly the code in use, the searches   *)
(* start where they may, no map is ever left locked, native code never     *)
(* overlaps, and a native address leads back to its block.                 *)
(***************************************************************************)
EXTENDS DynarecMap, ChainProofs

Last == LastBlock(MapSize)

(* first is the first free subblock, or the end.                           *)
FirstOK(mk, first) ==
  /\ first \in DOMAIN mk /\ ~mk[first].next.fill
  /\ \A x \in DOMAIN mk : x < first => mk[x].next.fill

(* A byte of the helper never leads out of the map.                        *)
HelperOK(h) ==
  /\ DOMAIN h = 0 .. MapSize - 1
  /\ \A x \in DOMAIN h : h[x] \in 0 .. HelperMax /\ h[x] <= x

(* A map: its chain, what it remembers of it, and its tables.              *)
MapSound(m) ==
  /\ m = [mk |-> m.mk, first |-> m.first, locked |-> 0, maxfree |-> m.maxfree,
          dblist |-> m.dblist, helper |-> m.helper]
  /\ Chained(m.mk, Last)
  /\ MaxFreeOK(m.mk, Last, m.maxfree)
  /\ FirstOK(m.mk, m.first)
  /\ HelperOK(m.helper)
  /\ \A x \in DOMAIN m.dblist : m.dblist[x] \in Dynablocks

ListSound(ms) == IsList(ms) /\ \A i \in DOMAIN ms : MapSound(ms[i])

(* The bytes of the helper over a chunk of n bytes at r: the one at        *)
(* HelperMax may say anything.                                             *)
HelperFor(h, r, n) ==
  \A k \in 0 .. n - 1 : /\ k < HelperMax => h[r + k] = k
                        /\ k > HelperMax => h[r + k] = HelperMax

(* The code in use is what is filled, and the large blocks.                *)
HeldIn(ms, ck) ==
  /\ {p \in DOMAIN ck : p[1] # 0} = FilledIn(ms)
  /\ \A p \in DOMAIN ck :
       /\ ck[p] \in Sizes
       /\ p[1] = 0 <=> Oversize(ck[p])
       /\ p[1] # 0 => SizeIn(ms, p) >= ck[p]

(* The tables of a map lead to the owner of each chunk.                    *)
OwnedIn(ms, ck, ow) ==
  /\ DOMAIN ow = DOMAIN ck
  /\ \A p \in DOMAIN ck :
       /\ ow[p] \in Dynablocks
       /\ p[1] # 0 => /\ p[2] \in DOMAIN ms[p[1]].dblist /\ ms[p[1]].dblist[p[2]] = ow[p]
                      /\ HelperFor(ms[p[1]].helper, p[2], ck[p])

MapInv == ListSound(maps) /\ HeldIn(maps, chunks) /\ OwnedIn(maps, chunks, owner)

-----------------------------------------------------------------------------
(* What is assumed of the sizes.                                           *)
LEMMA Sizings ==
  /\ MarkSize \in Nat /\ MarkSize > 0 /\ MapSize \in Nat /\ MapSize > 2 * MarkSize
  /\ HelperMax \in Nat /\ HelperMax > 0 /\ Last = MapSize - MarkSize /\ Last \in Nat
  /\ \A n \in Sizes : n \in Nat /\ n > 0
BY MarkSizeAssumption, DynarecMapAssumption DEF Last, LastBlock

(* FindFreeDynarecMap writes the helper for its chunk, and leaves alone    *)
(* what ends before it or starts after the byte behind it.                 *)
LEMMA FindWrites ==
  ASSUME NEW h, HelperOK(h), NEW r \in Nat, NEW n \in Nat, n > 0, r + n < MapSize,
         NEW new, new = HelperFind(h, r, n)
  PROVE  /\ HelperOK(new) /\ HelperFor(new, r, n)
         /\ \A x \in DOMAIN h : x < r \/ x > r + n => new[x] = h[x]
<1> DEFINE short == IF n < HelperMax + 1 THEN n ELSE HelperMax
<1>1. /\ short \in Nat /\ short <= n /\ short <= HelperMax
      /\ n # short => short = HelperMax /\ n > HelperMax
      /\ n > HelperMax => n # short
  BY Sizings
<1>2. /\ DOMAIN h = 0 .. MapSize - 1 /\ DOMAIN new = DOMAIN h
      /\ \A x \in DOMAIN h : new[x] = IF x \in r .. r + short - 1 THEN x - r
                    ELSE IF n # short /\ x \in r + HelperMax + 1 .. r + n THEN HelperMax
                    ELSE h[x]
  BY DEF HelperFind, HelperOK
<1> HIDE DEF short
<1>3. HelperOK(new)
  <2> SUFFICES ASSUME NEW x \in DOMAIN new
               PROVE  new[x] \in 0 .. HelperMax /\ new[x] <= x
    BY <1>2 DEF HelperOK
  <2>1. x \in Nat /\ h[x] \in 0 .. HelperMax /\ h[x] <= x
    BY <1>2, Sizings DEF HelperOK
  <2>2. CASE x \in r .. r + short - 1
    BY <1>1, <1>2, <2>1, <2>2, Sizings
  <2>3. CASE ~(x \in r .. r + short - 1) /\ n # short /\ x \in r + HelperMax + 1 .. r + n
    BY <1>1, <1>2, <2>1, <2>3, Sizings
  <2>4. CASE ~(x \in r .. r + short - 1) /\ ~(n # short /\ x \in r + HelperMax + 1 .. r + n)
    BY <1>2, <2>1, <2>4
  <2> QED  BY <2>2, <2>3, <2>4
<1>4. HelperFor(new, r, n)
  <2> SUFFICES ASSUME NEW k \in 0 .. n - 1
               PROVE  /\ k < HelperMax => new[r + k] = k
                      /\ k > HelperMax => new[r + k] = HelperMax
    BY DEF HelperFor
  <2>1. r + k \in DOMAIN h
    BY <1>2, Sizings
  <2>2. CASE k < HelperMax
    <3>1. r + k \in r .. r + short - 1
      BY <1>1, <2>2, Sizings
    <3>2. (r + k) - r = k
      OBVIOUS
    <3> QED  BY <1>2, <2>1, <2>2, <3>1, <3>2, Sizings
  <2>3. CASE k > HelperMax
    <3>1. n # short /\ r + k \notin r .. r + short - 1 /\ r + k \in r + HelperMax + 1 .. r + n
      BY <1>1, <2>3, Sizings
    <3> QED  BY <1>2, <2>1, <2>3, <3>1, Sizings
  <2> QED  BY <2>2, <2>3
<1>5. ASSUME NEW x \in DOMAIN h, x < r \/ x > r + n PROVE new[x] = h[x]
  <2>1. x \notin r .. r + short - 1 /\ x \notin r + HelperMax + 1 .. r + n
    BY <1>1, <1>2, <1>5, Sizings
  <2> QED  BY <1>2, <2>1
<1> QED  BY <1>3, <1>4, <1>5

(* AddNewDynarecMap writes the helper of a new map.                        *)
LEMMA NewWrites ==
  ASSUME NEW r \in Nat, NEW n \in Nat, n > 0, r + n < MapSize,
         NEW new, new = HelperNew([x \in 0 .. MapSize - 1 |-> 0], r, n)
  PROVE  HelperOK(new) /\ HelperFor(new, r, n)
<1>1. /\ DOMAIN new = 0 .. MapSize - 1
      /\ \A x \in 0 .. MapSize - 1 :
           new[x] = IF x \in r .. r + n - 1
                    THEN IF x - r < HelperMax + 1 THEN x - r ELSE HelperMax ELSE 0
  BY DEF HelperNew
<1>2. HelperOK(new)
  <2> SUFFICES ASSUME NEW x \in 0 .. MapSize - 1
               PROVE  new[x] \in 0 .. HelperMax /\ new[x] <= x
    BY <1>1 DEF HelperOK
  <2>1. CASE x \in r .. r + n - 1
    BY <1>1, <2>1, Sizings
  <2>2. CASE x \notin r .. r + n - 1
    BY <1>1, <2>2, Sizings
  <2> QED  BY <2>1, <2>2
<1>3. ASSUME NEW k \in 0 .. n - 1
      PROVE  /\ k < HelperMax => new[r + k] = k
             /\ k > HelperMax => new[r + k] = HelperMax
  <2>1. r + k \in 0 .. MapSize - 1 /\ r + k \in r .. r + n - 1 /\ (r + k) - r = k
    BY Sizings
  <2>2. new[r + k] = IF k < HelperMax + 1 THEN k ELSE HelperMax
    BY <1>1, <2>1
  <2> QED  BY <2>2, Sizings
<1> QED  BY <1>2, <1>3 DEF HelperFor

(* ActuallyFreeDynarecMap clears no byte outside s .. s + n - 1.           *)
LEMMA ClearedWrites ==
  ASSUME NEW h, HelperOK(h), NEW s \in Nat, NEW n \in Nat, NEW new, new = Cleared(h, s, n)
  PROVE  /\ HelperOK(new)
         /\ \A x \in DOMAIN h : x < s \/ x >= s + n => new[x] = h[x]
<1>1. /\ DOMAIN h = 0 .. MapSize - 1 /\ DOMAIN new = DOMAIN h
      /\ \A x \in DOMAIN h : new[x] = IF x \in s .. s + n - 1 THEN 0 ELSE h[x]
  BY DEF Cleared, HelperOK
<1>2. ASSUME NEW x \in DOMAIN h PROVE new[x] \in 0 .. HelperMax /\ new[x] <= x
  <2>1. h[x] \in 0 .. HelperMax /\ h[x] <= x /\ 0 \in 0 .. HelperMax /\ 0 <= x
    BY <1>1, Sizings DEF HelperOK
  <2> QED  BY <1>1, <2>1
<1>3. ASSUME NEW x \in DOMAIN h, x < s \/ x >= s + n PROVE new[x] = h[x]
  BY <1>1, <1>3, Sizings
<1> QED  BY <1>1, <1>2, <1>3 DEF HelperOK

(* The helper over a chunk none of whose bytes is written.                 *)
LEMMA HelperKept ==
  ASSUME NEW h, HelperOK(h), NEW new, NEW r \in Nat, NEW n \in Nat, r + n < MapSize,
         HelperFor(h, r, n), \A x \in r .. r + n - 1 : new[x] = h[x]
  PROVE  HelperFor(new, r, n)
BY DEF HelperFor

(* The walk of FindDynablockFromNativeAddress over the bytes 0 .. n.       *)
BackEq(h, n, g) == g = [q \in 0 .. n |-> IF h[q] = 0 THEN q ELSE g[q - h[q]]]

(* It exists, because no byte leads out of the map: else there were a      *)
(* least n for which it does not.                                          *)
LEMMA BackExists ==
  ASSUME NEW h, HelperOK(h), NEW n \in 0 .. MapSize - 1
  PROVE  \E g : BackEq(h, n, g)
<1> DEFINE Bad == {i \in 0 .. MapSize - 1 : ~ \E g : BackEq(h, i, g)}
<1> SUFFICES ASSUME Bad # {} PROVE FALSE
  OBVIOUS
<1>1. Bad \in SUBSET Nat
  BY Sizings
<1> HIDE DEF Bad
<1>2. PICK i \in Bad : \A j \in Bad : i <= j
  BY <1>1, LeastNat
<1>3. i \in 0 .. MapSize - 1 /\ i \in Nat /\ ~ \E g : BackEq(h, i, g)
  BY <1>1 DEF Bad
<1>4. \A q \in 0 .. i : h[q] \in Nat /\ h[q] <= q /\ q - h[q] \in 0 .. q /\ q \in Nat
  BY <1>3, Sizings DEF HelperOK
<1>5. CASE i = 0
  <2> DEFINE f == [q \in 0 .. 0 |-> 0]
  <2>1. h[0] = 0
    BY <1>4, <1>5
  <2>2. BackEq(h, 0, f)
    BY <2>1 DEF BackEq
  <2> QED  BY <1>3, <1>5, <2>2
<1>6. CASE i > 0
  <2>1. i - 1 \in 0 .. MapSize - 1 /\ i - 1 \notin Bad
    BY <1>2, <1>3, <1>6, Sizings
  <2>2. PICK g : BackEq(h, i - 1, g)
    BY <2>1 DEF Bad
  <2> DEFINE f == [q \in 0 .. i |-> IF q < i THEN g[q] ELSE IF h[i] = 0 THEN i ELSE g[i - h[i]]]
  <2>3. \A q \in 0 .. i - 1 : g[q] = IF h[q] = 0 THEN q ELSE g[q - h[q]]
    BY <2>2 DEF BackEq
  <2>4. ASSUME NEW q \in 0 .. i PROVE f[q] = IF h[q] = 0 THEN q ELSE f[q - h[q]]
    <3>1. CASE h[q] = 0
      <4>1. CASE q < i
        BY <1>3, <2>3, <3>1, <4>1
      <4>2. CASE q = i
        BY <3>1, <4>2
      <4> QED  BY <1>3, <4>1, <4>2
    <3>2. CASE h[q] # 0
      <4>1. q - h[q] \in 0 .. i /\ q - h[q] < i
        BY <1>3, <1>4, <3>2
      <4>2. f[q - h[q]] = g[q - h[q]]
        BY <4>1
      <4>3. CASE q < i
        <5>1. q \in 0 .. i - 1
          BY <1>3, <4>3
        <5> QED  BY <2>3, <3>2, <4>2, <4>3, <5>1
      <4>4. CASE q = i
        BY <3>2, <4>2, <4>4
      <4> QED  BY <1>3, <4>3, <4>4
    <3> QED  BY <3>1, <3>2
  <2>5. BackEq(h, i, f)
    <3>1. f = [q \in 0 .. i |-> f[q]]
      OBVIOUS
    <3> HIDE DEF f
    <3> QED  BY <2>4, <3>1 DEF BackEq
  <2> QED  BY <1>3, <2>5
<1> QED  BY <1>3, <1>5, <1>6

(* A step of HelperMax keeps the remainder.                                *)
LEMMA ModStep ==
  ASSUME NEW o \in Nat, NEW K \in Nat, K > 0, o >= K
  PROVE  (o - K) % K = o % K
<1> DEFINE q == o \div K
           m == o % K
<1>1. q \in Nat /\ m \in Nat /\ m < K /\ o = q * K + m
  OBVIOUS
<1>2. q >= 1
  BY <1>1
<1> HIDE DEF q
<1>3. o - K = (q - 1) * K + m
  BY <1>1
<1> HIDE DEF m
<1>4. ((q - 1) * K + m) % K = m
  BY <1>1, <1>2
<1> QED  BY <1>3, <1>4 DEF m

(* The walk ends at the start of the chunk, from all its bytes but those a *)
(* positive multiple of HelperMax after it.                                *)
LEMMA WalkBack ==
  ASSUME NEW h, HelperOK(h), NEW r \in Nat, NEW n \in Nat, r + n < MapSize,
         HelperFor(h, r, n), NEW g, BackEq(h, MapSize - 1, g)
  PROVE  \A o \in 0 .. n - 1 : (o % HelperMax # 0 \/ o = 0) => g[r + o] = r
<1> DEFINE Good(o) == (o % HelperMax # 0 \/ o = 0) => g[r + o] = r
           Bad == {o \in 0 .. n - 1 : ~Good(o)}
<1> SUFFICES ASSUME Bad # {} PROVE FALSE
  OBVIOUS
<1>1. Bad \in SUBSET Nat
  BY Sizings
<1> HIDE DEF Bad
<1>2. PICK o \in Bad : \A j \in Bad : o <= j
  BY <1>1, LeastNat
<1>3. o \in 0 .. n - 1 /\ o \in Nat /\ (o % HelperMax # 0 \/ o = 0) /\ g[r + o] # r
  BY <1>1 DEF Bad
<1>4. \A q \in 0 .. MapSize - 1 : g[q] = IF h[q] = 0 THEN q ELSE g[q - h[q]]
  BY DEF BackEq
<1>5. r + o \in 0 .. MapSize - 1 /\ r \in 0 .. MapSize - 1 /\ 0 \in 0 .. n - 1
  BY <1>3, Sizings
<1>6. h[r] = 0
  <2>1. h[r + 0] = 0
    BY <1>5, Sizings DEF HelperFor
  <2> QED  BY <2>1
<1>7. CASE o < HelperMax
  <2>1. h[r + o] = o
    BY <1>3, <1>7 DEF HelperFor
  <2>2. (r + o) - o = r
    BY <1>3
  <2> QED  BY <1>3, <1>4, <1>5, <1>6, <2>1, <2>2
<1>8. CASE o > HelperMax
  <2> DEFINE d == o - HelperMax
  <2>1. h[r + o] = HelperMax /\ HelperMax # 0
    BY <1>3, <1>8, Sizings DEF HelperFor
  <2>2. (r + o) - HelperMax = r + d /\ d \in 0 .. n - 1 /\ d < o
    BY <1>3, <1>8, Sizings
  <2>3. g[r + o] = g[r + d]
    BY <1>4, <1>5, <2>1, <2>2
  <2>4. d % HelperMax = o % HelperMax
    BY <1>3, <1>8, ModStep, Sizings
  <2>5. d % HelperMax # 0 \/ d = 0
    BY <1>3, <1>8, <2>4, Sizings
  <2>6. d \in Bad
    BY <1>3, <2>2, <2>3, <2>5 DEF Bad
  <2> QED  BY <1>2, <1>3, <2>2, <2>6
<1>9. CASE o = HelperMax
  <2>1. o % HelperMax = 0 /\ o # 0
    BY <1>9, Sizings
  <2> QED  BY <1>3, <2>1
<1> QED  BY <1>3, <1>7, <1>8, <1>9, Sizings

(* FindDynablockFromNativeAddress looks up where that walk ends.           *)
LEMMA LookupIs ==
  ASSUME NEW i \in DOMAIN maps, HelperOK(maps[i].helper)
  PROVE  \E g : /\ BackEq(maps[i].helper, MapSize - 1, g)
                /\ \A p : FindDynablock(i, p) = IF g[p] \in DOMAIN maps[i].dblist
                                                THEN maps[i].dblist[g[p]] ELSE NoDynablock
<1> DEFINE m == maps[i]
           Eq(g) == g = [q \in DOMAIN m.helper |-> IF m.helper[q] = 0 THEN q ELSE g[q - m.helper[q]]]
           back == CHOOSE g : Eq(g)
<1>1. MapSize - 1 \in 0 .. MapSize - 1 /\ DOMAIN m.helper = 0 .. MapSize - 1
  BY Sizings DEF HelperOK
<1>2. \E g : Eq(g)
  <2>1. PICK g : BackEq(m.helper, MapSize - 1, g)
    BY <1>1, BackExists
  <2>2. Eq(g)
    BY <1>1, <2>1 DEF BackEq
  <2> QED  BY <2>2
<1>3. Eq(back)
  BY <1>2
<1>4. BackEq(m.helper, MapSize - 1, back)
  BY <1>1, <1>3 DEF BackEq
<1>5. \A p : FindDynablock(i, p) = IF back[p] \in DOMAIN m.dblist
                                   THEN m.dblist[back[p]] ELSE NoDynablock
  BY DEF FindDynablock
<1> HIDE DEF back
<1> QED  BY <1>4, <1>5

-----------------------------------------------------------------------------
(* allocBlock keeps first, or moves it on, ...                             *)
LEMMA AllocFirst ==
  ASSUME NEW mk, NEW last, Chained(mk, last), NEW first, FirstOK(mk, first),
         NEW s \in DOMAIN mk, NEW size \in Nat \ {0}, Roomy(mk, last, size, s),
         NEW new, new = AllocBlock(mk, s, size)
  PROVE  FirstOK(new, NewFirst(new, first, s))
<1>1. PICK m \in Nat : /\ s < m /\ DOMAIN new = DOMAIN mk \cup {m}
                       /\ \A x \in DOMAIN mk : x # s => new[x].next = mk[x].next
  BY AllocNexts
<1>2. /\ first \in DOMAIN mk /\ ~mk[first].next.fill /\ ~mk[s].next.fill
      /\ \A x \in DOMAIN mk : x < first => mk[x].next.fill
      /\ \A x \in DOMAIN mk : x \in Nat
  BY MarkFacts DEF FirstOK, Roomy
<1>3. first <= s
  BY <1>2
<1>4. Chained(new, last)
  BY AllocChained
<1>5. ASSUME NEW x \in DOMAIN new, x < first PROVE new[x].next.fill
  <2>1. x # m /\ x # s /\ x \in DOMAIN mk
    BY <1>1, <1>2, <1>3, <1>5
  <2> QED  BY <1>1, <1>2, <1>5, <2>1
<1>6. CASE s = first
  <2> DEFINE f == NextFree(new, first)
  <2>1. /\ f \in DOMAIN new /\ first <= f /\ ~new[f].next.fill
        /\ \A x \in DOMAIN new : first <= x /\ ~new[x].next.fill => f <= x
    BY <1>1, <1>2, <1>4, NextFreeIs
  <2> HIDE DEF f
  <2>2. \A x \in DOMAIN new : x \in Nat
    BY <1>1, <1>2
  <2>3. \A x \in DOMAIN new : x < f => new[x].next.fill
    BY <1>2, <1>5, <2>1, <2>2
  <2>4. FirstOK(new, f)
    BY <2>1, <2>3 DEF FirstOK
  <2> QED  BY <1>6, <2>4 DEF NewFirst, f
<1>7. CASE s # first
  <2>1. first \in DOMAIN new /\ ~new[first].next.fill
    BY <1>1, <1>2, <1>7
  <2>2. FirstOK(new, first)
    BY <1>5, <2>1 DEF FirstOK
  <2> QED  BY <1>7, <2>2 DEF NewFirst
<1> QED  BY <1>6, <1>7

(* and freeBlock moves it back if it has to.                               *)
LEMMA FreeFirst ==
  ASSUME NEW mk, NEW last, Chained(mk, last), NEW first, FirstOK(mk, first),
         NEW s \in DOMAIN mk, s # last, mk[s].next.fill,
         NEW new, new = FreeBlock(mk, s)
  PROVE  FirstOK(new, BackFirst(first, s, FreedAt(mk, s)))
<1> DEFINE f == FreedAt(mk, s)
<1>1. /\ f \in DOMAIN mk /\ f <= s
      /\ f # s => ~mk[f].next.fill
      /\ f \in DOMAIN new /\ ~new[f].next.fill
      /\ DOMAIN new \subseteq DOMAIN mk
      /\ \A x \in DOMAIN mk : x < s => x \in DOMAIN new
      /\ \A x \in DOMAIN new : x # f => new[x].next = mk[x].next
  BY FreeNexts
<1>2. /\ first \in DOMAIN mk /\ ~mk[first].next.fill /\ first # s
      /\ \A x \in DOMAIN mk : x < first => mk[x].next.fill
      /\ \A x \in DOMAIN mk : x \in Nat
  BY MarkFacts DEF FirstOK
<1> HIDE DEF f
<1>3. CASE first > s
  <2>1. f = s
    BY <1>1, <1>2, <1>3
  <2>2. \A x \in DOMAIN new : x < f => new[x].next.fill
    BY <1>1, <1>2, <1>3, <2>1
  <2>3. FirstOK(new, f)
    BY <1>1, <2>2 DEF FirstOK
  <2> QED  BY <1>3, <2>3 DEF BackFirst, f
<1>4. CASE ~(first > s)
  <2>1. first < s /\ first \in DOMAIN new
    BY <1>1, <1>2, <1>4
  <2>2. ~new[first].next.fill
    BY <1>1, <1>2, <2>1
  <2>3. ASSUME NEW x \in DOMAIN new, x < first PROVE new[x].next.fill
    <3>1. x # f
      BY <1>1, <1>2, <2>1, <2>3
    <3> QED  BY <1>1, <1>2, <2>3, <3>1
  <2>4. FirstOK(new, first)
    BY <2>1, <2>2, <2>3 DEF FirstOK
  <2> QED  BY <1>4, <2>4 DEF BackFirst
<1> QED  BY <1>3, <1>4

(* An entry of a table written, or dropped.                                *)
LEMMA WithEntry ==
  ASSUME NEW f, NEW x, NEW v
  PROVE  /\ DOMAIN With(f, x, v) = DOMAIN f \cup {x} /\ With(f, x, v)[x] = v
         /\ \A y \in DOMAIN f : y # x => With(f, x, v)[y] = f[y]
         /\ DOMAIN Without(f, x) = DOMAIN f \ {x}
         /\ \A y \in DOMAIN f : y # x => Without(f, x)[y] = f[y]
BY DEF With, Without

(* The record of a map, when its chain changes and when its tables do.    *)
LEMMA ChainChanged ==
  ASSUME NEW m, NEW mk, NEW first, NEW maxfree, NEW d, NEW h, NEW k, NEW f, NEW n, NEW new,
         m = [mk |-> k, first |-> f, locked |-> 0, maxfree |-> n,
              dblist |-> d, helper |-> h],
         new = [m EXCEPT !.mk = mk, !.first = first, !.maxfree = maxfree]
  PROVE  new = [mk |-> mk, first |-> first, locked |-> 0, maxfree |-> maxfree,
                dblist |-> d, helper |-> h]
OBVIOUS

(* Its tables written, ...                                                 *)
LEMMA TablesChanged ==
  ASSUME NEW m, NEW mk, NEW first, NEW maxfree, NEW d, NEW h, NEW dblist, NEW helper, NEW new,
         m = [mk |-> mk, first |-> first, locked |-> 0, maxfree |-> maxfree,
              dblist |-> d, helper |-> h],
         new = [m EXCEPT !.dblist = dblist, !.helper = helper]
  PROVE  new = [mk |-> mk, first |-> first, locked |-> 0, maxfree |-> maxfree,
                dblist |-> dblist, helper |-> helper]
OBVIOUS

(* or cleared, when the map is not locked.                                 *)
LEMMA TablesCleared ==
  ASSUME NEW m, NEW mk, NEW first, NEW maxfree, NEW d, NEW h, NEW dblist, NEW helper, NEW new,
         m = [mk |-> mk, first |-> first, locked |-> 0, maxfree |-> maxfree,
              dblist |-> d, helper |-> h],
         new = [m EXCEPT !.dblist = dblist, !.helper = helper,
                         !.locked = IF @ = 0 THEN 0 ELSE @ + 1]
  PROVE  new = [mk |-> mk, first |-> first, locked |-> 0, maxfree |-> maxfree,
                dblist |-> dblist, helper |-> helper]
OBVIOUS

(* A map whose subblock s is taken, ...                                    *)
LEMMA TakeSound ==
  ASSUME NEW m, MapSound(m), NEW size \in Sizes, m.maxfree >= size,
         NEW s \in DOMAIN m.mk, Roomy(m.mk, Last, size, s), NEW db \in Dynablocks,
         NEW new, new = TakeSub(m, s, db, size)
  PROVE  /\ MapSound(new) /\ new.mk = AllocBlock(m.mk, s, size)
         /\ new.dblist = With(m.dblist, s + MarkSize, db)
         /\ new.helper = HelperFind(m.helper, s + MarkSize, size)
         /\ HelperFor(new.helper, s + MarkSize, size)
<1> DEFINE mk == AllocBlock(m.mk, s, size)
           first == NewFirst(mk, m.first, s)
           mf == NewMaxFree(m, s, mk, first)
           r == s + MarkSize
           dblist == With(m.dblist, r, db)
           helper == HelperFind(m.helper, r, size)
           cut == [mk |-> mk, first |-> first, locked |-> 0, maxfree |-> mf,
                   dblist |-> m.dblist, helper |-> m.helper]
<1>0. /\ Chained(m.mk, Last) /\ MaxFreeOK(m.mk, Last, m.maxfree) /\ FirstOK(m.mk, m.first)
      /\ HelperOK(m.helper) /\ \A x \in DOMAIN m.dblist : m.dblist[x] \in Dynablocks
      /\ m = [mk |-> m.mk, first |-> m.first, locked |-> 0, maxfree |-> m.maxfree,
              dblist |-> m.dblist, helper |-> m.helper]
      /\ size \in Nat \ {0}
  BY Sizings DEF MapSound
<1>1. new = [mk |-> mk, first |-> first, locked |-> 0, maxfree |-> mf,
             dblist |-> dblist, helper |-> helper]
  <2>1. CutSub(m, s, size) = [m EXCEPT !.mk = mk, !.first = first, !.maxfree = mf]
    BY DEF CutSub
  <2>2. CutSub(m, s, size) = cut
    <3> DEFINE k == m.mk
               f == m.first
               n == m.maxfree
               d == m.dblist
               h == m.helper
    <3>1. m = [mk |-> k, first |-> f, locked |-> 0, maxfree |-> n, dblist |-> d, helper |-> h]
      BY <1>0
    <3> HIDE DEF k, f, n, d, h, mk, first, mf
    <3>2. CutSub(m, s, size) = [mk |-> mk, first |-> first, locked |-> 0, maxfree |-> mf,
                                dblist |-> d, helper |-> h]
      BY <2>1, <3>1, ChainChanged
    <3> QED  BY <3>2 DEF d, h
  <2> DEFINE c == CutSub(m, s, size)
  <2>3. new = [c EXCEPT !.dblist = With(c.dblist, r, db), !.helper = HelperFind(c.helper, r, size)]
    BY DEF TakeSub
  <2>4. c.dblist = m.dblist /\ c.helper = m.helper
    <3> HIDE DEF mk, first, mf
    <3> QED  BY <2>2
  <2>5. new = [c EXCEPT !.dblist = dblist, !.helper = helper]
    BY <2>3, <2>4
  <2>6. c = cut
    BY <2>2
  <2> DEFINE d == m.dblist
             h == m.helper
  <2>7. c = [mk |-> mk, first |-> first, locked |-> 0, maxfree |-> mf, dblist |-> d, helper |-> h]
    BY <2>6
  <2> HIDE DEF c, cut, mk, first, mf, dblist, helper, d, h
  <2> QED  BY <2>5, <2>7, TablesChanged
<1>2. Chained(mk, Last)
  BY <1>0, AllocChained
<1>3. FirstOK(mk, first)
  BY <1>0, AllocFirst
<1>4. MaxFreeOK(mk, Last, mf)
  <2>1. CASE m.mk[s].next.size = m.maxfree
    <3>1. first \in DOMAIN mk /\ \A x \in DOMAIN mk : x < first => mk[x].next.fill
      BY <1>3 DEF FirstOK
    <3>2. mf = GetMaxFreeFrom(mk, first)
      BY <2>1 DEF NewMaxFree
    <3> HIDE DEF mk, first, mf
    <3> QED  BY <1>2, <3>1, <3>2, MaxFreeFromStart
  <2>2. CASE m.mk[s].next.size # m.maxfree
    <3>1. m.maxfree # 0
      BY <1>0, Sizings DEF MaxFreeOK
    <3>2. MaxFreeOK(mk, Last, m.maxfree)
      BY <1>0, <2>2, <3>1, MaxFreeStays
    <3> QED  BY <2>2, <3>2 DEF NewMaxFree
  <2> QED  BY <2>1, <2>2
<1>5. s \in Nat /\ r \in Nat /\ r + size < MapSize
  <2>1. /\ s \in Nat /\ m.mk[s].next.size \in Nat /\ m.mk[s].next.size >= size /\ s # Last
    BY <1>0, MarkFacts DEF Roomy
  <2>2. /\ NextBlock(m.mk, s) \in DOMAIN m.mk
        /\ NextBlock(m.mk, s) = s + m.mk[s].next.size + MarkSize
    BY <1>0, <2>1, LinkFacts
  <2>3. NextBlock(m.mk, s) <= Last /\ NextBlock(m.mk, s) \in Nat
    BY <1>0, <2>2, MarkFacts
  <2> QED  BY <1>0, <2>1, <2>2, <2>3, Sizings
<1>6. HelperOK(helper) /\ HelperFor(helper, r, size)
  BY <1>0, <1>5, Sizings, FindWrites
<1>7. \A x \in DOMAIN dblist : dblist[x] \in Dynablocks
  <2>1. /\ DOMAIN dblist = DOMAIN m.dblist \cup {r} /\ dblist[r] = db
        /\ \A y \in DOMAIN m.dblist : y # r => dblist[y] = m.dblist[y]
    <3> HIDE DEF r
    <3> QED  BY DEF With
  <2> HIDE DEF dblist
  <2> QED  BY <1>0, <2>1
<1> HIDE DEF mk, first, mf, dblist, helper
<1>8. /\ new.mk = mk /\ new.first = first /\ new.maxfree = mf
      /\ new.dblist = dblist /\ new.helper = helper
  BY <1>1
<1>9. MapSound(new)
  BY <1>1, <1>2, <1>3, <1>4, <1>6, <1>7, <1>8 DEF MapSound
<1> QED  BY <1>6, <1>8, <1>9 DEF mk, dblist, helper

(* a new map, with its first chunk, ...                                    *)
LEMMA NewMapSound ==
  ASSUME NEW size \in Sizes, ~Oversize(size), NEW db \in Dynablocks,
         NEW new, new = NewMap(db, size)
  PROVE  /\ MapSound(new) /\ FilledOf(new.mk) = {0} /\ new.mk[0].next.size >= size
         /\ MarkSize \in DOMAIN new.dblist /\ new.dblist[MarkSize] = db
         /\ HelperFor(new.helper, MarkSize, size)
<1> DEFINE mk0 == NewChain(MapSize)
           mk == AllocBlock(mk0, 0, size)
           first == NextFree(mk, 0)
           mf == GetMaxFreeFrom(mk, first)
           dblist == With([k \in {} |-> db], MarkSize, db)
           helper == HelperNew([x \in 0 .. MapSize - 1 |-> 0], MarkSize, size)
<1>0. size \in Nat \ {0} /\ size <= MapSize - 2 * MarkSize
  BY Sizings DEF Oversize
<1>1. new = [mk |-> mk, first |-> first, locked |-> 0, maxfree |-> mf,
             dblist |-> dblist, helper |-> helper]
  BY DEF NewMap
<1>2. /\ Chained(mk0, Last) /\ DOMAIN mk0 = {0, Last} /\ Last # 0
      /\ mk0[0].next = Free(MapSize - 2 * MarkSize)
  BY Sizings, NewChained DEF Last
<1> HIDE DEF mk0
<1>3. Roomy(mk0, Last, size, 0) /\ 0 \in DOMAIN mk0
  BY <1>0, <1>2 DEF Roomy, Free
<1>4. Chained(mk, Last)
  BY <1>0, <1>2, <1>3, AllocChained
<1>5. /\ FilledOf(mk) = FilledOf(mk0) \cup {0} /\ mk[0].next.size >= size
  BY <1>0, <1>2, <1>3, AllocFills
<1>6. FilledOf(mk0) = {}
  <2>1. ~mk0[0].next.fill
    BY <1>2 DEF Free
  <2>2. ~mk0[Last].next.fill
    BY <1>2 DEF Chained, Zero
  <2> QED  BY <1>2, <2>1, <2>2 DEF FilledOf
<1> HIDE DEF mk
<1>7. FirstOK(mk, first)
  <2>1. 0 \in DOMAIN mk /\ \A x \in DOMAIN mk : x \in Nat
    BY <1>4, MarkFacts DEF Chained, Marked
  <2>2. /\ first \in DOMAIN mk /\ ~mk[first].next.fill
        /\ \A x \in DOMAIN mk : 0 <= x /\ ~mk[x].next.fill => first <= x
    BY <1>4, <2>1, NextFreeIs
  <2> HIDE DEF first
  <2> QED  BY <2>1, <2>2 DEF FirstOK
<1>8. MaxFreeOK(mk, Last, mf)
  <2>1. first \in DOMAIN mk /\ \A x \in DOMAIN mk : x < first => mk[x].next.fill
    BY <1>7 DEF FirstOK
  <2> HIDE DEF first
  <2> QED  BY <1>4, <2>1, MaxFreeFromStart
<1>9. HelperOK(helper) /\ HelperFor(helper, MarkSize, size)
  BY <1>0, Sizings, NewWrites
<1>10. DOMAIN dblist = {MarkSize} /\ dblist[MarkSize] = db
  BY DEF With
<1> HIDE DEF first, mf, dblist, helper
<1>11. /\ new.mk = mk /\ new.first = first /\ new.maxfree = mf
       /\ new.dblist = dblist /\ new.helper = helper
  BY <1>1
<1>12. MapSound(new)
  BY <1>1, <1>4, <1>7, <1>8, <1>9, <1>10, <1>11 DEF MapSound
<1> QED  BY <1>5, <1>6, <1>9, <1>10, <1>11, <1>12

(* and one whose subblock s comes back.                                    *)
LEMMA GiveSound ==
  ASSUME NEW m, MapSound(m), NEW size \in Nat, NEW s \in FilledOf(m.mk),
         NEW new, new = GiveBack(m, s, size)
  PROVE  /\ MapSound(new)
         /\ FilledOf(new.mk) = FilledOf(m.mk) \ {s}
         /\ \A x \in FilledOf(new.mk) : new.mk[x].next = m.mk[x].next
         /\ new.dblist = Without(m.dblist, s)
         /\ new.helper = Cleared(m.helper, s, size)
<1> DEFINE mk == FreeBlock(m.mk, s)
           first == BackFirst(m.first, s, FreedAt(m.mk, s))
           got == mk[FreedAt(m.mk, s)].next.size
           mf == IF m.maxfree < got THEN got ELSE m.maxfree
           dblist == Without(m.dblist, s)
           helper == Cleared(m.helper, s, size)
<1>0. /\ Chained(m.mk, Last) /\ MaxFreeOK(m.mk, Last, m.maxfree) /\ FirstOK(m.mk, m.first)
      /\ HelperOK(m.helper) /\ \A x \in DOMAIN m.dblist : m.dblist[x] \in Dynablocks
      /\ m = [mk |-> m.mk, first |-> m.first, locked |-> 0, maxfree |-> m.maxfree,
              dblist |-> m.dblist, helper |-> m.helper]
  BY DEF MapSound
<1>1. new = [mk |-> mk, first |-> first, locked |-> 0, maxfree |-> mf,
             dblist |-> dblist, helper |-> helper]
  <2> DEFINE k == m.mk
             f == m.first
             n == m.maxfree
             d == m.dblist
             h == m.helper
             c == FreeSubblock(m, s)
  <2>1. c = [m EXCEPT !.mk = mk, !.first = first, !.maxfree = mf]
    BY DEF FreeSubblock
  <2>2. m = [mk |-> k, first |-> f, locked |-> 0, maxfree |-> n, dblist |-> d, helper |-> h]
    BY <1>0
  <2>3. new = [c EXCEPT !.dblist = Without(c.dblist, s), !.helper = Cleared(c.helper, s, size),
                        !.locked = IF @ = 0 THEN 0 ELSE @ + 1]
    BY DEF GiveBack
  <2> HIDE DEF k, f, n, c, mk, first, mf
  <2>4. c = [mk |-> mk, first |-> first, locked |-> 0, maxfree |-> mf, dblist |-> d, helper |-> h]
    <3> HIDE DEF d, h
    <3> QED  BY <2>1, <2>2, ChainChanged
  <2>5. c.dblist = d /\ c.helper = h
    <3> HIDE DEF d, h
    <3> QED  BY <2>4
  <2>6. new = [c EXCEPT !.dblist = dblist, !.helper = helper, !.locked = IF @ = 0 THEN 0 ELSE @ + 1]
    BY <2>3, <2>5
  <2> HIDE DEF d, h, dblist, helper
  <2> QED  BY <2>4, <2>6, TablesCleared
<1>2. s \in DOMAIN m.mk /\ m.mk[s].next.fill /\ s # Last /\ s \in Nat
  BY <1>0, MarkFacts DEF FilledOf, Chained, Zero
<1>3. Chained(mk, Last)
  BY <1>0, <1>2, FreeChained
<1>4. MaxFreeOK(mk, Last, mf)
  BY <1>0, <1>2, MaxFreeRaised
<1>5. FirstOK(mk, first)
  BY <1>0, <1>2, FreeFirst
<1>6. /\ FilledOf(mk) = FilledOf(m.mk) \ {s}
      /\ \A x \in FilledOf(mk) : mk[x].next = m.mk[x].next
  BY <1>0, <1>2, FreeFills
<1>7. HelperOK(helper)
  BY <1>0, <1>2, ClearedWrites
<1>8. \A x \in DOMAIN dblist : dblist[x] \in Dynablocks
  <2>1. /\ DOMAIN dblist = DOMAIN m.dblist \ {s}
        /\ \A y \in DOMAIN m.dblist : y # s => dblist[y] = m.dblist[y]
    BY WithEntry
  <2> HIDE DEF dblist
  <2> QED  BY <1>0, <2>1
<1> HIDE DEF mk, first, mf, dblist, helper
<1>9. /\ new.mk = mk /\ new.first = first /\ new.maxfree = mf
      /\ new.dblist = dblist /\ new.helper = helper
  BY <1>1
<1>10. MapSound(new)
  BY <1>1, <1>3, <1>4, <1>5, <1>7, <1>8, <1>9 DEF MapSound
<1> QED  BY <1>6, <1>9, <1>10 DEF dblist, helper

-----------------------------------------------------------------------------
(* The maps of the list are chains.                                        *)
LEMMA ListChained ==
  ASSUME NEW ms, ListSound(ms)
  PROVE  AllChained(ms) /\ \A i \in DOMAIN ms : i \in Nat /\ i # 0
<1>1. ms \in Seq({ms[i] : i \in DOMAIN ms})
  BY DEF ListSound, IsList
<1>2. DOMAIN ms = 1 .. Len(ms) /\ Len(ms) \in Nat
  BY <1>1
<1>3. \A i \in DOMAIN ms : Chained(ms[i].mk, Last)
  BY DEF ListSound, MapSound
<1> QED  BY <1>2, <1>3 DEF AllChained

(* Code lies inside its map.                                               *)
LEMMA InMap ==
  ASSUME NEW ms, ListSound(ms), NEW p \in FilledIn(ms)
  PROVE  /\ p[1] \in DOMAIN ms /\ p[1] # 0 /\ p[2] \in Nat
         /\ SizeIn(ms, p) \in Nat /\ SizeIn(ms, p) > 0 /\ p[2] + SizeIn(ms, p) < MapSize
<1> DEFINE mk == ms[p[1]].mk
<1>1. AllChained(ms)
  BY ListChained
<1>2. p[1] \in DOMAIN ms /\ p[1] # 0 /\ p[2] \in Nat /\ p[2] - MarkSize \in DOMAIN mk
  BY <1>1, PointerParts, ListChained
<1>3. Chained(mk, Last)
  BY <1>2 DEF ListSound, MapSound
<1>4. Last \in DOMAIN mk
  BY <1>3 DEF Chained, Marked
<1>5. /\ SizeIn(ms, p) \in Nat /\ SizeIn(ms, p) > 0
      /\ Last < p[2] /\ Last # p[2] - MarkSize => Last < p[2] - MarkSize
      /\ Last >= p[2] => Last >= p[2] + SizeIn(ms, p)
  BY <1>1, <1>4, FilledAway
<1>6. p[2] - MarkSize # Last /\ p[2] - MarkSize <= Last
  <2>1. mk[p[2] - MarkSize].next.fill
    BY <1>1, PointerParts DEF FilledOf
  <2>2. ~mk[Last].next.fill
    BY <1>3 DEF Chained, Zero
  <2>3. p[2] - MarkSize <= Last
    BY <1>2, <1>3, MarkFacts
  <2> QED  BY <2>1, <2>2, <2>3
<1> QED  BY <1>2, <1>5, <1>6, Sizings

(* A map that promises room has it, from first on.                         *)
LEMMA AskedFinds ==
  ASSUME NEW m, MapSound(m), NEW size \in Sizes, m.maxfree >= size + MarkSize,
         NEW s, s = GetFirstBlock(m.mk, size, m.first)
  PROVE  s # NoSub /\ s \in DOMAIN m.mk /\ Roomy(m.mk, Last, size, s) /\ m.maxfree >= size
<1>1. /\ Chained(m.mk, Last) /\ MaxFreeOK(m.mk, Last, m.maxfree) /\ FirstOK(m.mk, m.first)
      /\ size \in Nat /\ size > 0 /\ MarkSize \in Nat
  BY Sizings DEF MapSound
<1>2. m.maxfree \in Nat /\ m.maxfree >= size /\ m.maxfree # 0
  BY <1>1 DEF MaxFreeOK
<1>3. PICK x \in DOMAIN m.mk : FreeSub(m.mk, Last, x) /\ m.mk[x].next.size = m.maxfree
  BY <1>1, <1>2 DEF MaxFreeOK
<1>4. x \in Nat /\ m.first \in Nat /\ m.first \in DOMAIN m.mk
  BY <1>1, MarkFacts DEF FirstOK
<1>5. m.first <= x /\ Roomy(m.mk, Last, size, x)
  BY <1>1, <1>2, <1>3, <1>4 DEF FirstOK, FreeSub, Roomy
<1>6. /\ s = NoSub => \A y \in DOMAIN m.mk : m.first <= y => ~Roomy(m.mk, Last, size, y)
      /\ s # NoSub => s \in DOMAIN m.mk /\ m.first <= s /\ Roomy(m.mk, Last, size, s)
  BY <1>1, <1>4, FirstFound
<1> QED  BY <1>2, <1>5, <1>6

(* The step that enters a chunk p of size bytes for db.                    *)
LEMMA Added ==
  ASSUME MapInv, ListSound(maps'), NEW p, NEW size \in Sizes, ~Oversize(size),
         NEW db \in Dynablocks,
         p \notin FilledIn(maps), FilledIn(maps') = FilledIn(maps) \cup {p},
         \A q \in FilledIn(maps) : SizeIn(maps', q) = SizeIn(maps, q),
         SizeIn(maps', p) >= size,
         chunks' = With(chunks, p, size), owner' = With(owner, p, db),
         /\ p[2] \in DOMAIN maps'[p[1]].dblist /\ maps'[p[1]].dblist[p[2]] = db
         /\ HelperFor(maps'[p[1]].helper, p[2], size),
         \A q \in FilledIn(maps) :
           /\ q[2] \in DOMAIN maps'[q[1]].dblist
           /\ maps'[q[1]].dblist[q[2]] = maps[q[1]].dblist[q[2]]
           /\ HelperFor(maps'[q[1]].helper, q[2], chunks[q])
  PROVE  MapInv' /\ Chunks!Alloc
<1>1. /\ HeldIn(maps, chunks) /\ OwnedIn(maps, chunks, owner)
  BY DEF MapInv
<1>2. p[1] # 0 /\ p \notin DOMAIN chunks
  <2>1. p[1] # 0
    BY InMap
  <2> QED  BY <1>1, <2>1 DEF HeldIn
<1>3. /\ DOMAIN chunks' = DOMAIN chunks \cup {p} /\ chunks'[p] = size
      /\ \A q \in DOMAIN chunks : chunks'[q] = chunks[q]
      /\ DOMAIN owner' = DOMAIN chunks \cup {p} /\ owner'[p] = db
      /\ \A q \in DOMAIN chunks : owner'[q] = owner[q]
  <2>1. DOMAIN owner = DOMAIN chunks
    BY <1>1 DEF OwnedIn
  <2> QED  BY <1>2, <2>1 DEF With
<1>4. \A q \in DOMAIN chunks : q[1] # 0 <=> q \in FilledIn(maps)
  <2>1. \A q \in FilledIn(maps) : q[1] # 0
    BY InMap DEF MapInv
  <2> QED  BY <1>1, <2>1 DEF HeldIn
<1>5. HeldIn(maps', chunks')
  <2>1. {q \in DOMAIN chunks' : q[1] # 0} = FilledIn(maps')
    BY <1>1, <1>2, <1>3 DEF HeldIn
  <2>2. ASSUME NEW q \in DOMAIN chunks'
        PROVE  /\ chunks'[q] \in Sizes /\ (q[1] = 0 <=> Oversize(chunks'[q]))
               /\ q[1] # 0 => SizeIn(maps', q) >= chunks'[q]
    <3>1. CASE q = p
      BY <1>2, <1>3, <3>1
    <3>2. CASE q # p
      BY <1>1, <1>3, <1>4, <3>2 DEF HeldIn
    <3> QED  BY <3>1, <3>2
  <2> QED  BY <2>1, <2>2 DEF HeldIn
<1>6. OwnedIn(maps', chunks', owner')
  <2>1. ASSUME NEW q \in DOMAIN chunks'
        PROVE  /\ owner'[q] \in Dynablocks
               /\ q[1] # 0 => /\ q[2] \in DOMAIN maps'[q[1]].dblist
                              /\ maps'[q[1]].dblist[q[2]] = owner'[q]
                              /\ HelperFor(maps'[q[1]].helper, q[2], chunks'[q])
    <3>1. CASE q = p
      BY <1>3, <3>1
    <3>2. CASE q # p
      BY <1>1, <1>3, <1>4, <3>2 DEF OwnedIn
    <3> QED  BY <3>1, <3>2
  <2> QED  BY <1>3, <2>1 DEF OwnedIn
<1>7. Chunks!Alloc
  <2>1. ASSUME NEW q \in DOMAIN chunks \ {p} PROVE ~Chunks!Overlap(p, size, q, chunks'[q])
    <3>1. CASE q[1] # p[1]
      BY <3>1 DEF Chunks!Overlap
    <3>2. CASE q[1] = p[1]
      <4>1. q \in FilledIn(maps') /\ p \in FilledIn(maps') /\ q # p /\ AllChained(maps')
        BY <1>2, <1>4, <3>2, ListChained
      <4>2. p[2] + SizeIn(maps', p) < q[2] \/ q[2] + SizeIn(maps', q) < p[2]
        BY <3>2, <4>1, FilledApart
      <4>3. /\ SizeIn(maps', p) >= size /\ SizeIn(maps', q) >= chunks'[q]
            /\ chunks'[q] \in Nat /\ size \in Nat
        BY <1>2, <1>3, <1>5, <3>2, Sizings DEF HeldIn
      <4>4. /\ p[2] \in Nat /\ q[2] \in Nat /\ SizeIn(maps', p) \in Nat /\ SizeIn(maps', q) \in Nat
        BY <4>1, InMap
      <4> QED  BY <4>2, <4>3, <4>4 DEF Chunks!Overlap
    <3> QED  BY <3>1, <3>2
  <2>2. Chunks!Give(p, chunks'[p])
    BY <1>3, <2>1 DEF Chunks!Give, With
  <2> QED  BY <1>2, <1>3, <2>2 DEF Chunks!Alloc
<1> QED  BY <1>5, <1>6, <1>7 DEF MapInv

(* What is in use in a map when its other entries are untouched.           *)
LEMMA OwnedNow ==
  ASSUME MapInv, NEW q \in FilledIn(maps)
  PROVE  /\ q \in DOMAIN chunks /\ chunks[q] \in Sizes /\ SizeIn(maps, q) >= chunks[q]
         /\ ~Oversize(chunks[q])
         /\ q[2] \in DOMAIN maps[q[1]].dblist /\ maps[q[1]].dblist[q[2]] = owner[q]
         /\ HelperFor(maps[q[1]].helper, q[2], chunks[q])
<1>1. q[1] # 0
  BY InMap DEF MapInv
<1> QED  BY <1>1 DEF MapInv, HeldIn, OwnedIn

(* The steps of the calls: a chunk from a map that has room, ...           *)
LEMMA FindStep ==
  ASSUME MapInv, NEW size \in Sizes, ~Oversize(size), NEW db \in Dynablocks,
         NEW i \in DOMAIN maps, FindFree(i, db, size)
  PROVE  MapInv' /\ Chunks!Alloc
<1> DEFINE m == maps[i]
           s == Sub(i, size)
           r == s + MarkSize
           nm == TakeSub(m, s, db, size)
           p == <<i, r>>
<1>0. size \in Nat \ {0} /\ size \in Nat /\ MarkSize \in Nat /\ MarkSize > 0
  BY Sizings
<1>1. ListSound(maps) /\ MapSound(m) /\ AllChained(maps)
  BY ListChained DEF MapInv, ListSound
<1>2. s \in DOMAIN m.mk /\ Roomy(m.mk, Last, size, s) /\ m.maxfree >= size
  BY <1>1, AskedFinds DEF FindFree, Asked, Sub
<1>3. \A j \in DOMAIN maps : Asked(j, size) => Sub(j, size) # NoSub
  BY AskedFinds DEF Asked, Sub, MapInv, ListSound
<1>4. /\ DOMAIN maps' = DOMAIN maps /\ maps'[i] = nm
      /\ \A j \in DOMAIN maps : j # i => maps'[j] = maps[j]
      /\ maps' = [maps EXCEPT ![i] = nm]
  <2>1. maps' = [j \in DOMAIN maps |->
                   IF j = i THEN nm
                   ELSE IF j < i /\ Asked(j, size) THEN [maps[j] EXCEPT !.locked = 1]
                   ELSE maps[j]]
    BY DEF FindFree
  <2>2. \A j \in DOMAIN maps : j < i => ~Asked(j, size)
    <3>1. \A j \in DOMAIN maps : j \in Nat /\ j # 0 /\ i \in Nat
      BY <1>1, ListChained
    <3>2. \A j \in 1 .. i - 1 : ~(Asked(j, size) /\ Sub(j, size) # NoSub)
      BY DEF FindFree
    <3> QED  BY <1>3, <3>1, <3>2
  <2> HIDE DEF nm
  <2>3. \A j \in DOMAIN maps : maps'[j] = IF j = i THEN nm ELSE maps[j]
    BY <2>1, <2>2
  <2>4. DOMAIN maps' = DOMAIN maps /\ maps' = [j \in DOMAIN maps |-> maps'[j]]
    BY <2>1
  <2>5. maps = [j \in DOMAIN maps |-> maps[j]]
    <3>1. maps \in Seq({maps[j] : j \in DOMAIN maps})
      BY <1>1 DEF ListSound, IsList
    <3> QED  BY <3>1
  <2>6. maps' = [maps EXCEPT ![i] = nm]
    BY <2>3, <2>4, <2>5
  <2> QED  BY <2>3, <2>4, <2>6
<1>5. /\ MapSound(nm) /\ nm.mk = AllocBlock(m.mk, s, size)
      /\ nm.dblist = With(m.dblist, s + MarkSize, db)
      /\ nm.helper = HelperFind(m.helper, s + MarkSize, size)
      /\ HelperFor(nm.helper, s + MarkSize, size)
  BY <1>1, <1>2, TakeSound
<1>6. chunks' = With(chunks, p, size) /\ owner' = With(owner, p, db)
  BY DEF FindFree
<1> HIDE DEF nm, s, m
<1>7. ListSound(maps')
  <2>1. IsList(maps')
    <3>1. IsList(maps)
      BY <1>1 DEF ListSound
    <3>2. IsList([maps EXCEPT ![i] = nm])
      BY <3>1, ListChanged
    <3> QED  BY <1>4, <3>2
  <2> QED  BY <1>1, <1>4, <1>5, <2>1 DEF ListSound
<1>8. AllChained(maps') /\ Chained(m.mk, Last)
  BY <1>1, <1>7, ListChained DEF MapSound
<1>9. /\ s \notin FilledOf(m.mk) /\ FilledOf(nm.mk) = FilledOf(m.mk) \cup {s}
      /\ \A x \in FilledOf(m.mk) : nm.mk[x].next = m.mk[x].next
      /\ nm.mk[s].next.size >= size
  BY <1>0, <1>2, <1>5, <1>8, AllocFills
<1>10. s \in Nat
  BY <1>2, <1>8, MarkFacts
<1>11. /\ p \notin FilledIn(maps) /\ FilledIn(maps') = FilledIn(maps) \cup {p}
       /\ \A q \in FilledIn(maps) : SizeIn(maps', q) = SizeIn(maps, q)
       /\ SizeIn(maps', p) = maps'[i].mk[s].next.size
  <2>1. /\ s \in FilledOf(maps'[i].mk) /\ s \notin FilledOf(maps[i].mk)
        /\ FilledOf(maps'[i].mk) = FilledOf(maps[i].mk) \cup {s}
        /\ \A x \in FilledOf(maps[i].mk) : maps'[i].mk[x].next = maps[i].mk[x].next
    BY <1>4, <1>9 DEF m
  <2>2. /\ i \in DOMAIN maps' /\ i \in DOMAIN maps /\ DOMAIN maps \subseteq DOMAIN maps'
        /\ DOMAIN maps' \subseteq DOMAIN maps \cup {i}
        /\ \A j \in DOMAIN maps : j # i => maps'[j] = maps[j]
    BY <1>4
  <2>3. p = <<i, s + MarkSize>>
    OBVIOUS
  <2> HIDE DEF p
  <2> QED  BY <1>1, <1>8, <1>10, <2>1, <2>2, <2>3, FilledAdds
<1>12. SizeIn(maps', p) >= size
  BY <1>4, <1>9, <1>11
<1>13. p[1] = i /\ p[2] = r /\ r \in Nat
  BY <1>0, <1>10
<1> HIDE DEF p, r
<1>14. r + size < MapSize /\ r = s + MarkSize
  <2>1. p \in FilledIn(maps')
    BY <1>11
  <2>2. /\ SizeIn(maps', p) \in Nat /\ p[2] + SizeIn(maps', p) < MapSize
    BY <1>7, <2>1, InMap
  <2> QED  BY <1>0, <1>12, <1>13, <2>2, Sizings DEF r
<1>15. HelperOK(m.helper) /\ m.dblist = maps[i].dblist /\ m.helper = maps[i].helper
  BY <1>1 DEF MapSound, m
<1>16. \A x \in DOMAIN m.helper : x < r \/ x > r + size => nm.helper[x] = m.helper[x]
  BY <1>0, <1>5, <1>13, <1>14, <1>15, FindWrites
<1>17. /\ DOMAIN nm.dblist = DOMAIN m.dblist \cup {r} /\ nm.dblist[r] = db
       /\ \A y \in DOMAIN m.dblist : y # r => nm.dblist[y] = m.dblist[y]
  BY <1>5, <1>14 DEF With
<1>18. ASSUME NEW q \in FilledIn(maps)
       PROVE  /\ q[2] \in DOMAIN maps'[q[1]].dblist
              /\ maps'[q[1]].dblist[q[2]] = maps[q[1]].dblist[q[2]]
              /\ HelperFor(maps'[q[1]].helper, q[2], chunks[q])
  <2>1. /\ chunks[q] \in Sizes /\ SizeIn(maps, q) >= chunks[q]
        /\ q[2] \in DOMAIN maps[q[1]].dblist
        /\ HelperFor(maps[q[1]].helper, q[2], chunks[q])
    BY OwnedNow
  <2>2. q[1] \in DOMAIN maps /\ q[2] \in Nat
    BY <1>1, InMap
  <2>3. CASE q[1] # i
    BY <1>4, <2>1, <2>2, <2>3
  <2>4. CASE q[1] = i
    <3>1. q \in FilledIn(maps') /\ p \in FilledIn(maps') /\ q # p /\ q[1] = p[1]
      BY <1>11, <1>13, <2>4
    <3>2. p[2] + SizeIn(maps', p) < q[2] \/ q[2] + SizeIn(maps', q) < p[2]
      BY <1>8, <3>1, FilledApart
    <3>3. /\ q[2] + SizeIn(maps', q) < MapSize
          /\ SizeIn(maps', q) \in Nat /\ SizeIn(maps', p) \in Nat
      BY <1>7, <3>1, InMap
    <3>4. SizeIn(maps', q) >= chunks[q] /\ chunks[q] \in Nat
      BY <1>11, <2>1, Sizings
    <3>5. q[2] # r
      BY <1>12, <1>13, <3>2, <3>3, <3>4, <1>0, <2>2
    <3>6. q[2] + chunks[q] < MapSize
      BY <2>2, <3>3, <3>4, Sizings
    <3>7. \A x \in q[2] .. q[2] + chunks[q] - 1 : nm.helper[x] = m.helper[x]
      <4> SUFFICES ASSUME NEW x \in q[2] .. q[2] + chunks[q] - 1
                   PROVE  nm.helper[x] = m.helper[x]
        OBVIOUS
      <4>1. x \in 0 .. MapSize - 1
        BY <2>2, <3>4, <3>6, Sizings
      <4>2. x < r \/ x > r + size
        BY <1>0, <1>12, <1>13, <2>2, <3>2, <3>3, <3>4
      <4> QED  BY <1>15, <1>16, <4>1, <4>2 DEF HelperOK
    <3>8. HelperFor(m.helper, q[2], chunks[q])
      BY <1>15, <2>1, <2>4
    <3>9. HelperFor(nm.helper, q[2], chunks[q])
      BY <1>15, <2>2, <3>4, <3>6, <3>7, <3>8, HelperKept
    <3> QED  BY <1>4, <1>15, <1>17, <2>1, <2>4, <3>5, <3>9
  <2> QED  BY <2>3, <2>4
<1>19. /\ p[2] \in DOMAIN maps'[p[1]].dblist /\ maps'[p[1]].dblist[p[2]] = db
       /\ HelperFor(maps'[p[1]].helper, p[2], size)
  BY <1>4, <1>5, <1>13, <1>14, <1>17
<1> QED  BY <1>6, <1>7, <1>11, <1>12, <1>18, <1>19, Added

(* from a new map, ...                                                     *)
LEMMA AddStep ==
  ASSUME MapInv, NEW size \in Sizes, ~Oversize(size), NEW db \in Dynablocks,
         AddNew(db, size)
  PROVE  MapInv' /\ Chunks!Alloc
<1> DEFINE nm == NewMap(db, size)
           i == Len(maps) + 1
           p == <<i, MarkSize>>
<1>0. MarkSize \in Nat /\ MarkSize > 0 /\ size \in Nat
  BY Sizings
<1>1. ListSound(maps) /\ AllChained(maps) /\ IsList(maps)
  BY ListChained DEF MapInv, ListSound
<1>2. \A j \in DOMAIN maps : ~Asked(j, size)
  BY AskedFinds DEF Asked, Sub, MapInv, ListSound, AddNew
<1>3. maps' = Append(maps, nm)
  <2>1. maps' = Append([j \in DOMAIN maps |->
                          IF Asked(j, size) THEN [maps[j] EXCEPT !.locked = 1] ELSE maps[j]], nm)
    BY DEF AddNew
  <2>2. maps \in Seq({maps[j] : j \in DOMAIN maps})
    BY <1>1 DEF IsList
  <2>3. maps = [j \in DOMAIN maps |-> maps[j]]
    BY <2>2
  <2>4. [j \in DOMAIN maps |->
           IF Asked(j, size) THEN [maps[j] EXCEPT !.locked = 1] ELSE maps[j]]
          = [j \in DOMAIN maps |-> maps[j]]
    BY <1>2
  <2> QED  BY <2>1, <2>3, <2>4
<1>4. /\ IsList(maps') /\ Len(maps) \in Nat
      /\ DOMAIN maps = 1 .. Len(maps) /\ DOMAIN maps' = 1 .. Len(maps) + 1
      /\ \A j \in 1 .. Len(maps) : maps'[j] = maps[j]
      /\ maps'[i] = nm
  <2> HIDE DEF nm
  <2> QED  BY <1>1, <1>3, ListGrown
<1>5. chunks' = With(chunks, p, size) /\ owner' = With(owner, p, db)
  BY DEF AddNew
<1>6. /\ MapSound(nm) /\ FilledOf(nm.mk) = {0} /\ nm.mk[0].next.size >= size
      /\ MarkSize \in DOMAIN nm.dblist /\ nm.dblist[MarkSize] = db
      /\ HelperFor(nm.helper, MarkSize, size)
  BY NewMapSound
<1> HIDE DEF nm
<1>7. /\ i \in DOMAIN maps' /\ i \notin DOMAIN maps
      /\ DOMAIN maps \subseteq DOMAIN maps' /\ DOMAIN maps' \subseteq DOMAIN maps \cup {i}
      /\ \A j \in DOMAIN maps : j # i => maps'[j] = maps[j]
      /\ \A j \in DOMAIN maps : maps'[j] = maps[j]
  BY <1>4
<1> HIDE DEF i
<1>8. ListSound(maps')
  BY <1>1, <1>4, <1>6, <1>7 DEF ListSound
<1>9. AllChained(maps')
  BY <1>8, ListChained
<1>10. /\ p \notin FilledIn(maps) /\ FilledIn(maps') = FilledIn(maps) \cup {p}
       /\ \A q \in FilledIn(maps) : SizeIn(maps', q) = SizeIn(maps, q)
       /\ SizeIn(maps', p) = maps'[i].mk[0].next.size
  <2>1. FilledOf(maps'[i].mk) = {0} /\ 0 \in FilledOf(maps'[i].mk)
    BY <1>4, <1>6
  <2>2. p = <<i, 0 + MarkSize>>
    BY <1>0
  <2> HIDE DEF p
  <2> QED  BY <1>1, <1>7, <1>9, <2>1, <2>2, FilledAdds
<1>11. SizeIn(maps', p) >= size
  BY <1>4, <1>6, <1>10
<1>12. p[1] = i /\ p[2] = MarkSize
  OBVIOUS
<1> HIDE DEF p
<1>13. ASSUME NEW q \in FilledIn(maps)
       PROVE  /\ q[2] \in DOMAIN maps'[q[1]].dblist
              /\ maps'[q[1]].dblist[q[2]] = maps[q[1]].dblist[q[2]]
              /\ HelperFor(maps'[q[1]].helper, q[2], chunks[q])
  <2>1. /\ q[2] \in DOMAIN maps[q[1]].dblist
        /\ HelperFor(maps[q[1]].helper, q[2], chunks[q])
    BY OwnedNow
  <2>2. q[1] \in DOMAIN maps
    BY <1>1, InMap
  <2> QED  BY <1>7, <2>1, <2>2
<1>14. /\ p[2] \in DOMAIN maps'[p[1]].dblist /\ maps'[p[1]].dblist[p[2]] = db
       /\ HelperFor(maps'[p[1]].helper, p[2], size)
  BY <1>4, <1>6, <1>12
<1> QED  BY <1>5, <1>8, <1>10, <1>11, <1>13, <1>14, Added

(* or a mapping of its own; ...                                            *)
LEMMA OversizeStep ==
  ASSUME MapInv, NEW size \in Sizes, NEW db \in Dynablocks, AllocOversized(db, size)
  PROVE  MapInv' /\ Chunks!Alloc
<1>1. ListSound(maps) /\ HeldIn(maps, chunks) /\ OwnedIn(maps, chunks, owner)
  BY DEF MapInv
<1>2. PICK a \in OversizedAt :
        /\ \A p \in DOMAIN chunks : ~Overlap(<<0, a>>, size, p, chunks[p])
        /\ chunks' = With(chunks, <<0, a>>, size)
        /\ owner' = With(owner, <<0, a>>, db)
  BY DEF AllocOversized
<1>3. maps' = maps /\ Oversize(size)
  BY DEF AllocOversized
<1> DEFINE p == <<0, a>>
<1>4. p[1] = 0 /\ p[2] = a /\ a \in Nat
  BY DynarecMapAssumption
<1>5. chunks' = With(chunks, p, size) /\ owner' = With(owner, p, db)
      /\ \A q \in DOMAIN chunks : ~Overlap(p, size, q, chunks[q])
  BY <1>2
<1> HIDE DEF p
<1>6. p \notin DOMAIN chunks
  <2> SUFFICES ASSUME p \in DOMAIN chunks PROVE FALSE
    OBVIOUS
  <2>1. chunks[p] \in Nat /\ chunks[p] > 0 /\ size \in Nat /\ size > 0
    BY <1>1, Sizings DEF HeldIn
  <2> QED  BY <1>4, <1>5, <2>1 DEF Overlap
<1>7. /\ DOMAIN chunks' = DOMAIN chunks \cup {p} /\ chunks'[p] = size
      /\ \A q \in DOMAIN chunks : chunks'[q] = chunks[q]
      /\ DOMAIN owner' = DOMAIN chunks \cup {p} /\ owner'[p] = db
      /\ \A q \in DOMAIN chunks : owner'[q] = owner[q]
  <2>1. DOMAIN owner = DOMAIN chunks
    BY <1>1 DEF OwnedIn
  <2> QED  BY <1>5, <1>6, <2>1 DEF With
<1>8. HeldIn(maps, chunks')
  <2>1. {q \in DOMAIN chunks' : q[1] # 0} = FilledIn(maps)
    BY <1>1, <1>4, <1>7 DEF HeldIn
  <2>2. ASSUME NEW q \in DOMAIN chunks'
        PROVE  /\ chunks'[q] \in Sizes /\ (q[1] = 0 <=> Oversize(chunks'[q]))
               /\ q[1] # 0 => SizeIn(maps, q) >= chunks'[q]
    <3>1. CASE q = p
      BY <1>3, <1>4, <1>7, <3>1
    <3>2. CASE q # p
      BY <1>1, <1>7, <3>2 DEF HeldIn
    <3> QED  BY <3>1, <3>2
  <2> QED  BY <2>1, <2>2 DEF HeldIn
<1>9. OwnedIn(maps, chunks', owner')
  <2>1. ASSUME NEW q \in DOMAIN chunks'
        PROVE  /\ owner'[q] \in Dynablocks
               /\ q[1] # 0 => /\ q[2] \in DOMAIN maps[q[1]].dblist
                              /\ maps[q[1]].dblist[q[2]] = owner'[q]
                              /\ HelperFor(maps[q[1]].helper, q[2], chunks'[q])
    <3>1. CASE q = p
      BY <1>4, <1>7, <3>1
    <3>2. CASE q # p
      BY <1>1, <1>7, <3>2 DEF OwnedIn
    <3> QED  BY <3>1, <3>2
  <2> QED  BY <1>7, <2>1 DEF OwnedIn
<1>10. Chunks!Alloc
  <2>1. ASSUME NEW q \in DOMAIN chunks \ {p} PROVE ~Chunks!Overlap(p, size, q, chunks[q])
    BY <1>5, <2>1 DEF Chunks!Overlap, Overlap
  <2>2. Chunks!Give(p, chunks'[p])
    BY <1>5, <1>7, <2>1 DEF Chunks!Give, With
  <2> QED  BY <1>6, <1>7, <2>2 DEF Chunks!Alloc
<1> QED  BY <1>1, <1>3, <1>8, <1>9, <1>10 DEF MapInv

(* and a chunk that is freed.                                              *)
LEMMA FreeStep ==
  ASSUME MapInv, NEW p, FreeDynarecMap(p)
  PROVE  MapInv' /\ Chunks!TakeBack
<1>1. ListSound(maps) /\ HeldIn(maps, chunks) /\ OwnedIn(maps, chunks, owner)
  BY DEF MapInv
<1>2. /\ p \in DOMAIN chunks /\ chunks' = Without(chunks, p) /\ owner' = Without(owner, p)
      /\ Oversize(chunks[p]) => maps' = maps
      /\ ~Oversize(chunks[p]) =>
           maps' = [maps EXCEPT ![p[1]] = GiveBack(@, p[2] - MarkSize, chunks[p])]
  BY DEF FreeDynarecMap, ActuallyFree
<1>3. /\ DOMAIN chunks' = DOMAIN chunks \ {p} /\ DOMAIN owner' = DOMAIN chunks \ {p}
      /\ \A q \in DOMAIN chunks : q # p => chunks'[q] = chunks[q] /\ owner'[q] = owner[q]
  <2>1. DOMAIN owner = DOMAIN chunks
    BY <1>1 DEF OwnedIn
  <2> QED  BY <1>2, <2>1 DEF Without
<1>4. Chunks!TakeBack
  BY <1>2 DEF Chunks!TakeBack, Without
<1>5. p[1] = 0 <=> Oversize(chunks[p])
  BY <1>1, <1>2 DEF HeldIn
<1>6. CASE p[1] = 0
  <2>1. maps' = maps
    BY <1>2, <1>5, <1>6
  <2>2. HeldIn(maps, chunks')
    BY <1>1, <1>3, <1>6 DEF HeldIn
  <2>3. OwnedIn(maps, chunks', owner')
    BY <1>1, <1>3 DEF OwnedIn
  <2> QED  BY <1>1, <1>4, <2>1, <2>2, <2>3 DEF MapInv
<1>7. CASE p[1] # 0
  <2> DEFINE i == p[1]
             s == p[2] - MarkSize
             m == maps[i]
             nm == GiveBack(m, s, chunks[p])
  <2>0. MarkSize \in Nat /\ MarkSize > 0
    BY Sizings
  <2>1. p \in FilledIn(maps) /\ AllChained(maps) /\ IsList(maps)
    BY <1>1, <1>2, <1>7, ListChained DEF HeldIn, ListSound
  <2>2. /\ i \in DOMAIN maps /\ p[2] \in Nat /\ s \in FilledOf(m.mk)
        /\ s \in DOMAIN m.mk /\ s \in Nat
    BY <2>1, PointerParts
  <2>3. chunks[p] \in Nat /\ SizeIn(maps, p) >= chunks[p] /\ chunks[p] > 0
    BY <1>1, <1>2, <1>7, Sizings DEF HeldIn
  <2>4. MapSound(m)
    BY <1>1, <2>2 DEF ListSound
  <2>5. /\ MapSound(nm)
        /\ FilledOf(nm.mk) = FilledOf(m.mk) \ {s}
        /\ \A x \in FilledOf(nm.mk) : nm.mk[x].next = m.mk[x].next
        /\ nm.dblist = Without(m.dblist, s)
        /\ nm.helper = Cleared(m.helper, s, chunks[p])
    <3> DEFINE n == chunks[p]
    <3>1. nm = GiveBack(m, s, n) /\ n \in Nat /\ s \in FilledOf(m.mk)
      BY <2>2, <2>3
    <3> HIDE DEF nm, m, s, n
    <3>2. /\ MapSound(nm)
          /\ FilledOf(nm.mk) = FilledOf(m.mk) \ {s}
          /\ \A x \in FilledOf(nm.mk) : nm.mk[x].next = m.mk[x].next
          /\ nm.dblist = Without(m.dblist, s)
          /\ nm.helper = Cleared(m.helper, s, n)
      BY <2>4, <3>1, GiveSound
    <3> QED  BY <3>2 DEF n
  <2>6. maps' = [maps EXCEPT ![i] = nm]
    BY <1>2, <1>5, <1>7
  <2> HIDE DEF nm
  <2>7. /\ IsList(maps') /\ DOMAIN maps' = DOMAIN maps /\ maps'[i] = nm
        /\ \A j \in DOMAIN maps : j # i => maps'[j] = maps[j]
    <3> DEFINE new == [maps EXCEPT ![i] = nm]
    <3>1. /\ IsList(new) /\ DOMAIN new = DOMAIN maps
          /\ \A j \in DOMAIN maps : new[j] = IF j = i THEN nm ELSE maps[j]
      BY <2>1, <2>2, ListChanged
    <3>2. maps' = new
      BY <2>6
    <3> HIDE DEF new
    <3> QED  BY <2>2, <3>1, <3>2
  <2>8. ListSound(maps')
    BY <1>1, <2>5, <2>7 DEF ListSound
  <2>9. AllChained(maps')
    BY <2>8, ListChained
  <2>10. /\ FilledIn(maps') = FilledIn(maps) \ {p}
         /\ \A q \in FilledIn(maps') : SizeIn(maps', q) = SizeIn(maps, q)
    <3>1. /\ \A j \in DOMAIN maps : j # p[1] => maps'[j] = maps[j]
          /\ FilledOf(maps'[p[1]].mk) = FilledOf(maps[p[1]].mk) \ {p[2] - MarkSize}
          /\ \A x \in FilledOf(maps'[p[1]].mk) :
               maps'[p[1]].mk[x].next = maps[p[1]].mk[x].next
          /\ DOMAIN maps' = DOMAIN maps
      BY <2>5, <2>7
    <3> QED  BY <2>1, <2>9, <3>1, FilledRemoves
  <2>11. ASSUME NEW q \in DOMAIN chunks, q # p, q[1] # 0
         PROVE  /\ SizeIn(maps', q) >= chunks[q]
                /\ q[2] \in DOMAIN maps'[q[1]].dblist
                /\ maps'[q[1]].dblist[q[2]] = owner[q]
                /\ HelperFor(maps'[q[1]].helper, q[2], chunks[q])
    <3>1. /\ q \in FilledIn(maps) /\ q \in FilledIn(maps')
      BY <1>1, <2>10, <2>11 DEF HeldIn
    <3>2. /\ chunks[q] \in Sizes /\ SizeIn(maps, q) >= chunks[q]
          /\ q[2] \in DOMAIN maps[q[1]].dblist /\ maps[q[1]].dblist[q[2]] = owner[q]
          /\ HelperFor(maps[q[1]].helper, q[2], chunks[q])
      BY <3>1, OwnedNow
    <3>3. SizeIn(maps', q) >= chunks[q]
      BY <2>10, <3>1, <3>2
    <3>4. q[1] \in DOMAIN maps /\ q[2] \in Nat /\ SizeIn(maps, q) \in Nat
          /\ q[2] + SizeIn(maps, q) < MapSize
      BY <1>1, <3>1, InMap
    <3>5. CASE q[1] # i
      BY <2>7, <3>2, <3>3, <3>4, <3>5
    <3>6. CASE q[1] = i
      <4>1. /\ SizeIn(maps, q) > 0
            /\ s < q[2] /\ s # q[2] - MarkSize => s < q[2] - MarkSize
            /\ s >= q[2] => s >= q[2] + SizeIn(maps, q)
        BY <2>1, <2>2, <3>1, <3>6, FilledAway
      <4>2. chunks[q] \in Nat /\ chunks[q] > 0
        BY <3>2, Sizings
      <4>3. s # q[2]
        BY <2>2, <3>4, <4>1
      <4>4. /\ q[2] \in DOMAIN nm.dblist /\ nm.dblist[q[2]] = m.dblist[q[2]]
        BY <2>5, <3>2, <3>6, <4>3 DEF Without
      <4>5. p[2] + SizeIn(maps, p) < q[2] \/ q[2] + SizeIn(maps, q) < p[2]
        BY <2>1, <2>11, <3>1, <3>6, FilledApart
      <4>6. SizeIn(maps, p) \in Nat
        BY <1>1, <2>1, InMap
      <4>7. q[2] + chunks[q] < MapSize
        BY <3>2, <3>4, <4>2, Sizings
      <4>8. HelperOK(m.helper)
        BY <2>4 DEF MapSound
      <4>9. \A x \in DOMAIN m.helper : x < s \/ x >= s + chunks[p] => nm.helper[x] = m.helper[x]
        <5> DEFINE n == chunks[p]
                   h == m.helper
                   nh == nm.helper
        <5>1. HelperOK(h) /\ s \in Nat /\ n \in Nat /\ nh = Cleared(h, s, n)
          BY <2>2, <2>3, <2>5, <4>8
        <5> HIDE DEF m, s, n, h, nh
        <5>2. \A x \in DOMAIN h : x < s \/ x >= s + n => nh[x] = h[x]
          BY <5>1, ClearedWrites
        <5> QED  BY <5>2 DEF n, h, nh
      <4>10. \A x \in q[2] .. q[2] + chunks[q] - 1 : nm.helper[x] = m.helper[x]
        <5> SUFFICES ASSUME NEW x \in q[2] .. q[2] + chunks[q] - 1
                     PROVE  nm.helper[x] = m.helper[x]
          OBVIOUS
        <5>1. x \in 0 .. MapSize - 1
          BY <3>4, <4>2, <4>7, Sizings
        <5>2. x \in Int /\ (x < s \/ x >= s + chunks[p])
          <6>1. x \in Int /\ x >= q[2] /\ x < q[2] + SizeIn(maps, q)
            BY <3>2, <3>4, <4>2
          <6> HIDE DEF s
          <6>2. p[2] = s + MarkSize
            BY <2>2, <2>0 DEF s
          <6>3. CASE p[2] + SizeIn(maps, p) < q[2]
            BY <2>0, <2>2, <2>3, <3>4, <4>6, <6>1, <6>2, <6>3
          <6>4. CASE q[2] + SizeIn(maps, q) < p[2]
            <7>1. s >= q[2]
              BY <2>0, <2>2, <2>3, <3>4, <4>1, <4>3, <6>2, <6>4 DEF s
            <7> QED  BY <2>2, <3>4, <4>1, <6>1, <7>1
          <6> QED  BY <4>5, <6>3, <6>4
        <5>3. x \in DOMAIN m.helper
          BY <4>8, <5>1 DEF HelperOK
        <5> QED  BY <4>9, <5>2, <5>3
      <4>11. HelperFor(m.helper, q[2], chunks[q])
        BY <3>2, <3>6
      <4>12. HelperFor(nm.helper, q[2], chunks[q])
        <5> HIDE DEF m, s
        <5>1. q[2] \in Nat /\ chunks[q] \in Nat
          BY <3>4, <4>2
        <5> QED  BY <4>7, <4>8, <4>10, <4>11, <5>1, HelperKept
      <4> QED  BY <2>7, <3>2, <3>3, <3>6, <4>4, <4>12
    <3> QED  BY <3>5, <3>6
  <2>12. HeldIn(maps', chunks')
    <3>1. {q \in DOMAIN chunks' : q[1] # 0} = FilledIn(maps')
      BY <1>1, <1>3, <2>10 DEF HeldIn
    <3>2. ASSUME NEW q \in DOMAIN chunks'
          PROVE  /\ chunks'[q] \in Sizes /\ (q[1] = 0 <=> Oversize(chunks'[q]))
                 /\ q[1] # 0 => SizeIn(maps', q) >= chunks'[q]
      <4>1. q \in DOMAIN chunks /\ q # p /\ chunks'[q] = chunks[q]
        BY <1>3
      <4>2. chunks[q] \in Sizes /\ (q[1] = 0 <=> Oversize(chunks[q]))
        BY <1>1, <4>1 DEF HeldIn
      <4>3. q[1] # 0 => SizeIn(maps', q) >= chunks[q]
        BY <2>11, <4>1
      <4> QED  BY <4>1, <4>2, <4>3
    <3> QED  BY <3>1, <3>2 DEF HeldIn
  <2>13. OwnedIn(maps', chunks', owner')
    <3>1. ASSUME NEW q \in DOMAIN chunks'
          PROVE  /\ owner'[q] \in Dynablocks
                 /\ q[1] # 0 => /\ q[2] \in DOMAIN maps'[q[1]].dblist
                                /\ maps'[q[1]].dblist[q[2]] = owner'[q]
                                /\ HelperFor(maps'[q[1]].helper, q[2], chunks'[q])
      <4>1. q \in DOMAIN chunks /\ q # p /\ chunks'[q] = chunks[q] /\ owner'[q] = owner[q]
        BY <1>3
      <4>2. owner[q] \in Dynablocks
        BY <1>1, <4>1 DEF OwnedIn
      <4>3. q[1] # 0 => /\ q[2] \in DOMAIN maps'[q[1]].dblist
                        /\ maps'[q[1]].dblist[q[2]] = owner[q]
                        /\ HelperFor(maps'[q[1]].helper, q[2], chunks[q])
        BY <2>11, <4>1
      <4> QED  BY <4>1, <4>2, <4>3
    <3> QED  BY <1>3, <3>1 DEF OwnedIn
  <2> QED  BY <1>4, <2>8, <2>12, <2>13 DEF MapInv
<1> QED  BY <1>6, <1>7

(* One step of the list of maps: the invariant, and a step of the          *)
(* abstract allocator or none.                                             *)
LEMMA MapStep ==
  ASSUME MapInv, [Next]_vars
  PROVE  MapInv' /\ [Chunks!Alloc \/ Chunks!TakeBack]_chunks
<1>1. ASSUME NEW db \in Dynablocks, NEW size \in Sizes, AllocDynarecMap(db, size)
      PROVE  MapInv' /\ Chunks!Alloc
  <2>1. ~Oversize(size)
    BY <1>1 DEF AllocDynarecMap
  <2>2. CASE AddNew(db, size)
    BY <2>1, <2>2, AddStep
  <2>3. CASE \E i \in DOMAIN maps : FindFree(i, db, size)
    BY <2>1, <2>3, FindStep
  <2> QED  BY <1>1, <2>2, <2>3 DEF AllocDynarecMap
<1>2. ASSUME NEW db \in Dynablocks, NEW size \in Sizes, AllocOversized(db, size)
      PROVE  MapInv' /\ Chunks!Alloc
  BY <1>2, OversizeStep
<1>3. ASSUME NEW p, FreeDynarecMap(p)
      PROVE  MapInv' /\ Chunks!TakeBack
  BY <1>3, FreeStep
<1>4. ASSUME UNCHANGED vars
      PROVE  MapInv' /\ chunks' = chunks
  BY <1>4 DEF vars, MapInv
<1> QED  BY <1>1, <1>2, <1>3, <1>4 DEF Next

(* There are no maps at first.                                             *)
LEMMA MapInit == Init => MapInv /\ Len(maps) <= MaxMaps
<1> SUFFICES ASSUME Init PROVE MapInv /\ Len(maps) <= MaxMaps
  OBVIOUS
<1>1. maps = <<>> /\ DOMAIN chunks = {} /\ DOMAIN owner = {}
  BY DEF Init
<1>2. DOMAIN maps = {} /\ maps \in Seq({maps[i] : i \in DOMAIN maps}) /\ Len(maps) = 0
  BY <1>1
<1>3. ListSound(maps) /\ FilledIn(maps) = {}
  BY <1>2 DEF ListSound, IsList, FilledIn
<1>4. HeldIn(maps, chunks) /\ OwnedIn(maps, chunks, owner)
  BY <1>1, <1>3 DEF HeldIn, OwnedIn
<1> QED  BY <1>2, <1>3, <1>4, DynarecMapAssumption DEF MapInv

(* The list of maps never outgrows its bound.                              *)
LEMMA LenStep ==
  ASSUME MapInv, MapInv', Len(maps) <= MaxMaps, [Next]_vars
  PROVE  Len(maps') <= MaxMaps
<1>1. /\ Len(maps) \in Nat /\ DOMAIN maps = 1 .. Len(maps)
  <2>1. maps \in Seq({maps[i] : i \in DOMAIN maps})
    BY DEF MapInv, ListSound, IsList
  <2> QED  BY <2>1
<1>2. /\ Len(maps') \in Nat /\ DOMAIN maps' = 1 .. Len(maps')
  <2>1. maps' \in Seq({maps'[i] : i \in DOMAIN maps'})
    BY DEF MapInv, ListSound, IsList
  <2> QED  BY <2>1
<1>3. ASSUME DOMAIN maps' = DOMAIN maps PROVE Len(maps') <= MaxMaps
  BY <1>1, <1>2, <1>3
<1>4. ASSUME NEW db, NEW size, AddNew(db, size) PROVE Len(maps') <= MaxMaps
  <2> DEFINE f == [j \in DOMAIN maps |->
                     IF Asked(j, size) THEN [maps[j] EXCEPT !.locked = 1] ELSE maps[j]]
             nm == NewMap(db, size)
             R == {f[j] : j \in DOMAIN maps} \cup {nm}
  <2>1. maps' = Append(f, nm) /\ Len(maps) < MaxMaps
    BY <1>4 DEF AddNew
  <2>2. f \in [1 .. Len(maps) -> R] /\ nm \in R
    BY <1>1
  <2> HIDE DEF f, nm, R
  <2>3. f \in Seq(R) /\ Len(f) = Len(maps)
    BY <1>1, <2>2, FunctionIsList
  <2>4. Len(maps') = Len(maps) + 1
    BY <2>1, <2>2, <2>3
  <2> QED  BY <1>1, <2>1, <2>4, DynarecMapAssumption
<1>5. ASSUME NEW i, NEW db, NEW size, FindFree(i, db, size) PROVE Len(maps') <= MaxMaps
  <2>1. DOMAIN maps' = DOMAIN maps
    BY <1>5 DEF FindFree
  <2> QED  BY <1>3, <2>1
<1>6. ASSUME NEW p, FreeDynarecMap(p) PROVE Len(maps') <= MaxMaps
  <2>1. DOMAIN maps' = DOMAIN maps
    BY <1>6 DEF FreeDynarecMap, ActuallyFree
  <2> QED  BY <1>3, <2>1
<1>7. ASSUME maps' = maps PROVE Len(maps') <= MaxMaps
  BY <1>7
<1> QED  BY <1>4, <1>5, <1>6, <1>7 DEF Next, AllocDynarecMap, AllocOversized, vars

(* The inductive invariant holds throughout.                               *)
LEMMA MapAlways == Spec => [](MapInv /\ Len(maps) <= MaxMaps)
<1>1. MapInv /\ Len(maps) <= MaxMaps /\ [Next]_vars => (MapInv /\ Len(maps) <= MaxMaps)'
  BY MapStep, LenStep
<1> QED  BY <1>1, MapInit, PTL DEF Spec

-----------------------------------------------------------------------------
(* The filled subblocks of a map, seen from the code in use.               *)
LEMMA MapCode == MapInv => CodeIsFilled
<1> SUFFICES ASSUME MapInv, NEW i \in DOMAIN maps
             PROVE  /\ ChainSound(maps[i].mk, MapSize)
                    /\ FilledOf(maps[i].mk)
                         = {p[2] - MarkSize : p \in {q \in DOMAIN chunks : q[1] = i}}
                    /\ \A p \in DOMAIN chunks :
                         p[1] = i => maps[i].mk[p[2] - MarkSize].next.size >= chunks[p]
  BY DEF CodeIsFilled, FilledOf
<1> DEFINE P == {q \in DOMAIN chunks : q[1] = i}
<1>1. /\ ListSound(maps) /\ MapSound(maps[i]) /\ AllChained(maps) /\ i # 0
      /\ {p \in DOMAIN chunks : p[1] # 0} = FilledIn(maps)
      /\ \A p \in DOMAIN chunks : p[1] # 0 => SizeIn(maps, p) >= chunks[p]
  BY ListChained DEF MapInv, ListSound, HeldIn
<1>2. ChainSound(maps[i].mk, MapSize)
  <2>1. Chained(maps[i].mk, LastBlock(MapSize)) /\ LastBlock(MapSize) # 0
    BY <1>1, Sizings DEF MapSound, Last
  <2> QED  BY <2>1, ChainedIsSound
<1>3. ASSUME NEW m \in FilledOf(maps[i].mk) PROVE \E p \in P : m = p[2] - MarkSize
  <2>1. <<i, m + MarkSize>> \in FilledIn(maps)
    BY InFilled
  <2>2. <<i, m + MarkSize>> \in P
    BY <1>1, <2>1
  <2>3. m \in Nat /\ MarkSize \in Nat
    BY <1>1, MarkFacts, Sizings DEF MapSound, FilledOf
  <2>4. m = <<i, m + MarkSize>>[2] - MarkSize
    BY <2>3
  <2> QED  BY <2>2, <2>4
<1>4. ASSUME NEW p \in P PROVE p[2] - MarkSize \in FilledOf(maps[i].mk)
  BY <1>1, PointerParts
<1>5. ASSUME NEW p \in DOMAIN chunks, p[1] = i
      PROVE  maps[i].mk[p[2] - MarkSize].next.size >= chunks[p]
  BY <1>1, <1>5 DEF SizeIn
<1> QED  BY <1>2, <1>3, <1>4, <1>5

(* The types follow.                                                       *)
LEMMA MapTypes == MapInv /\ Len(maps) <= MaxMaps => TypeOK
<1> SUFFICES ASSUME MapInv, Len(maps) <= MaxMaps PROVE TypeOK
  OBVIOUS
<1>1. ASSUME NEW i \in DOMAIN maps
      PROVE  /\ maps[i].maxfree \in 0 .. MapSize
             /\ maps[i].first \in DOMAIN maps[i].mk
             /\ \A x \in DOMAIN maps[i].helper : maps[i].helper[x] \in 0 .. HelperMax
             /\ \A x \in DOMAIN maps[i].dblist : maps[i].dblist[x] \in Dynablocks
  <2> DEFINE m == maps[i]
  <2>1. MapSound(m)
    BY DEF MapInv, ListSound
  <2> HIDE DEF m
  <2>2. /\ Chained(m.mk, Last) /\ MaxFreeOK(m.mk, Last, m.maxfree)
        /\ m.first \in DOMAIN m.mk
        /\ \A x \in DOMAIN m.helper : m.helper[x] \in 0 .. HelperMax
        /\ \A x \in DOMAIN m.dblist : m.dblist[x] \in Dynablocks
    BY <2>1 DEF MapSound, FirstOK, HelperOK
  <2>3. m.maxfree \in 0 .. MapSize
    <3>1. CASE m.maxfree = 0
      BY <3>1, Sizings
    <3>2. CASE m.maxfree # 0
      <4>1. PICK x \in DOMAIN m.mk : FreeSub(m.mk, Last, x) /\ m.mk[x].next.size = m.maxfree
        BY <2>2, <3>2 DEF MaxFreeOK
      <4>2. /\ NextBlock(m.mk, x) \in DOMAIN m.mk
            /\ NextBlock(m.mk, x) = x + m.mk[x].next.size + MarkSize
        BY <2>2, <4>1, LinkFacts DEF FreeSub
      <4>3. x \in Nat /\ m.maxfree \in Nat /\ NextBlock(m.mk, x) <= Last
        BY <2>2, <4>1, <4>2, MarkFacts
      <4> QED  BY <4>1, <4>2, <4>3, Sizings
    <3> QED  BY <3>1, <3>2
  <2> QED  BY <2>2, <2>3 DEF m
<1>2. DOMAIN owner = DOMAIN chunks
  BY DEF MapInv, OwnedIn
<1> QED  BY <1>1, <1>2 DEF TypeOK

(* Whatever AllocDynarecMap and FreeDynarecMap do, with maps and code of   *)
(* any size, the marks of every map form one chain with its free           *)
(* neighbours merged, its filled subblocks are exactly the native code in  *)
(* use, and the searches start at the first free subblock.                 *)
THEOREM MapsAlwaysSound == Spec => []MapsSound
<1>1. MapInv => FirstIsFirstFree
  BY DEF MapInv, ListSound, MapSound, FirstOK, FirstIsFirstFree
<1>2. MapInv /\ Len(maps) <= MaxMaps => MapsSound
  BY <1>1, MapCode, MapTypes DEF MapsSound
<1> QED  BY <1>2, MapAlways, PTL

(* A map that promises room for a block of code has it: the branch "sub    *)
(* not found, corrupted mmaplist" of FindFreeDynarecMap, which leaves the  *)
(* map locked for ever, is never taken.                                    *)
THEOREM NeverLockedAlways == Spec => []NeverLocked
<1>1. MapInv => NeverLocked
  <2> SUFFICES ASSUME MapInv, NEW i \in DOMAIN maps PROVE maps[i].locked = 0
    BY DEF NeverLocked
  <2> DEFINE m == maps[i]
  <2>1. m = [mk |-> m.mk, first |-> m.first, locked |-> 0, maxfree |-> m.maxfree,
             dblist |-> m.dblist, helper |-> m.helper]
    BY DEF MapInv, ListSound, MapSound
  <2> HIDE DEF m
  <2>2. m.locked = 0
    BY <2>1
  <2> QED  BY <2>2 DEF m
<1> QED  BY <1>1, MapAlways, PTL

(* FindDynablockFromNativeAddress, with the helper that FindFreeDynarecMap *)
(* writes one byte short and ActuallyFreeDynarecMap clears one mark early, *)
(* leads from any byte of a block in use back to that block, but for the   *)
(* bytes a positive multiple of HelperMax after its start.                 *)
THEOREM LookupAlwaysFinds == Spec => []LookupFinds
<1>1. MapInv => LookupFinds
  <2> SUFFICES ASSUME MapInv, NEW p \in DOMAIN chunks, p[1] # 0,
                      NEW o \in 0 .. chunks[p] - 1, o % HelperMax # 0 \/ o = 0
               PROVE  FindDynablock(p[1], p[2] + o) = owner[p]
    BY DEF LookupFinds
  <2> DEFINE m == maps[p[1]]
             r == p[2]
             n == chunks[p]
  <2>1. p \in FilledIn(maps) /\ ListSound(maps)
    BY DEF MapInv, HeldIn
  <2>2. /\ n \in Sizes /\ SizeIn(maps, p) >= n
        /\ r \in DOMAIN m.dblist /\ m.dblist[r] = owner[p] /\ HelperFor(m.helper, r, n)
    BY <2>1, OwnedNow
  <2>3. /\ p[1] \in DOMAIN maps /\ r \in Nat
        /\ SizeIn(maps, p) \in Nat /\ r + SizeIn(maps, p) < MapSize
    BY <2>1, InMap
  <2>4. n \in Nat /\ r + n < MapSize
    BY <2>2, <2>3, Sizings
  <2>5. HelperOK(m.helper)
    BY <2>1, <2>3 DEF ListSound, MapSound
  <2>6. PICK g : /\ BackEq(m.helper, MapSize - 1, g)
                 /\ \A q : FindDynablock(p[1], q) = IF g[q] \in DOMAIN m.dblist
                                                    THEN m.dblist[g[q]] ELSE NoDynablock
    BY <2>3, <2>5, LookupIs
  <2>7. g[r + o] = r
    <3>1. \A k \in 0 .. n - 1 : (k % HelperMax # 0 \/ k = 0) => g[r + k] = r
      <4> HIDE DEF m, r, n
      <4> QED  BY <2>2, <2>3, <2>4, <2>5, <2>6, WalkBack
    <3> QED  BY <3>1
  <2> QED  BY <2>2, <2>6, <2>7
<1> QED  BY <1>1, MapAlways, PTL

(* Pieces of native code never overlap, in the maps or among the large     *)
(* blocks with a mapping of their own, and stay where they are until they  *)
(* are freed: the maps implement the abstract allocator.                   *)
THEOREM DynarecMapImplementsAllocator == Spec => ImplementsAllocator
<1>1. Init => Chunks!Init
  BY DEF Init, Chunks!Init
<1>2. MapInv /\ [Next]_vars => [Chunks!Alloc \/ Chunks!TakeBack]_chunks
  BY MapStep
<1> QED  BY <1>1, <1>2, MapAlways, PTL DEF Spec, ImplementsAllocator, Chunks!FixedSpec
=============================================================================
