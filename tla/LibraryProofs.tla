---------------------------- MODULE LibraryProofs ----------------------------
(***************************************************************************)
(* The safety properties of Library, for any libraries, any graph of       *)
(* needed libraries in which no wrapped one needs itself, and any bounds.  *)
(*                                                                         *)
(* Structure: the lists, the calls of AddNeededLib, the graph of needed    *)
(* and dependent libraries and the frames of dlopen agree (ListsSound).    *)
(* ExitOK: the walk of freeLibraryRecurse (ExitOrder).  Running: nothing   *)
(* that was loaded is left behind (Complete), the deferred inits are in    *)
(* order (InitsOK) and fini functions belong to closed handles (FiniOK):   *)
(* DepsFirst and FiniAfterInit follow.  OneHandle: a library has one       *)
(* handle unless an init function opened it again (OpenIsLive).            *)
(***************************************************************************)
EXTENDS Library, WellFoundedInduction, TLAPS

(* What a call was given to load: the library of dlopen, or the DT_NEEDED  *)
(* entries of its library.                                                 *)
Paths(u) == IF u = None THEN {Top.lib} ELSE Range(Needs[u])

(* A call under way.  What it was given is in its list of needed libraries *)
(* or still to be added; below another call, it waits for the library of   *)
(* that one.                                                               *)
CallOK(i) ==
  LET c == calls[i] IN
  /\ IF i = 1 THEN c.me \in {Main, None} ELSE c.me \in Libs
  /\ c.local => c.me = None
  /\ c.idx <= Len(needed[c.me])
  /\ c.phase = "add" => /\ Range(c.todo) \subseteq Paths(c.me)
                        /\ Paths(c.me) \subseteq Range(needed[c.me]) \cup Range(c.todo)
  /\ c.phase = "init" => /\ Range(c.todo) \subseteq Range(needed[c.me])
                         /\ Paths(c.me) \subseteq Range(needed[c.me])
  /\ i < Len(calls) =>
       /\ c.todo # << >> /\ Head(c.todo) = calls[i + 1].me
       /\ \/ c.phase = "add" /\ calls[i + 1].me \in Native \ Owned
          \/ c.phase = "init" /\ calls[i + 1].me \in Emulated

(* The calls under way: guest code does not run, the inits are deferred,   *)
(* and the library of an inner call is needed by those of the outer ones.  *)
CallsOK ==
  /\ calls # << >> => /\ deferedInit /\ ~exiting /\ stack # << >>
                      /\ Top.running = None /\ Top.todo = << >> /\ Top.handle = 0
                      /\ calls[1].me = None => Top.lib \in Libs
                      /\ calls[1].me = Main => Top.lib = Main
  /\ \A i \in DOMAIN calls : CallOK(i)
  /\ \A i, j \in DOMAIN calls : 1 < i /\ i < j => calls[j].me \in Reach[calls[i].me]

(* needed follows the DT_NEEDED entries, depended is its converse, and     *)
(* what a library needs is global.                                         *)
GraphOK ==
  /\ \A x \in Libs \cup {Main} : Range(needed[x]) \subseteq Range(Needs[x])
  /\ \A x, y \in Libs : y \in Range(needed[x]) <=> x \in Range(depended[y])
  /\ \A x \in Libs : Range(needed[x]) \subseteq Range(maplib)
  /\ \A x \in Libs : needed[x] # << >> => x \in Owned \/ \E i \in DOMAIN calls : calls[i].me = x

(* Only emulated libraries have init functions, and only owned ones are    *)
(* finalized.                                                              *)
EmulatedOnly ==
  /\ Range(defered) \subseteq Emulated
  /\ \A i \in DOMAIN stack : Range(stack[i].todo) \subseteq Emulated
  /\ \A x \in Libs : finalized[x] => x \in Emulated \cap Owned

(* FreeLibrarian looks at a library of its list.                           *)
NextOK == maps # << >> => next <= Len(Head(maps))

(* The call i will still initialise y.                                     *)
Covers(i, y) ==
  LET c == calls[i] IN
  \/ c.phase = "add" /\ \E k \in c.idx + 1 .. Len(needed[c.me]) : needed[c.me][k] = y
  \/ c.phase = "init" /\ y \in Range(c.todo)

(* Unless something was not found: what is needed or owned is finalized or *)
(* some call has still to do it, and a finalized library has all it needs  *)
(* in its list.                                                            *)
Complete == ~failed =>
  /\ \A i \in DOMAIN calls : calls[i].phase # "fail"
  /\ \A u \in User : \A y \in Range(needed[u]) \cap Emulated :
       finalized[y] \/ \E i \in DOMAIN calls : calls[i].me = u /\ Covers(i, y)
  /\ \A y \in Owned \cap Emulated : finalized[y] \/ \E i \in DOMAIN calls : Covers(i, y)
  /\ \A x \in Owned : x \in Native \/ finalized[x] => Range(Needs[x]) \subseteq Range(needed[x])

(* The libraries whose init functions have run, even if their fini         *)
(* functions ran since; those that are relocated; and those that the       *)
(* frames 1 .. j have still to initialise.                                 *)
Done == {x \in Libs : initDone[x] \/ finiDone[x]}
Final == {x \in Libs : finalized[x]}
Pend(f) == {x \in Libs : f.running = x \/ x \in Range(f.todo)}
Out(j) == {x \in Libs : \E i \in 1 .. j : x \in Pend(stack[i])}

(* In the list s a library comes after everything it needs, but for T.     *)
Ordered(s, T) ==
  \A k \in DOMAIN s : s[k] \notin Reach[s[k]] =>
    \A x \in Reach[s[k]] \cap Emulated : x \in T \/ \E j \in 1 .. k - 1 : s[j] = x

(* A dlopen that called another one is in an init function.                *)
Waiting == \A j \in DOMAIN stack : j < Len(stack) => stack[j].running # None

(* Unless something was not found: a finalized library is initialised,     *)
(* deferred or in the list of a frame, and in each list it comes after     *)
(* what it needs.                                                          *)
InitsOK == ~failed =>
  /\ calls = << >> => ~deferedInit /\ defered = << >>
  /\ Final \subseteq Done \cup Range(defered) \cup Out(Len(stack))
  /\ \A x \in Libs : initDone[x] => finalized[x]
  /\ Range(defered) \cup Out(Len(stack)) \subseteq Final
  /\ Ordered(defered, Done \cup Out(Len(stack)))
  /\ \A j \in DOMAIN stack : Ordered(stack[j].todo, Done \cup {stack[j].running} \cup Out(j - 1))

(* The frames of dlopen: one that counts has a handle of its library, and  *)
(* the library of a frame is owned once it is loaded.                      *)
FramesOK ==
  \A j \in DOMAIN stack :
    /\ stack[j].handle > 0 =>
         /\ dl[stack[j].handle].lib = stack[j].lib /\ dl[stack[j].handle].dlopened
         /\ stack[j].lib \in Emulated
         /\ \/ stack[j].todo = <<stack[j].lib>> /\ stack[j].running = None
            \/ stack[j].todo = << >> /\ stack[j].running \in {None, stack[j].lib}
    /\ stack[j].lib = Main => stack[j].handle = 0 /\ ~stack[j].dlopened
    /\ stack[j].lib \in Owned \cup {Main} \/ (calls # << >> /\ j = Len(stack))

(* Fini functions take the init of an emulated library back.               *)
FiniUndoes == \A x \in Libs : finiDone[x] => ~initDone[x] /\ x \in Emulated

(* Before exit they run only for a library whose handle was closed.        *)
FiniCloses == ~failed /\ ~exiting => \A x \in Libs : finiDone[x] => Closed(x)

(* An open handle that loaded its library: the library is initialised.     *)
OpenInited == ~failed /\ ~exiting =>
  \A i \in DOMAIN dl : dl[i].dlopened /\ dl[i].count > 0 /\ dl[i].lib \in Emulated => initDone[dl[i].lib]

(* A dlopen past its loading has its library initialised or in its list.   *)
FramesInited == ~failed =>
  \A j \in DOMAIN stack :
    /\ stack[j].dlopened \/ stack[j].handle > 0
    /\ stack[j].lib \in Emulated
    /\ calls = << >> \/ j # Len(stack)
    => initDone[stack[j].lib] \/ stack[j].lib \in Pend(stack[j])

(* While the dlopen is loading, its library is deferred once it is         *)
(* relocated.                                                              *)
TopDefered == ~failed /\ calls # << >> /\ Top.dlopened /\ finalized[Top.lib] => Top.lib \in Range(defered)
FiniOK == FiniUndoes /\ FiniCloses /\ OpenInited /\ FramesInited /\ TopDefered

(* Frame j will add a handle for a library that it loaded itself.          *)
NewFrame(j) == stack[j].handle = 0 /\ stack[j].dlopened

(* At most one handle or frame loaded a library itself.                    *)
OneDlopened ==
  /\ \A i, j \in DOMAIN dl : dl[i].dlopened /\ dl[j].dlopened /\ dl[i].lib = dl[j].lib => i = j
  /\ \A i \in DOMAIN dl, j \in DOMAIN stack : dl[i].dlopened /\ NewFrame(j) => dl[i].lib # stack[j].lib
  /\ \A i, j \in DOMAIN stack : NewFrame(i) /\ NewFrame(j) /\ stack[i].lib = stack[j].lib => i = j

(* A library that was not reentered has one handle or one frame, or the    *)
(* frame counts on the handle; it is inactive only when it is closed.      *)
HandlesApart == \A i, j \in DOMAIN dl : dl[i].lib = dl[j].lib /\ dl[i].lib \notin reentered => i = j
FrameHandle == \A i \in DOMAIN dl, j \in DOMAIN stack : dl[i].lib = stack[j].lib /\ dl[i].lib \notin reentered =>
                 stack[j].handle = i /\ dl[i].count = 0
FramesApart == \A i, j \in DOMAIN stack : stack[i].lib = stack[j].lib /\ stack[i].lib \in Libs \ reentered => i = j
InactiveClosed == \A l \in Owned \ reentered : ~active[l] =>
                    l \in Emulated /\ Closed(l) /\ \A j \in DOMAIN stack : stack[j].lib # l
OneHandle == HandlesApart /\ FrameHandle /\ FramesApart /\ InactiveClosed

(* A call of freeLibraryRecurse: the dependents in the list that is freed  *)
(* are entered or still to come.                                           *)
FreeOK(i) ==
  LET f == frees[i] IN
  /\ f.lib \notin freed /\ f.lib \in Range(Head(maps))
  /\ Range(f.todo) \subseteq Range(depended[f.lib])
  /\ Range(depended[f.lib]) \cap Range(Head(maps)) \subseteq Range(f.todo) \cup entered

(* endBox64: the local list goes first, the libraries behind the loop      *)
(* index are entered, a library is freed after its dependents in the list  *)
(* were entered, and each call of freeLibraryRecurse is for a library that *)
(* needs the ones below it.                                                *)
ExitOK ==
  /\ ~exiting => maps = << >> /\ frees = << >> /\ entered = {} /\ freed = {}
  /\ exiting => /\ stack = << >> /\ calls = << >>
                /\ \/ Len(maps) = 2 /\ maps[1] = local_maplib /\ maps[2] = maplib
                   \/ Len(maps) = 1 /\ maps[1] = maplib
                   \/ maps = << >>
                /\ maps # << >> => \A k \in next + 1 .. Len(Head(maps)) : Head(maps)[k] \in entered
                /\ freed \subseteq Owned
                /\ Len(maps) = 2 => freed \subseteq Range(local_maplib)
                /\ Len(maps) < 2 => Range(local_maplib) \subseteq freed
  /\ frees # << >> => maps # << >>
  /\ entered = freed \cup {frees[i].lib : i \in DOMAIN frees}
  /\ \A i, j \in DOMAIN frees : frees[i].lib = frees[j].lib => i = j
  /\ \A i \in DOMAIN frees : FreeOK(i)
  /\ \A l \in freed : \A u \in Range(depended[l]) :
        {l, u} \subseteq Range(maplib) \/ {l, u} \subseteq Range(local_maplib) => u \in entered
  /\ \A i, j \in DOMAIN frees : i < j => frees[i].lib \in ReachIn(needed, frees[j].lib)

-----------------------------------------------------------------------------
(* What Append does to a list: its length, its elements and its range.     *)
LEMMA AppendFacts ==
  ASSUME NEW S, NEW s \in Seq(S), NEW e \in S
  PROVE  /\ Append(s, e) \in Seq(S) /\ Append(s, e) # << >>
         /\ Len(Append(s, e)) = Len(s) + 1 /\ DOMAIN Append(s, e) = 1 .. Len(s) + 1
         /\ \A i \in 1 .. Len(s) : Append(s, e)[i] = s[i]
         /\ Append(s, e)[Len(s) + 1] = e
         /\ Range(Append(s, e)) = Range(s) \cup {e}
<1>1. /\ Append(s, e) \in Seq(S) /\ Append(s, e) # << >>
      /\ Len(Append(s, e)) = Len(s) + 1 /\ DOMAIN Append(s, e) = 1 .. Len(s) + 1
      /\ \A i \in 1 .. Len(s) : Append(s, e)[i] = s[i]
      /\ Append(s, e)[Len(s) + 1] = e /\ DOMAIN s = 1 .. Len(s) /\ Len(s) \in Nat
  OBVIOUS
<1> DEFINE t == Append(s, e)
<1> HIDE DEF t
<1>2. /\ DOMAIN t = 1 .. Len(s) + 1 /\ \A i \in 1 .. Len(s) : t[i] = s[i]
      /\ t[Len(s) + 1] = e /\ DOMAIN s = 1 .. Len(s) /\ Len(s) \in Nat
  BY <1>1 DEF t
<1>3. Range(t) = Range(s) \cup {e}
  BY <1>2 DEF Range
<1> QED  BY <1>1, <1>3 DEF t

(* What Head and Tail take from a list, as the loops over the needed       *)
(* libraries do.                                                           *)
LEMMA TailFacts ==
  ASSUME NEW S, NEW s \in Seq(S), s # << >>
  PROVE  /\ Tail(s) \in Seq(S) /\ Head(s) \in S /\ Head(s) = s[1] /\ 1 \in DOMAIN s
         /\ Len(Tail(s)) = Len(s) - 1 /\ Len(s) \in Nat /\ Len(s) > 0
         /\ \A i \in DOMAIN Tail(s) : i + 1 \in DOMAIN s /\ Tail(s)[i] = s[i + 1]
         /\ Range(s) = Range(Tail(s)) \cup {Head(s)}
<1>1. /\ Tail(s) \in Seq(S) /\ Head(s) \in S /\ Head(s) = s[1] /\ Len(s) \in Nat /\ Len(s) > 0
      /\ Len(Tail(s)) = Len(s) - 1 /\ DOMAIN Tail(s) = 1 .. Len(s) - 1 /\ DOMAIN s = 1 .. Len(s)
      /\ \A i \in 1 .. Len(s) - 1 : Tail(s)[i] = s[i + 1]
  OBVIOUS
<1> DEFINE t == Tail(s)
           h == Head(s)
<1>2. /\ h = s[1] /\ Len(s) \in Nat /\ Len(s) > 0
      /\ DOMAIN t = 1 .. Len(s) - 1 /\ DOMAIN s = 1 .. Len(s)
      /\ \A i \in 1 .. Len(s) - 1 : t[i] = s[i + 1]
  BY <1>1
<1> HIDE DEF t, h
<1>3. ASSUME NEW i \in 1 .. Len(s), i # 1 PROVE i - 1 \in DOMAIN t /\ t[i - 1] = s[i]
  BY <1>2, <1>3
<1>4. Range(s) = Range(t) \cup {h}
  <2>1. ASSUME NEW x \in Range(s) PROVE x \in Range(t) \cup {h}
    <3>1. PICK i \in 1 .. Len(s) : x = s[i]
      BY <1>2 DEF Range
    <3> QED  BY <1>2, <1>3, <3>1 DEF Range
  <2>2. ASSUME NEW x \in Range(t) PROVE x \in Range(s)
    <3>1. PICK i \in 1 .. Len(s) - 1 : x = t[i]
      BY <1>2 DEF Range
    <3> QED  BY <1>2, <3>1 DEF Range
  <2>3. h \in Range(s)
    BY <1>2 DEF Range
  <2> QED  BY <2>1, <2>2, <2>3
<1> QED  BY <1>1, <1>4 DEF t, h

(* Two intervals from 1 that are equal end at the same number.             *)
LEMMA SameInterval ==
  ASSUME NEW a \in Nat, NEW b \in Int, b >= 0, 1 .. a = 1 .. b
  PROVE  a = b
<1>1. a > 0 => a \in 1 .. b
  OBVIOUS
<1>2. b > 0 => b \in 1 .. a
  OBVIOUS
<1> QED  BY <1>1, <1>2

(* What Front and Last take from a list, as a call or a dlopen that        *)
(* returns does.                                                           *)
LEMMA FrontFacts ==
  ASSUME NEW S, NEW s \in Seq(S), s # << >>
  PROVE  /\ Front(s) \in Seq(S) /\ Last(s) \in S /\ Len(s) \in DOMAIN s /\ Len(s) \in Nat /\ Len(s) > 0
         /\ Len(Front(s)) = Len(s) - 1 /\ DOMAIN Front(s) = 1 .. Len(s) - 1
         /\ DOMAIN s = 1 .. Len(s) /\ Last(s) = s[Len(s)]
         /\ \A i \in 1 .. Len(s) - 1 : Front(s)[i] = s[i]
         /\ Range(s) = Range(Front(s)) \cup {Last(s)}
<1>1. /\ Len(s) \in DOMAIN s /\ Len(s) \in Nat /\ Len(s) > 0 /\ DOMAIN s = 1 .. Len(s)
      /\ \A i \in 1 .. Len(s) : s[i] \in S
  OBVIOUS
<1>2. Last(s) = s[Len(s)] /\ Last(s) \in S
  BY <1>1 DEF Last
<1> DEFINE t == Front(s)
<1>3. /\ t \in Seq(S) /\ DOMAIN t = 1 .. Len(s) - 1 /\ \A i \in 1 .. Len(s) - 1 : t[i] = s[i]
  BY DEF Front
<1> HIDE DEF t
<1>4. Len(t) = Len(s) - 1
  <2>0. Len(s) - 1 \in Int /\ Len(s) - 1 >= 0
    BY <1>1
  <2>1. PICK n \in Int : n = Len(s) - 1 /\ n >= 0
    BY <2>0
  <2>2. Len(t) \in Nat /\ 1 .. Len(t) = 1 .. n
    BY <1>3, <2>1
  <2>3. Len(t) = n
    BY <2>1, <2>2, SameInterval
  <2> QED  BY <2>1, <2>3
<1>5. Range(s) = Range(t) \cup {s[Len(s)]}
  BY <1>1, <1>3 DEF Range
<1> QED  BY <1>1, <1>2, <1>3, <1>4, <1>5 DEF t

(* Replacing the last element: SetCur, SetTop.                             *)
LEMMA ReplaceFacts ==
  ASSUME NEW S, NEW s \in Seq(S), s # << >>, NEW e \in S
  PROVE  LET t == Append(Front(s), e)
         IN /\ t \in Seq(S) /\ Len(t) = Len(s) /\ DOMAIN t = 1 .. Len(s) /\ t # << >>
            /\ t[Len(s)] = e /\ \A i \in 1 .. Len(s) - 1 : t[i] = s[i]
<1>1. /\ Front(s) \in Seq(S) /\ Len(Front(s)) = Len(s) - 1 /\ Len(s) \in Nat /\ Len(s) > 0
      /\ DOMAIN s = 1 .. Len(s) /\ \A i \in 1 .. Len(s) - 1 : Front(s)[i] = s[i]
  BY FrontFacts
<1> DEFINE t == Append(Front(s), e)
<1>2. /\ t \in Seq(S) /\ Len(t) = Len(s) /\ DOMAIN t = 1 .. Len(s) /\ t # << >>
      /\ \A i \in 1 .. Len(s) - 1 : t[i] = s[i]
      /\ t[Len(s)] = e
  BY <1>1, AppendFacts
<1> QED  BY <1>1, <1>2

(* The last element goes and the one below it is replaced: a call of       *)
(* AddNeededLib returns to its caller.                                     *)
LEMMA PopFacts ==
  ASSUME NEW S, NEW s \in Seq(S), Len(s) > 1, NEW e \in S
  PROVE  /\ Last(Front(s)) = s[Len(s) - 1] /\ Last(s) = s[Len(s)]
         /\ s[Len(s)] \in S /\ s[Len(s) - 1] \in S /\ s # << >>
         /\ LET t == Append(Front(Front(s)), e)
            IN /\ t \in Seq(S) /\ Len(t) = Len(s) - 1 /\ DOMAIN t = 1 .. Len(s) - 1 /\ t # << >>
               /\ t[Len(s) - 1] = e /\ \A i \in 1 .. Len(s) - 2 : t[i] = s[i]
<1>0. s # << >> /\ Len(s) \in Nat
  OBVIOUS
<1>1. /\ Front(s) \in Seq(S) /\ Len(Front(s)) = Len(s) - 1 /\ DOMAIN s = 1 .. Len(s)
      /\ \A i \in 1 .. Len(s) - 1 : Front(s)[i] = s[i]
      /\ Last(s) = s[Len(s)] /\ Last(s) \in S
  BY <1>0, FrontFacts
<1> DEFINE f == Front(s)
           t == Append(Front(f), e)
<1>t. t = Append(Front(Front(s)), e)
  OBVIOUS
<1> HIDE DEF f
<1>2. f \in Seq(S) /\ Len(f) = Len(s) - 1 /\ f # << >> /\ \A i \in 1 .. Len(s) - 1 : f[i] = s[i]
  BY <1>0, <1>1 DEF f
<1>3. /\ t \in Seq(S) /\ Len(t) = Len(f) /\ DOMAIN t = 1 .. Len(f) /\ t # << >>
      /\ t[Len(f)] = e /\ \A i \in 1 .. Len(f) - 1 : t[i] = f[i]
  BY <1>2, ReplaceFacts
<1>4. Last(f) = f[Len(f)] /\ Last(f) \in S
  BY <1>2, FrontFacts
<1> HIDE DEF t
<1>5. Last(f) = s[Len(s) - 1]
  BY <1>0, <1>2, <1>4
<1>6. \A i \in 1 .. Len(s) - 2 : t[i] = s[i]
  BY <1>0, <1>2, <1>3
<1>7. Last(Front(s)) = s[Len(s) - 1] /\ s[Len(s) - 1] \in S
  BY <1>4, <1>5 DEF f
<1>8. /\ t \in Seq(S) /\ Len(t) = Len(s) - 1 /\ DOMAIN t = 1 .. Len(s) - 1 /\ t # << >>
      /\ t[Len(s) - 1] = e
  BY <1>2, <1>3
<1>9. Last(s) = s[Len(s)] /\ s[Len(s)] \in S
  BY <1>1
<1> QED  BY <1>0, <1>t, <1>6, <1>7, <1>8, <1>9

(* The range of a list holds its elements and nothing else.                *)
LEMMA RangeFacts ==
  ASSUME NEW S, NEW s \in Seq(S)
  PROVE  /\ Range(s) \subseteq S /\ DOMAIN s = 1 .. Len(s) /\ Len(s) \in Nat
         /\ \A i \in DOMAIN s : s[i] \in Range(s)
         /\ \A x : x \in Range(s) <=> \E i \in DOMAIN s : s[i] = x
BY DEF Range

(* The empty list has no elements.                                         *)
LEMMA EmptyRange == Range(<< >>) = {}
BY DEF Range

(* add_neededlib: a library already in the list leaves the list alone,     *)
(* another one goes to its end.                                            *)
LEMMA AddFacts ==
  ASSUME NEW S, NEW s \in Seq(S), NEW e \in S
  PROVE  /\ Add(s, e) \in Seq(S) /\ Range(Add(s, e)) = Range(s) \cup {e}
         /\ Len(Add(s, e)) >= Len(s)
         /\ \A i \in 1 .. Len(s) : Add(s, e)[i] = s[i]
         /\ e \notin Range(s) => Len(Add(s, e)) = Len(s) + 1 /\ Add(s, e)[Len(s) + 1] = e
         /\ e \in Range(s) => Add(s, e) = s
<1>1. CASE e \in Range(s)
  BY <1>1 DEF Add
<1>2. CASE e \notin Range(s)
  <2>1. Add(s, e) = Append(s, e)
    BY <1>2 DEF Add
  <2> QED  BY <1>2, <2>1, AppendFacts
<1> QED  BY <1>1, <1>2

(* MapLibRemoveLib takes one library from a list without duplicates and    *)
(* keeps all the others.                                                   *)
LEMMA RemoveFacts ==
  ASSUME NEW S, NEW s \in Seq(S), NEW l \in Range(s),
         \A i, j \in DOMAIN s : s[i] = s[j] => i = j
  PROVE  LET t == MapLibRemoveLib(s, l)
         IN /\ t \in Seq(S) /\ Range(t) = Range(s) \ {l}
            /\ \A i, j \in DOMAIN t : t[i] = t[j] => i = j
<1>1. PICK k0 \in DOMAIN s : s[k0] = l
  BY DEF Range
<1> DEFINE k == CHOOSE i \in DOMAIN s : s[i] = l
           t == [i \in 1 .. Len(s) - 1 |-> IF i < k THEN s[i] ELSE s[i + 1]]
<1>2. k \in DOMAIN s /\ s[k] = l
  BY <1>1
<1> HIDE DEF k
<1>3. DOMAIN s = 1 .. Len(s) /\ Len(s) \in Nat /\ k \in 1 .. Len(s)
  BY <1>2
<1>4. /\ DOMAIN t = 1 .. Len(s) - 1
      /\ \A i \in 1 .. Len(s) - 1 : i < k => t[i] = s[i]
      /\ \A i \in 1 .. Len(s) - 1 : ~(i < k) => t[i] = s[i + 1]
  OBVIOUS
<1>5. t \in Seq(S)
  <2>1. \A i \in 1 .. Len(s) - 1 : t[i] \in S
    BY <1>3
  <2>2. Len(s) - 1 \in Nat
    BY <1>3
  <2>3. PICK n \in Nat : n = Len(s) - 1
    BY <2>2
  <2>4. t = [i \in 1 .. n |-> t[i]]
    BY <2>3
  <2> HIDE DEF t
  <2> QED  BY <2>1, <2>3, <2>4
<1> HIDE DEF t
<1>6. Range(t) = Range(s) \ {l}
  <2>1. ASSUME NEW x \in Range(t) PROVE x \in Range(s) \ {l}
    <3>1. PICK i \in 1 .. Len(s) - 1 : t[i] = x
      BY <1>4 DEF Range
    <3>2. PICK j \in 1 .. Len(s) : j # k /\ s[j] = x
      BY <1>3, <1>4, <3>1
    <3> QED  BY <1>2, <1>3, <3>2 DEF Range
  <2>2. ASSUME NEW x \in Range(s), x # l PROVE x \in Range(t)
    <3>1. PICK j \in 1 .. Len(s) : s[j] = x
      BY <1>3 DEF Range
    <3>2. PICK i \in 1 .. Len(s) - 1 : t[i] = x
      <4>1. CASE j < k
        BY <1>3, <1>4, <3>1, <4>1
      <4>2. CASE j > k
        <5>1. j - 1 \in 1 .. Len(s) - 1 /\ ~(j - 1 < k) /\ (j - 1) + 1 = j
          BY <1>3, <4>2
        <5> QED  BY <1>4, <3>1, <5>1
      <4> QED  BY <1>2, <1>3, <2>2, <3>1, <4>1, <4>2
    <3> QED  BY <1>4, <3>2 DEF Range
  <2> QED  BY <2>1, <2>2
<1>7. ASSUME NEW i \in DOMAIN t, NEW j \in DOMAIN t, t[i] = t[j] PROVE i = j
  <2>1. i \in 1 .. Len(s) - 1 /\ j \in 1 .. Len(s) - 1
    BY <1>4
  <2> DEFINE a == IF i < k THEN i ELSE i + 1
             b == IF j < k THEN j ELSE j + 1
  <2>2. t[i] = s[a] /\ t[j] = s[b] /\ a \in DOMAIN s /\ b \in DOMAIN s
    BY <1>3, <1>4, <2>1
  <2>3. a = b
    BY <1>7, <2>2
  <2> QED  BY <1>3, <2>1, <2>3
<1>8. t = MapLibRemoveLib(s, l)
  BY DEF MapLibRemoveLib, t, k
<1> QED  BY <1>5, <1>6, <1>7, <1>8

-----------------------------------------------------------------------------
(* What x needs directly is in what it needs.                              *)
LEMMA ReachStep ==
  ASSUME NEW N, NEW x, Range(N[x]) \subseteq Libs
  PROVE  Range(N[x]) \subseteq ReachIn(N, x)
BY DEF ReachIn

(* What is needed by something x needs is needed by x.                     *)
LEMMA ReachTrans ==
  ASSUME NEW N, NEW x, NEW y \in ReachIn(N, x)
  PROVE  ReachIn(N, y) \subseteq ReachIn(N, x)
<1> SUFFICES ASSUME NEW z \in ReachIn(N, y), NEW S \in SUBSET Libs,
                    Range(N[x]) \subseteq S, \A w \in S : Range(N[w]) \subseteq S
             PROVE  z \in S
  BY DEF ReachIn
<1>1. y \in S
  BY DEF ReachIn
<1> QED  BY <1>1 DEF ReachIn

(* A set that holds what x needs and what its own members need holds       *)
(* everything x needs.                                                     *)
LEMMA ReachLeast ==
  ASSUME NEW N, NEW x, NEW S \in SUBSET Libs,
         Range(N[x]) \subseteq S, \A z \in S : Range(N[z]) \subseteq S
  PROVE  ReachIn(N, x) \subseteq S
BY DEF ReachIn

(* Only libraries are needed.                                              *)
LEMMA ReachInLibs == \A N, x : ReachIn(N, x) \subseteq Libs
BY DEF ReachIn

(* The DT_NEEDED entries of the libraries and of the program are           *)
(* libraries, and Reach is closed under them.                              *)
LEMMA NeedsFacts ==
  /\ \A x \in Libs \cup {Main} : Needs[x] \in Seq(Libs) /\ Range(Needs[x]) \subseteq Libs
  /\ \A x \in Libs \cup {Main} : Range(Needs[x]) \subseteq Reach[x] /\ Reach[x] \subseteq Libs
  /\ \A x \in Libs \cup {Main} : \A y \in Reach[x] : Reach[y] \subseteq Reach[x]
  /\ \A x \in Libs \cup {Main} : Reach[x] = ReachIn(Needs, x)
<1>1. ASSUME NEW x \in Libs \cup {Main} PROVE Needs[x] \in Seq(Libs) /\ Range(Needs[x]) \subseteq Libs
  BY LibraryAssumption, RangeFacts
<1>2. ASSUME NEW x \in Libs \cup {Main} PROVE Reach[x] = ReachIn(Needs, x)
  BY DEF Reach
<1>3. ASSUME NEW x \in Libs \cup {Main} PROVE Range(Needs[x]) \subseteq Reach[x] /\ Reach[x] \subseteq Libs
  BY <1>1, <1>2, ReachStep, ReachInLibs
<1>4. ASSUME NEW x \in Libs \cup {Main}, NEW y \in Reach[x] PROVE Reach[y] \subseteq Reach[x]
  <2>1. y \in Libs /\ y \in ReachIn(Needs, x)
    BY <1>2, <1>3
  <2> QED  BY <1>2, <2>1, ReachTrans
<1> QED  BY <1>1, <1>2, <1>3, <1>4

(* The lists of needed and of dependent libraries once l is recorded for   *)
(* me.                                                                     *)
LEMMA RecordFacts ==
  ASSUME needed \in [User -> Seq(Libs)], depended \in [Libs -> Seq(Libs)],
         NEW me \in User, NEW l \in Libs, Record(me, l)
  PROVE  /\ needed' \in [User -> Seq(Libs)] /\ depended' \in [Libs -> Seq(Libs)]
         /\ \A u \in User : u # me => needed'[u] = needed[u]
         /\ Range(needed'[me]) = Range(needed[me]) \cup {l}
         /\ \A u \in User : /\ Len(needed[u]) \in Nat /\ Len(needed'[u]) \in Nat
                            /\ Len(needed'[u]) >= Len(needed[u])
                            /\ \A i \in 1 .. Len(needed[u]) : needed'[u][i] = needed[u][i]
         /\ l \notin Range(needed[me]) =>
              Len(needed'[me]) = Len(needed[me]) + 1 /\ needed'[me][Len(needed[me]) + 1] = l
         /\ l \in Range(needed[me]) => needed'[me] = needed[me]
         /\ \A y \in Libs : y # l \/ me \notin Libs => depended'[y] = depended[y]
         /\ me \in Libs => Range(depended'[l]) = Range(depended[l]) \cup {me}
<1>0. needed[me] \in Seq(Libs) /\ depended[l] \in Seq(Libs)
  OBVIOUS
<1> DEFINE nn == Add(needed[me], l)
           dd == Add(depended[l], me)
<1>1. /\ nn \in Seq(Libs) /\ Range(nn) = Range(needed[me]) \cup {l}
      /\ Len(nn) >= Len(needed[me])
      /\ \A i \in 1 .. Len(needed[me]) : nn[i] = needed[me][i]
      /\ l \notin Range(needed[me]) => Len(nn) = Len(needed[me]) + 1 /\ nn[Len(needed[me]) + 1] = l
      /\ l \in Range(needed[me]) => nn = needed[me]
  BY <1>0, AddFacts
<1>2. me \in Libs => dd \in Seq(Libs) /\ Range(dd) = Range(depended[l]) \cup {me}
  BY <1>0, AddFacts
<1>3. /\ needed' = [needed EXCEPT ![me] = nn]
      /\ depended' = IF me \in Libs THEN [depended EXCEPT ![l] = dd] ELSE depended
  BY DEF Record
<1> HIDE DEF nn, dd
<1>4. /\ needed' \in [User -> Seq(Libs)] /\ needed'[me] = nn
      /\ \A u \in User : u # me => needed'[u] = needed[u]
  BY <1>1, <1>3
<1>5. /\ depended' \in [Libs -> Seq(Libs)]
      /\ \A y \in Libs : y # l \/ me \notin Libs => depended'[y] = depended[y]
      /\ me \in Libs => depended'[l] = dd
  BY <1>2, <1>3
<1>6. ASSUME NEW u \in User
      PROVE  /\ Len(needed[u]) \in Nat /\ Len(needed'[u]) \in Nat
             /\ Len(needed'[u]) >= Len(needed[u])
             /\ \A i \in 1 .. Len(needed[u]) : needed'[u][i] = needed[u][i]
  <2>1. needed[u] \in Seq(Libs) /\ needed'[u] \in Seq(Libs)
    BY <1>4
  <2>2. Len(needed[u]) \in Nat /\ Len(needed'[u]) \in Nat
    BY <2>1
  <2>3. CASE u = me
    BY <1>1, <1>4, <2>2, <2>3
  <2>4. CASE u # me
    <3>1. needed'[u] = needed[u]
      BY <1>4, <2>4
    <3> QED  BY <2>2, <3>1
  <2> QED  BY <2>3, <2>4
<1> QED  BY <1>1, <1>2, <1>4, <1>5, <1>6

(* A list without duplicates.                                              *)
Unique(s) == \A i, j \in DOMAIN s : s[i] = s[j] => i = j

(* A list without duplicates that gets a new library has none.             *)
LEMMA AppendUnique ==
  ASSUME NEW S, NEW s \in Seq(S), NEW e \in S, Unique(s), e \notin Range(s)
  PROVE  Unique(Append(s, e))
<1> DEFINE t == Append(s, e)
<1>1. /\ DOMAIN t = 1 .. Len(s) + 1 /\ \A i \in 1 .. Len(s) : t[i] = s[i]
      /\ t[Len(s) + 1] = e
  BY AppendFacts
<1>2. /\ DOMAIN s = 1 .. Len(s) /\ Len(s) \in Nat /\ \A i \in 1 .. Len(s) : s[i] # e
  BY RangeFacts
<1> HIDE DEF t
<1>3. Unique(t)
  BY <1>1, <1>2 DEF Unique
<1> QED  BY <1>3 DEF t

(* A loaded library stays owned by one librarian, in the global list       *)
(* unless the call is local.                                               *)
LEMMA LoadedLists ==
  ASSUME maplib \in Seq(Libs), local_maplib \in Seq(Libs), Unique(maplib), Unique(local_maplib),
         Range(maplib) \cap Range(local_maplib) = {},
         NEW l \in Owned, NEW local \in BOOLEAN,
         IF l \in Range(maplib) \/ local THEN UNCHANGED <<maplib, local_maplib>> ELSE Promote(l)
  PROVE  /\ maplib' \in Seq(Libs) /\ local_maplib' \in Seq(Libs) /\ Unique(maplib') /\ Unique(local_maplib')
         /\ Range(maplib') \cap Range(local_maplib') = {}
         /\ Owned' = Owned /\ Range(maplib) \subseteq Range(maplib')
         /\ ~local => l \in Range(maplib')
<1>1. CASE l \in Range(maplib) \/ local
  <2>1. maplib' = maplib /\ local_maplib' = local_maplib
    BY <1>1
  <2> QED  BY <1>1, <2>1 DEF Owned
<1>2. CASE ~(l \in Range(maplib) \/ local)
  <2>1. /\ maplib' = Append(maplib, l) /\ local_maplib' = MapLibRemoveLib(local_maplib, l)
        /\ l \in Range(local_maplib) /\ l \notin Range(maplib) /\ l \in Libs
    BY <1>2, RangeFacts DEF Promote, Owned
  <2>2. maplib' \in Seq(Libs) /\ Range(maplib') = Range(maplib) \cup {l}
    BY <2>1, AppendFacts
  <2>3. Unique(maplib')
    BY <2>1, AppendUnique
  <2>4. /\ local_maplib' \in Seq(Libs) /\ Range(local_maplib') = Range(local_maplib) \ {l}
        /\ Unique(local_maplib')
    BY <2>1, RemoveFacts DEF Unique
  <2> QED  BY <2>1, <2>2, <2>3, <2>4 DEF Owned
<1> QED  BY <1>1, <1>2

(* A new library goes into one list, the global one unless the call is     *)
(* local.                                                                  *)
LEMMA NewLists ==
  ASSUME maplib \in Seq(Libs), local_maplib \in Seq(Libs), Unique(maplib), Unique(local_maplib),
         Range(maplib) \cap Range(local_maplib) = {},
         NEW l \in Libs \ Owned, NEW local \in BOOLEAN,
         maplib' = IF local THEN maplib ELSE Append(maplib, l),
         local_maplib' = IF local THEN Append(local_maplib, l) ELSE local_maplib
  PROVE  /\ maplib' \in Seq(Libs) /\ local_maplib' \in Seq(Libs) /\ Unique(maplib') /\ Unique(local_maplib')
         /\ Range(maplib') \cap Range(local_maplib') = {}
         /\ Owned' = Owned \cup {l} /\ Range(maplib) \subseteq Range(maplib')
         /\ ~local => l \in Range(maplib')
<1>0. l \notin Range(maplib) /\ l \notin Range(local_maplib)
  BY DEF Owned
<1>1. CASE local
  <2>1. maplib' = maplib /\ local_maplib' = Append(local_maplib, l)
    BY <1>1
  <2>2. local_maplib' \in Seq(Libs) /\ Range(local_maplib') = Range(local_maplib) \cup {l} /\ Unique(local_maplib')
    BY <1>0, <2>1, AppendFacts, AppendUnique
  <2> QED  BY <1>0, <1>1, <2>1, <2>2 DEF Owned
<1>2. CASE ~local
  <2>1. maplib' = Append(maplib, l) /\ local_maplib' = local_maplib
    BY <1>2
  <2>2. maplib' \in Seq(Libs) /\ Range(maplib') = Range(maplib) \cup {l} /\ Unique(maplib')
    BY <1>0, <2>1, AppendFacts, AppendUnique
  <2> QED  BY <1>0, <1>2, <2>1, <2>2 DEF Owned
<1> QED  BY <1>1, <1>2

(* The innermost call of AddNeededLib is the last of the stack.            *)
LEMMA CurFacts ==
  ASSUME calls \in Seq(CallSet), calls # << >>
  PROVE  /\ Cur = calls[Len(calls)] /\ Cur \in CallSet /\ Len(calls) \in Nat /\ Len(calls) > 0
         /\ DOMAIN calls = 1 .. Len(calls) /\ \A i \in 1 .. Len(calls) : calls[i] \in CallSet
BY FrontFacts DEF Cur

(* The innermost call is replaced.                                         *)
LEMMA SetCurFacts ==
  ASSUME calls \in Seq(CallSet), calls # << >>, NEW c \in CallSet, calls' = SetCur(c)
  PROVE  /\ calls' \in Seq(CallSet) /\ calls' # << >> /\ Len(calls') = Len(calls)
         /\ DOMAIN calls' = 1 .. Len(calls)
         /\ calls'[Len(calls)] = c /\ \A i \in 1 .. Len(calls) - 1 : calls'[i] = calls[i]
BY ReplaceFacts DEF SetCur

(* The innermost call returns and its caller is replaced.                  *)
LEMMA SetBelowFacts ==
  ASSUME calls \in Seq(CallSet), Len(calls) > 1, NEW c \in CallSet, calls' = SetBelow(c)
  PROVE  /\ Below = calls[Len(calls) - 1] /\ Below \in CallSet
         /\ calls' \in Seq(CallSet) /\ calls' # << >> /\ Len(calls') = Len(calls) - 1
         /\ DOMAIN calls' = 1 .. Len(calls) - 1
         /\ calls'[Len(calls) - 1] = c /\ \A i \in 1 .. Len(calls) - 2 : calls'[i] = calls[i]
BY PopFacts DEF SetBelow, Below

(* A call of AddNeededLib begins.                                          *)
LEMMA PushFacts ==
  ASSUME calls \in Seq(CallSet), NEW c \in CallSet, calls' = Append(calls, c)
  PROVE  /\ calls' \in Seq(CallSet) /\ calls' # << >> /\ Len(calls') = Len(calls) + 1
         /\ DOMAIN calls' = 1 .. Len(calls) + 1
         /\ calls'[Len(calls) + 1] = c /\ \A i \in 1 .. Len(calls) : calls'[i] = calls[i]
BY AppendFacts

(* A call takes the head of its list.                                      *)
LEMMA RestFacts ==
  ASSUME NEW c \in CallSet, c.todo # << >>
  PROVE  /\ Rest(c) \in CallSet /\ Rest(c).me = c.me /\ Rest(c).local = c.local /\ Rest(c).idx = c.idx
         /\ Rest(c).phase = c.phase /\ Rest(c).todo = Tail(c.todo)
         /\ Tail(c.todo) \in Seq(Libs) /\ Head(c.todo) \in Libs
         /\ Range(c.todo) = Range(Tail(c.todo)) \cup {Head(c.todo)}
<1>1. c.todo \in Seq(Libs)
  BY DEF CallSet, LibSeqs
<1>2. Tail(c.todo) \in Seq(Libs) /\ Head(c.todo) \in Libs /\ Range(c.todo) = Range(Tail(c.todo)) \cup {Head(c.todo)}
  BY <1>1, TailFacts
<1> QED  BY <1>2 DEF CallSet, LibSeqs, Rest

(* A call that fails is otherwise unchanged.                               *)
LEMMA FailFacts ==
  ASSUME NEW c \in CallSet
  PROVE  /\ Fail(c) \in CallSet /\ Fail(c).me = c.me /\ Fail(c).local = c.local /\ Fail(c).idx = c.idx
         /\ Fail(c).phase = "fail" /\ Fail(c).todo = c.todo
BY DEF CallSet, Fail

(* A call of AddNeededLib when it begins.                                  *)
LEMMA CallFacts ==
  ASSUME NEW me \in User, NEW local \in BOOLEAN, NEW idx \in Nat, NEW paths \in Seq(Libs)
  PROVE  LET c == Call(me, local, idx, paths)
         IN /\ c \in CallSet /\ c.me = me /\ c.local = local /\ c.idx = idx /\ c.todo = paths
            /\ c.phase = "add"
BY DEF CallSet, LibSeqs, Call

(* The innermost dlopen is the last of the stack.                          *)
LEMMA TopFacts ==
  ASSUME stack \in Seq(FrameSet), stack # << >>
  PROVE  /\ Top = stack[Len(stack)] /\ Top \in FrameSet /\ Len(stack) \in Nat /\ Len(stack) > 0
         /\ DOMAIN stack = 1 .. Len(stack) /\ \A i \in 1 .. Len(stack) : stack[i] \in FrameSet
BY FrontFacts DEF Top

(* The innermost dlopen is replaced.                                       *)
LEMMA SetTopFacts ==
  ASSUME stack \in Seq(FrameSet), stack # << >>, NEW f \in FrameSet, stack' = SetTop(f)
  PROVE  /\ stack' \in Seq(FrameSet) /\ stack' # << >> /\ Len(stack') = Len(stack)
         /\ DOMAIN stack' = 1 .. Len(stack)
         /\ stack'[Len(stack)] = f /\ \A i \in 1 .. Len(stack) - 1 : stack'[i] = stack[i]
BY ReplaceFacts DEF SetTop

(* A dlopen begins.                                                        *)
LEMMA PushTopFacts ==
  ASSUME stack \in Seq(FrameSet), NEW f \in FrameSet, stack' = Append(stack, f)
  PROVE  /\ stack' \in Seq(FrameSet) /\ stack' # << >> /\ Len(stack') = Len(stack) + 1
         /\ DOMAIN stack' = 1 .. Len(stack) + 1 /\ DOMAIN stack = 1 .. Len(stack) /\ Len(stack) \in Nat
         /\ stack'[Len(stack) + 1] = f /\ \A i \in 1 .. Len(stack) : stack'[i] = stack[i]
BY AppendFacts

(* The innermost dlopen returns.                                           *)
LEMMA PopTopFacts ==
  ASSUME stack \in Seq(FrameSet), stack # << >>, stack' = Front(stack)
  PROVE  /\ stack' \in Seq(FrameSet) /\ Len(stack') = Len(stack) - 1
         /\ DOMAIN stack' = 1 .. Len(stack) - 1
         /\ \A i \in 1 .. Len(stack) - 1 : stack'[i] = stack[i]
BY FrontFacts

(* A dlopen when it begins.                                                *)
LEMMA FrameFacts ==
  ASSUME NEW l \in Libs \cup {Main}, NEW todo \in Seq(Libs), NEW dlopened \in BOOLEAN, NEW handle \in Nat
  PROVE  LET f == Frame(l, todo, dlopened, handle)
         IN /\ f \in FrameSet /\ f.lib = l /\ f.todo = todo /\ f.running = None /\ f.dlopened = dlopened
            /\ f.handle = handle
BY DEF FrameSet, LibSeqs, Frame

(* A dlopen gets the list of RunDeferedElfInit.                            *)
LEMMA TopTodo ==
  ASSUME NEW f \in FrameSet, NEW s \in Seq(Libs)
  PROVE  LET g == [f EXCEPT !.todo = s]
         IN /\ g \in FrameSet /\ g.lib = f.lib /\ g.todo = s /\ g.running = f.running
            /\ g.dlopened = f.dlopened /\ g.handle = f.handle
BY DEF FrameSet, LibSeqs

(* A dlopen whose init function begins or returns.                         *)
LEMMA TopRunning ==
  ASSUME NEW f \in FrameSet, NEW r \in Emulated \cup {None}
  PROVE  LET g == [f EXCEPT !.running = r]
         IN /\ g \in FrameSet /\ g.lib = f.lib /\ g.todo = f.todo /\ g.running = r
            /\ g.dlopened = f.dlopened /\ g.handle = f.handle
BY DEF FrameSet, LibSeqs

(* A dlopen takes the next library of its list.                            *)
LEMMA TopRuns ==
  ASSUME NEW f \in FrameSet, NEW r \in Emulated \cup {None}, f.todo # << >>
  PROVE  LET g == [f EXCEPT !.todo = Tail(@), !.running = r]
         IN /\ g \in FrameSet /\ g.lib = f.lib /\ g.todo = Tail(f.todo) /\ g.running = r
            /\ g.dlopened = f.dlopened /\ g.handle = f.handle
<1>1. Tail(f.todo) \in Seq(Libs)
  BY TailFacts DEF FrameSet, LibSeqs
<1> QED  BY <1>1 DEF FrameSet, LibSeqs

(* A set of numbers that is not empty has a least one.                     *)
LEMMA LeastNat ==
  ASSUME NEW T \in SUBSET Nat, T # {}
  PROVE  \E x \in T : \A y \in T : x <= y
<1>1. PICK x \in T : \A y \in T : <<y, x>> \notin OpToRel(<, Nat)
  BY NatLessThanWellFounded, WFMin
<1>2. ASSUME NEW y \in T, y < x PROVE FALSE
  BY <1>1, <1>2 DEF OpToRel
<1> QED  BY <1>2

(* The loop of dlopen over the handles finds one of the library.           *)
LEMMA FirstHandleFacts ==
  ASSUME dl \in Seq(HandleSet), NEW l \in Libs, Known(l)
  PROVE  FirstHandle(l) \in DOMAIN dl /\ dl[FirstHandle(l)].lib = l
<1>1. DOMAIN dl = 1 .. Len(dl) /\ Len(dl) \in Nat
  OBVIOUS
<1> DEFINE T == {i \in 1 .. Len(dl) : dl[i].lib = l}
<1>2. T \in SUBSET Nat /\ T # {}
  BY <1>1 DEF Known
<1>3. PICK x \in T : \A y \in T : x <= y
  BY <1>2, LeastNat
<1>4. x \in DOMAIN dl /\ dl[x].lib = l /\ \A j \in 1 .. x - 1 : dl[j].lib # l
  BY <1>1, <1>3
<1> QED  BY <1>4 DEF FirstHandle

(* A new handle counts one.                                                *)
LEMMA HandleFacts ==
  ASSUME NEW l \in Libs, NEW dlopened \in BOOLEAN
  PROVE  /\ Handle(l, dlopened) \in HandleSet /\ Handle(l, dlopened).lib = l
         /\ Handle(l, dlopened).count = 1 /\ Handle(l, dlopened).dlopened = dlopened
BY DEF Handle, HandleSet

(* The count of one handle is set; nothing else of the handles changes.    *)
LEMMA CountFacts ==
  ASSUME dl \in Seq(HandleSet), NEW i \in DOMAIN dl, NEW n \in Nat,
         dl' = [dl EXCEPT ![i].count = n]
  PROVE  /\ dl' \in Seq(HandleSet) /\ DOMAIN dl' = DOMAIN dl /\ Len(dl') = Len(dl)
         /\ \A j \in DOMAIN dl : dl'[j].lib = dl[j].lib /\ dl'[j].dlopened = dl[j].dlopened
         /\ \A j \in DOMAIN dl : j # i => dl'[j] = dl[j]
         /\ dl'[i].count = n
<1>1. dl[i] \in HandleSet /\ DOMAIN dl = 1 .. Len(dl) /\ Len(dl) \in Nat
  OBVIOUS
<1>2. PICK h : h = [dl[i] EXCEPT !.count = n]
  OBVIOUS
<1>3. h \in HandleSet /\ h.lib = dl[i].lib /\ h.dlopened = dl[i].dlopened /\ h.count = n
  BY <1>1, <1>2 DEF HandleSet
<1>4. dl' = [dl EXCEPT ![i] = h]
  BY <1>1, <1>2
<1>5. dl' \in Seq(HandleSet) /\ DOMAIN dl' = DOMAIN dl
  BY <1>3, <1>4
<1>6. Len(dl') = Len(dl)
  BY <1>4
<1>7. dl'[i] = h /\ \A j \in DOMAIN dl : j # i => dl'[j] = dl[j]
  BY <1>4
<1> QED  BY <1>3, <1>5, <1>6, <1>7

-----------------------------------------------------------------------------
(* What the steps of AddNeededLib do to the stack of calls, index by index.*)

(* calls is a list of calls and not empty.                                 *)
CallsIndexed == /\ Len(calls) \in Nat /\ Len(calls) > 0 /\ DOMAIN calls = 1 .. Len(calls)
                /\ \A i \in 1 .. Len(calls) : calls[i] \in CallSet

(* The innermost call becomes c.                                           *)
Replaced(c) == /\ CallsIndexed /\ c \in CallSet
               /\ calls' \in Seq(CallSet) /\ calls' # << >> /\ Len(calls') = Len(calls)
               /\ DOMAIN calls' = 1 .. Len(calls)
               /\ calls'[Len(calls)] = c /\ \A i \in 1 .. Len(calls) - 1 : calls'[i] = calls[i]

(* A call c begins.                                                        *)
Pushed(c) == /\ CallsIndexed /\ c \in CallSet
             /\ calls' \in Seq(CallSet) /\ calls' # << >> /\ Len(calls') = Len(calls) + 1
             /\ DOMAIN calls' = 1 .. Len(calls) + 1
             /\ calls'[Len(calls) + 1] = c /\ \A i \in 1 .. Len(calls) : calls'[i] = calls[i]

(* The innermost call returns and its caller becomes c.                    *)
Popped(c) == /\ CallsIndexed /\ c \in CallSet
             /\ calls' \in Seq(CallSet) /\ calls' # << >> /\ Len(calls') = Len(calls) - 1
             /\ DOMAIN calls' = 1 .. Len(calls) - 1 /\ Len(calls) > 1
             /\ calls'[Len(calls) - 1] = c /\ \A i \in 1 .. Len(calls) - 2 : calls'[i] = calls[i]

(* c is d with the head l of its list taken.                               *)
Taken(c, d, l) == /\ c.me = d.me /\ c.local = d.local /\ c.idx = d.idx /\ c.phase = d.phase
                  /\ d.todo # << >> /\ c.todo = Tail(d.todo) /\ l = Head(d.todo) /\ l \in Libs
                  /\ Range(d.todo) = Range(c.todo) \cup {l}

(* The innermost call and its caller.                                      *)
Top1 == calls[Len(calls)]
Top2 == calls[Len(calls) - 1]

(* The lists of needed libraries once me has l.                            *)
Recorded(me, l) ==
  /\ needed' \in [User -> Seq(Libs)] /\ depended' \in [Libs -> Seq(Libs)]
  /\ \A u \in User : u # me => needed'[u] = needed[u]
  /\ Range(needed'[me]) = Range(needed[me]) \cup {l}
  /\ \A u \in User : /\ Len(needed[u]) \in Nat /\ Len(needed'[u]) \in Nat
                     /\ Len(needed'[u]) >= Len(needed[u])
                     /\ \A i \in 1 .. Len(needed[u]) : needed'[u][i] = needed[u][i]
  /\ l \notin Range(needed[me]) =>
       Len(needed'[me]) = Len(needed[me]) + 1 /\ needed'[me][Len(needed[me]) + 1] = l
  /\ l \in Range(needed[me]) => needed'[me] = needed[me]
  /\ \A y \in Libs : y # l \/ me \notin Libs => depended'[y] = depended[y]
  /\ me \in Libs => Range(depended'[l]) = Range(depended[l]) \cup {me}

(* The librarians once l is in one of them, in the global one unless local.*)
Listed(l, local) ==
  /\ maplib' \in Seq(Libs) /\ local_maplib' \in Seq(Libs) /\ Unique(maplib') /\ Unique(local_maplib')
  /\ Range(maplib') \cap Range(local_maplib') = {}
  /\ Owned' = Owned \cup {l} /\ Range(maplib) \subseteq Range(maplib')
  /\ ~local => l \in Range(maplib')

(* AddNeededLib of a loaded library: what it does to the calls and the     *)
(* lists.                                                                  *)
LEMMA AddLoadedEffect ==
  ASSUME TypeOK, OwnedOnce, NEW l \in Libs, AddLoaded(l)
  PROVE  /\ Replaced(Rest(Top1)) /\ Taken(Rest(Top1), Top1, l) /\ Top1.phase = "add"
         /\ Top1.me \in User /\ Recorded(Top1.me, l) /\ Listed(l, Top1.local) /\ l \in Owned
<1>1. calls \in Seq(CallSet) /\ calls # << >> /\ Cur.phase = "add" /\ Cur.todo # << >> /\ l = Head(Cur.todo)
      /\ l \in Owned /\ Record(Cur.me, l) /\ calls' = SetCur(Rest(Cur))
      /\ IF l \in Range(maplib) \/ Cur.local THEN UNCHANGED <<maplib, local_maplib>> ELSE Promote(l)
  BY DEF AddLoaded, Adds, At, TypeOK
<1>2. CallsIndexed /\ Cur = Top1 /\ Cur \in CallSet
  BY <1>1, CurFacts DEF CallsIndexed, Top1
<1>3. Rest(Cur) \in CallSet /\ Taken(Rest(Cur), Cur, l)
  BY <1>1, <1>2, RestFacts DEF Taken
<1>4. Replaced(Rest(Cur))
  BY <1>1, <1>2, <1>3, SetCurFacts DEF Replaced
<1>5. Cur.me \in User /\ Cur.local \in BOOLEAN
  BY <1>2 DEF CallSet
<1>6. Recorded(Cur.me, l)
  <2>1. needed \in [User -> Seq(Libs)] /\ depended \in [Libs -> Seq(Libs)]
    BY DEF TypeOK, LibSeqs
  <2>2. PICK me \in User : me = Cur.me
    BY <1>5
  <2>3. Record(me, l)
    BY <1>1, <2>2
  <2>4. Recorded(me, l)
    BY <2>1, <2>3, RecordFacts DEF Recorded
  <2> QED  BY <2>2, <2>4
<1>7. Listed(l, Cur.local)
  <2>1. /\ maplib \in Seq(Libs) /\ local_maplib \in Seq(Libs) /\ Unique(maplib) /\ Unique(local_maplib)
        /\ Range(maplib) \cap Range(local_maplib) = {}
    BY DEF TypeOK, OwnedOnce, Unique, LibSeqs
  <2>2. /\ maplib' \in Seq(Libs) /\ local_maplib' \in Seq(Libs) /\ Unique(maplib') /\ Unique(local_maplib')
        /\ Range(maplib') \cap Range(local_maplib') = {}
        /\ Owned' = Owned /\ Range(maplib) \subseteq Range(maplib')
        /\ ~Cur.local => l \in Range(maplib')
    BY <1>1, <1>5, <2>1, LoadedLists
  <2> QED  BY <1>1, <2>2 DEF Listed
<1> QED  BY <1>1, <1>2, <1>3, <1>4, <1>5, <1>6, <1>7

(* A new library is recorded, listed and active.                           *)
LEMMA AddNewEffect ==
  ASSUME TypeOK, OwnedOnce, NEW c \in CallSet, NEW l \in Libs \ Owned, AddNew(c, l)
  PROVE  /\ c.me \in User /\ Recorded(c.me, l) /\ Listed(l, c.local)
         /\ active' = [active EXCEPT ![l] = TRUE]
<1>1. /\ Record(c.me, l)
      /\ maplib' = IF c.local THEN maplib ELSE Append(maplib, l)
      /\ local_maplib' = IF c.local THEN Append(local_maplib, l) ELSE local_maplib
      /\ active' = [active EXCEPT ![l] = TRUE]
  BY DEF AddNew
<1>2. c.me \in User /\ c.local \in BOOLEAN
  BY DEF CallSet
<1>3. Recorded(c.me, l)
  BY <1>1, <1>2, RecordFacts DEF Recorded, TypeOK, LibSeqs
<1>4. Listed(l, c.local)
  <2>1. /\ maplib \in Seq(Libs) /\ local_maplib \in Seq(Libs) /\ Unique(maplib) /\ Unique(local_maplib)
        /\ Range(maplib) \cap Range(local_maplib) = {}
    BY DEF TypeOK, OwnedOnce, Unique, LibSeqs
  <2>2. \E local \in BOOLEAN : local = c.local
    BY <1>2
  <2>3. PICK local \in BOOLEAN : local = c.local
    BY <2>2
  <2>4. /\ maplib' = IF local THEN maplib ELSE Append(maplib, l)
        /\ local_maplib' = IF local THEN Append(local_maplib, l) ELSE local_maplib
    BY <1>1, <2>3
  <2>5. /\ maplib' \in Seq(Libs) /\ local_maplib' \in Seq(Libs) /\ Unique(maplib') /\ Unique(local_maplib')
        /\ Range(maplib') \cap Range(local_maplib') = {}
        /\ Owned' = Owned \cup {l} /\ Range(maplib) \subseteq Range(maplib')
        /\ ~local => l \in Range(maplib')
    BY <2>1, <2>4, NewLists
  <2> QED  BY <2>3, <2>5 DEF Listed
<1> QED  BY <1>1, <1>2, <1>3, <1>4

(* AddNeededLib of a new emulated library.                                 *)
LEMMA AddEmulatedEffect ==
  ASSUME TypeOK, OwnedOnce, NEW l \in Libs, AddEmulated(l)
  PROVE  /\ Replaced(Rest(Top1)) /\ Taken(Rest(Top1), Top1, l) /\ Top1.phase = "add"
         /\ Top1.me \in User /\ Recorded(Top1.me, l) /\ Listed(l, Top1.local) /\ l \notin Owned
         /\ l \in Emulated /\ active' = [active EXCEPT ![l] = TRUE]
<1>1. calls \in Seq(CallSet) /\ calls # << >> /\ Cur.phase = "add" /\ Cur.todo # << >> /\ l = Head(Cur.todo)
      /\ l \notin Owned /\ l \notin Native /\ AddNew(Cur, l) /\ calls' = SetCur(Rest(Cur))
  BY DEF AddEmulated, Adds, At, TypeOK
<1>2. CallsIndexed /\ Cur = Top1 /\ Cur \in CallSet
  BY <1>1, CurFacts DEF CallsIndexed, Top1
<1>3. Rest(Cur) \in CallSet /\ Taken(Rest(Cur), Cur, l)
  BY <1>1, <1>2, RestFacts DEF Taken
<1>4. Replaced(Rest(Cur))
  BY <1>1, <1>2, <1>3, SetCurFacts DEF Replaced
<1>5. /\ Cur.me \in User /\ Recorded(Cur.me, l) /\ Listed(l, Cur.local)
      /\ active' = [active EXCEPT ![l] = TRUE]
  BY <1>1, <1>2, AddNewEffect
<1> QED  BY <1>1, <1>2, <1>3, <1>4, <1>5 DEF Emulated

(* NewLibrary of a wrapped library calls AddNeededLib for what it needs.   *)
LEMMA NewNativeEffect ==
  ASSUME TypeOK, NEW l \in Libs, NewNative(l)
  PROVE  /\ Pushed(Call(l, FALSE, Len(needed[l]), Needs[l])) /\ Len(needed[l]) \in Nat
         /\ Top1.phase = "add" /\ Top1.todo # << >> /\ l = Head(Top1.todo)
         /\ l \in Native \ Owned /\ l \in Range(Top1.todo)
<1>1. calls \in Seq(CallSet) /\ calls # << >> /\ Cur.phase = "add" /\ Cur.todo # << >> /\ l = Head(Cur.todo)
      /\ l \in Native \ Owned /\ calls' = Append(calls, Call(l, FALSE, Len(needed[l]), Needs[l]))
  BY DEF NewNative, Adds, At, TypeOK
<1>2. CallsIndexed /\ Cur = Top1 /\ Cur \in CallSet
  BY <1>1, CurFacts DEF CallsIndexed, Top1
<1>3. l \in User /\ Needs[l] \in Seq(Libs) /\ needed[l] \in Seq(Libs)
  BY NeedsFacts DEF User, TypeOK, LibSeqs
<1>4. Len(needed[l]) \in Nat
  BY <1>3
<1>5. Call(l, FALSE, Len(needed[l]), Needs[l]) \in CallSet
  BY <1>3, <1>4, CallFacts
<1>6. Pushed(Call(l, FALSE, Len(needed[l]), Needs[l]))
  BY <1>1, <1>2, <1>5, PushFacts DEF Pushed
<1>7. l \in Range(Cur.todo)
  BY <1>1, <1>2, RestFacts
<1> QED  BY <1>1, <1>2, <1>4, <1>6, <1>7

(* LoadNeededLibs of an emulated library calls AddNeededLib for what it    *)
(* needs.                                                                  *)
LEMMA InitEmulatedEffect ==
  ASSUME TypeOK, NEW l \in Libs, InitEmulated(l)
  PROVE  /\ Pushed(Call(l, FALSE, Len(needed[l]), Needs[l])) /\ Len(needed[l]) \in Nat
         /\ Top1.phase = "init" /\ Top1.todo # << >> /\ l = Head(Top1.todo)
         /\ l \in Emulated /\ l \in Range(Top1.todo)
<1>1. calls \in Seq(CallSet) /\ calls # << >> /\ Cur.phase = "init" /\ Cur.todo # << >> /\ l = Head(Cur.todo)
      /\ l \in Emulated /\ calls' = Append(calls, Call(l, FALSE, Len(needed[l]), Needs[l]))
  BY DEF InitEmulated, Inits, At, TypeOK
<1>2. CallsIndexed /\ Cur = Top1 /\ Cur \in CallSet
  BY <1>1, CurFacts DEF CallsIndexed, Top1
<1>3. l \in User /\ Needs[l] \in Seq(Libs) /\ needed[l] \in Seq(Libs)
  BY NeedsFacts DEF User, TypeOK, LibSeqs
<1>4. Len(needed[l]) \in Nat
  BY <1>3
<1>5. Call(l, FALSE, Len(needed[l]), Needs[l]) \in CallSet
  BY <1>3, <1>4, CallFacts
<1>6. Pushed(Call(l, FALSE, Len(needed[l]), Needs[l]))
  BY <1>1, <1>2, <1>5, PushFacts DEF Pushed
<1>7. l \in Range(Cur.todo)
  BY <1>1, <1>2, RestFacts
<1> QED  BY <1>1, <1>2, <1>4, <1>6, <1>7

(* A wrapped library has nothing to initialise.                            *)
LEMMA InitNativeEffect ==
  ASSUME TypeOK, NEW l \in Libs, InitNative(l)
  PROVE  /\ Replaced(Rest(Top1)) /\ Taken(Rest(Top1), Top1, l) /\ Top1.phase = "init" /\ l \in Native
<1>1. calls \in Seq(CallSet) /\ calls # << >> /\ Cur.phase = "init" /\ Cur.todo # << >> /\ l = Head(Cur.todo)
      /\ l \in Native /\ calls' = SetCur(Rest(Cur))
  BY DEF InitNative, Inits, At, TypeOK
<1>2. CallsIndexed /\ Cur = Top1 /\ Cur \in CallSet
  BY <1>1, CurFacts DEF CallsIndexed, Top1
<1>3. Rest(Cur) \in CallSet /\ Taken(Rest(Cur), Cur, l)
  BY <1>1, <1>2, RestFacts DEF Taken
<1>4. Replaced(Rest(Cur))
  BY <1>1, <1>2, <1>3, SetCurFacts DEF Replaced
<1> QED  BY <1>1, <1>2, <1>3, <1>4

(* AddNeededLib of a library that is not found.                            *)
LEMMA AddFailsEffect ==
  ASSUME TypeOK, NEW l \in Libs, AddFails(l)
  PROVE  /\ Replaced(Fail(Top1)) /\ Top1.phase = "add" /\ failed'
<1>1. calls \in Seq(CallSet) /\ calls # << >> /\ Cur.phase = "add" /\ calls' = SetCur(Fail(Cur)) /\ failed' = TRUE
  BY DEF AddFails, Adds, At, TypeOK
<1>2. CallsIndexed /\ Cur = Top1 /\ Cur \in CallSet
  BY <1>1, CurFacts DEF CallsIndexed, Top1
<1>3. Fail(Cur) \in CallSet
  BY <1>2, FailFacts
<1>4. Replaced(Fail(Cur))
  BY <1>1, <1>2, <1>3, SetCurFacts DEF Replaced
<1> QED  BY <1>1, <1>2, <1>3, <1>4

(* The end of a list, from a + 1 on.                                       *)
LEMMA SubSeqFacts ==
  ASSUME NEW s \in Seq(Libs), NEW a \in Nat, a <= Len(s)
  PROVE  /\ SubSeq(s, a + 1, Len(s)) \in Seq(Libs)
         /\ \A y : y \in Range(SubSeq(s, a + 1, Len(s))) <=> \E k \in a + 1 .. Len(s) : s[k] = y
         /\ Range(SubSeq(s, a + 1, Len(s))) \subseteq Range(s)
<1> DEFINE t == SubSeq(s, a + 1, Len(s))
<1>1. t \in Seq(Libs) /\ Len(s) \in Nat /\ DOMAIN s = 1 .. Len(s)
  OBVIOUS
<1>2. DOMAIN t = 1 .. Len(s) - a /\ \A i \in 1 .. Len(s) - a : t[i] = s[a + i]
  BY <1>1
<1> HIDE DEF t
<1>3. ASSUME NEW y \in Range(t) PROVE \E k \in a + 1 .. Len(s) : s[k] = y
  <2>1. PICK i \in 1 .. Len(s) - a : t[i] = y
    BY <1>2 DEF Range
  <2>2. a + i \in a + 1 .. Len(s) /\ s[a + i] = y
    BY <1>1, <1>2, <2>1
  <2> QED  BY <2>2
<1>4. ASSUME NEW k \in a + 1 .. Len(s) PROVE s[k] \in Range(t)
  <2>1. k - a \in 1 .. Len(s) - a /\ a + (k - a) = k
    BY <1>1
  <2>2. t[k - a] = s[k]
    BY <1>2, <2>1
  <2> QED  BY <1>2, <2>1, <2>2 DEF Range
<1>5. Range(t) \subseteq Range(s)
  <2> SUFFICES ASSUME NEW y \in Range(t) PROVE y \in Range(s)
    OBVIOUS
  <2>1. PICK k \in a + 1 .. Len(s) : s[k] = y
    BY <1>3
  <2>2. k \in DOMAIN s
    BY <1>1
  <2> QED  BY <2>1, <2>2 DEF Range
<1> QED  BY <1>1, <1>3, <1>4, <1>5 DEF t

(* c is d, now with the new libraries of its list to initialise.           *)
Started(c, d) ==
  /\ c.me = d.me /\ c.local = d.local /\ c.idx = d.idx /\ d.phase = "add" /\ c.phase = "init"
  /\ d.todo = << >>
  /\ \A y : y \in Range(c.todo) <=> \E k \in d.idx + 1 .. Len(needed[d.me]) : needed[d.me][k] = y
  /\ Range(c.todo) \subseteq Range(needed[d.me])

(* The call goes on to the init of what is new in its list.                *)
LEMMA StartInitsEffect ==
  ASSUME TypeOK, CallsOK, StartInits
  PROVE  \E c \in CallSet : Replaced(c) /\ Started(c, Top1)
<1>1. /\ calls \in Seq(CallSet) /\ calls # << >> /\ Cur.phase = "add" /\ Cur.todo = << >>
      /\ calls' = SetCur([Cur EXCEPT !.todo = NewOnes(Cur), !.phase = "init"])
  BY DEF StartInits, At, TypeOK
<1>2. CallsIndexed /\ Cur = Top1 /\ Cur \in CallSet
  BY <1>1, CurFacts DEF CallsIndexed, Top1
<1>3. Cur.me \in User /\ Cur.idx \in Nat /\ needed[Cur.me] \in Seq(Libs)
  BY <1>2 DEF CallSet, TypeOK, LibSeqs
<1>4. Cur.idx <= Len(needed[Cur.me])
  <2>1. Len(calls) \in DOMAIN calls
    BY <1>2 DEF CallsIndexed
  <2>2. CallOK(Len(calls))
    BY <2>1 DEF CallsOK
  <2> QED  BY <1>2, <2>2 DEF CallOK, Top1
<1> DEFINE s == NewOnes(Cur)
<1>5. /\ s \in Seq(Libs)
      /\ \A y : y \in Range(s) <=> \E k \in Cur.idx + 1 .. Len(needed[Cur.me]) : needed[Cur.me][k] = y
      /\ Range(s) \subseteq Range(needed[Cur.me])
  BY <1>3, <1>4, SubSeqFacts DEF NewOnes
<1> HIDE DEF s
<1> DEFINE c == [Cur EXCEPT !.todo = s, !.phase = "init"]
<1>6. /\ c \in CallSet /\ c.me = Cur.me /\ c.local = Cur.local /\ c.idx = Cur.idx /\ c.phase = "init"
      /\ c.todo = s
  BY <1>2, <1>5 DEF CallSet, LibSeqs
<1>7. calls' = SetCur(c)
  BY <1>1 DEF s
<1> HIDE DEF c
<1>8. Replaced(c)
  BY <1>1, <1>2, <1>6, <1>7, SetCurFacts DEF Replaced
<1>9. Started(c, Cur)
  BY <1>1, <1>5, <1>6 DEF Started
<1> QED  BY <1>2, <1>6, <1>8, <1>9

(* The call below the innermost one waits for it: the head of its list is  *)
(* the library of the innermost call.                                      *)
LEMMA BelowFacts ==
  ASSUME TypeOK, CallsOK, Len(calls) > 1
  PROVE  /\ CallsIndexed /\ Cur = Top1 /\ Below = Top2 /\ Top1 \in CallSet /\ Top2 \in CallSet
         /\ Top2.todo # << >> /\ Head(Top2.todo) = Top1.me /\ Top1.me \in Libs
         /\ \/ Top2.phase = "add" /\ Top1.me \in Native \ Owned
            \/ Top2.phase = "init" /\ Top1.me \in Emulated
<1>1. calls \in Seq(CallSet)
  BY DEF TypeOK
<1>2. calls # << >>
  BY <1>1
<1>3. CallsIndexed /\ Cur = Top1 /\ Cur \in CallSet
  BY <1>1, <1>2, CurFacts DEF CallsIndexed, Top1
<1>4. Below = Top2 /\ Top2 \in CallSet
  BY <1>1, <1>3, PopFacts DEF Below, Top2
<1>5. Len(calls) - 1 \in DOMAIN calls /\ Len(calls) \in DOMAIN calls
  BY <1>3 DEF CallsIndexed
<1>6. CallOK(Len(calls) - 1) /\ CallOK(Len(calls))
  BY <1>5 DEF CallsOK
<1>7. Len(calls) - 1 < Len(calls) /\ (Len(calls) - 1) + 1 = Len(calls)
  BY <1>3 DEF CallsIndexed
<1>8. /\ Top2.todo # << >> /\ Head(Top2.todo) = Top1.me
      /\ \/ Top2.phase = "add" /\ Top1.me \in Native \ Owned
         \/ Top2.phase = "init" /\ Top1.me \in Emulated
  BY <1>6, <1>7 DEF CallOK, Top1, Top2
<1>9. Top1.me \in Libs
  BY <1>8, LibraryAssumption DEF Emulated
<1> QED  BY <1>3, <1>4, <1>8, <1>9

(* What a wrapped library needs is loaded, or failed: the library itself   *)
(* is added.                                                               *)
LEMMA NativeReturnsEffect ==
  ASSUME TypeOK, OwnedOnce, CallsOK, NativeReturns
  PROVE  /\ Popped(Rest(Top2)) /\ Taken(Rest(Top2), Top2, Top1.me) /\ Top2.phase = "add"
         /\ Top2.me \in User /\ Recorded(Top2.me, Top1.me) /\ Listed(Top1.me, Top2.local)
         /\ Top1.me \in Native \ Owned
         /\ active' = [active EXCEPT ![Top1.me] = TRUE]
         /\ Top1.phase = "fail" \/ (Top1.phase = "init" /\ Top1.todo = << >>)
<1>1. /\ calls \in Seq(CallSet) /\ Len(calls) > 1 /\ Below.phase = "add" /\ AddNew(Below, Cur.me)
      /\ calls' = SetBelow(Rest(Below))
      /\ Cur.phase = "fail" \/ (Cur.phase = "init" /\ Cur.todo = << >>)
  BY DEF NativeReturns, At, TypeOK
<1>2. /\ CallsIndexed /\ Cur = Top1 /\ Below = Top2 /\ Top1 \in CallSet /\ Top2 \in CallSet
      /\ Top2.todo # << >> /\ Head(Top2.todo) = Top1.me /\ Top1.me \in Libs
      /\ Top1.me \in Native \ Owned
  BY <1>1, BelowFacts
<1>3. Rest(Top2) \in CallSet /\ Taken(Rest(Top2), Top2, Top1.me)
  BY <1>2, RestFacts DEF Taken
<1>4. Popped(Rest(Top2))
  BY <1>1, <1>2, <1>3, SetBelowFacts DEF Popped
<1>5. /\ Top2.me \in User /\ Recorded(Top2.me, Top1.me) /\ Listed(Top1.me, Top2.local)
      /\ active' = [active EXCEPT ![Top1.me] = TRUE]
  <2>1. Top1.me \in Libs \ Owned
    BY <1>2
  <2>2. PICK l \in Libs \ Owned : l = Top1.me
    BY <2>1
  <2>3. AddNew(Top2, l)
    BY <1>1, <1>2, <2>2
  <2>4. /\ Top2.me \in User /\ Recorded(Top2.me, l) /\ Listed(l, Top2.local)
        /\ active' = [active EXCEPT ![l] = TRUE]
    BY <1>2, <2>3, AddNewEffect
  <2> QED  BY <2>2, <2>4
<1> QED  BY <1>1, <1>2, <1>3, <1>4, <1>5

(* What an emulated library needs is loaded: it is finalized.              *)
LEMMA NeededReturnsEffect ==
  ASSUME TypeOK, CallsOK, NeededReturns
  PROVE  /\ Popped(Rest(Top2)) /\ Taken(Rest(Top2), Top2, Top1.me) /\ Top2.phase = "init"
         /\ Top1.me \in Emulated /\ Top1.me \in Libs /\ Finalize(Top1.me)
         /\ Top1.phase = "init" /\ Top1.todo = << >>
<1>1. /\ calls \in Seq(CallSet) /\ Len(calls) > 1 /\ Below.phase = "init" /\ Finalize(Cur.me)
      /\ calls' = SetBelow(Rest(Below)) /\ Cur.phase = "init" /\ Cur.todo = << >>
  BY DEF NeededReturns, At, TypeOK
<1>2. /\ CallsIndexed /\ Cur = Top1 /\ Below = Top2 /\ Top1 \in CallSet /\ Top2 \in CallSet
      /\ Top2.todo # << >> /\ Head(Top2.todo) = Top1.me /\ Top1.me \in Libs
      /\ Top1.me \in Emulated
  BY <1>1, BelowFacts
<1>3. Rest(Top2) \in CallSet /\ Taken(Rest(Top2), Top2, Top1.me)
  BY <1>2, RestFacts DEF Taken
<1>4. Popped(Rest(Top2))
  BY <1>1, <1>2, <1>3, SetBelowFacts DEF Popped
<1> QED  BY <1>1, <1>2, <1>3, <1>4

(* What an emulated library needs failed: its caller fails too.            *)
LEMMA NeededFailsEffect ==
  ASSUME TypeOK, CallsOK, NeededFails
  PROVE  Popped(Fail(Top2)) /\ Top1.phase = "fail" /\ Top2.phase = "init"
<1>1. /\ calls \in Seq(CallSet) /\ Len(calls) > 1 /\ Below.phase = "init"
      /\ calls' = SetBelow(Fail(Below)) /\ Cur.phase = "fail"
  BY DEF NeededFails, At, TypeOK
<1>2. /\ CallsIndexed /\ Cur = Top1 /\ Below = Top2 /\ Top1 \in CallSet /\ Top2 \in CallSet
  BY <1>1, BelowFacts
<1>3. Fail(Top2) \in CallSet
  BY <1>2, FailFacts
<1>4. Popped(Fail(Top2))
  BY <1>1, <1>2, <1>3, SetBelowFacts DEF Popped
<1> QED  BY <1>1, <1>2, <1>4

-----------------------------------------------------------------------------
(* What the steps do to the stack of calls of dlopen.                      *)

(* stack is a list of frames and not empty.                                *)
StackIndexed == /\ Len(stack) \in Nat /\ Len(stack) > 0 /\ DOMAIN stack = 1 .. Len(stack)
                /\ \A i \in 1 .. Len(stack) : stack[i] \in FrameSet

(* The innermost dlopen becomes f; it returns; a dlopen f begins.          *)
TopIs(f) == /\ StackIndexed /\ f \in FrameSet
            /\ stack' \in Seq(FrameSet) /\ stack' # << >> /\ Len(stack') = Len(stack)
            /\ DOMAIN stack' = 1 .. Len(stack)
            /\ stack'[Len(stack)] = f /\ \A i \in 1 .. Len(stack) - 1 : stack'[i] = stack[i]
TopGone == /\ StackIndexed
           /\ stack' \in Seq(FrameSet) /\ Len(stack') = Len(stack) - 1
           /\ DOMAIN stack' = 1 .. Len(stack) - 1
           /\ \A i \in 1 .. Len(stack) - 1 : stack'[i] = stack[i]
TopNew(f) == /\ Len(stack) \in Nat /\ DOMAIN stack = 1 .. Len(stack)
             /\ \A i \in 1 .. Len(stack) : stack[i] \in FrameSet
             /\ f \in FrameSet
             /\ stack' \in Seq(FrameSet) /\ stack' # << >> /\ Len(stack') = Len(stack) + 1
             /\ DOMAIN stack' = 1 .. Len(stack) + 1
             /\ stack'[Len(stack) + 1] = f /\ \A i \in 1 .. Len(stack) : stack'[i] = stack[i]

(* f is g but for the list and the init function that runs.                *)
SameFrame(f, g) == f.lib = g.lib /\ f.dlopened = g.dlopened /\ f.handle = g.handle

(* The innermost dlopen.                                                   *)
Frame1 == stack[Len(stack)]

(* The innermost dlopen, if there is one.                                  *)
LEMMA StackFacts ==
  ASSUME TypeOK, stack # << >>
  PROVE  StackIndexed /\ Top = Frame1 /\ Frame1 \in FrameSet
BY TopFacts DEF TypeOK, StackIndexed, Frame1

(* AddNeededLib of a dlopen returns: the dlopen takes the deferred list.   *)
LEMMA LoadReturnsEffect ==
  ASSUME TypeOK, CallsOK, LoadReturns
  PROVE  \E f \in FrameSet : /\ TopIs(f) /\ SameFrame(f, Frame1) /\ f.todo = defered
                             /\ f.running = None /\ Frame1.running = None
<1>1. /\ stack # << >> /\ Top.running = None
      /\ stack' = SetTop([Top EXCEPT !.todo = defered])
      /\ stack \in Seq(FrameSet) /\ defered \in Seq(Libs)
  BY DEF LoadReturns, At, CallsOK, TypeOK, LibSeqs
<1>2. StackIndexed /\ Top = Frame1 /\ Frame1 \in FrameSet
  BY <1>1, StackFacts
<1> DEFINE f == [Top EXCEPT !.todo = defered]
<1>3. f \in FrameSet /\ SameFrame(f, Top) /\ f.todo = defered /\ f.running = Top.running
  BY <1>1, <1>2, TopTodo DEF SameFrame
<1> HIDE DEF f
<1>4. stack' = SetTop(f)
  BY <1>1 DEF f
<1>5. TopIs(f)
  BY <1>1, <1>2, <1>3, <1>4, SetTopFacts DEF TopIs
<1> QED  BY <1>1, <1>2, <1>3, <1>5

(* RunElfInit takes the head of the list, and runs it unless it ran or the *)
(* inits are deferred.                                                     *)
LEMMA RunElfInitEffect ==
  ASSUME TypeOK, EmulatedOnly, RunElfInit
  PROVE  \E f \in FrameSet, h \in Emulated :
           /\ TopIs(f) /\ SameFrame(f, Frame1) /\ Frame1.todo # << >> /\ Frame1.running = None
           /\ Frame1.todo \in Seq(Libs)
           /\ h = Head(Frame1.todo) /\ f.todo = Tail(Frame1.todo) /\ h \in Libs
           /\ f.running = IF ~initDone[h] /\ ~deferedInit THEN h ELSE None
           /\ defered' = IF ~initDone[h] /\ deferedInit THEN Append(defered, h) ELSE defered
<1> DEFINE h == Head(Top.todo)
           r == IF ~initDone[h] /\ ~deferedInit THEN h ELSE None
           f == [Top EXCEPT !.todo = Tail(@), !.running = r]
<1>1. /\ stack # << >> /\ Top.running = None /\ Top.todo # << >> /\ stack \in Seq(FrameSet)
      /\ stack' = SetTop(f)
      /\ defered' = IF ~initDone[h] /\ deferedInit THEN Append(defered, h) ELSE defered
  BY DEF RunElfInit, TypeOK
<1>2. StackIndexed /\ Top = Frame1 /\ Frame1 \in FrameSet
  BY <1>1, StackFacts
<1>3. Top.todo \in Seq(Libs)
  BY <1>2 DEF FrameSet, LibSeqs
<1>4. h \in Libs /\ h \in Range(Top.todo)
  BY <1>1, <1>3, TailFacts
<1>5. h \in Emulated
  BY <1>2, <1>4 DEF EmulatedOnly, StackIndexed, Frame1
<1>6. r \in Emulated \cup {None}
  BY <1>5
<1>7. f \in FrameSet /\ SameFrame(f, Top) /\ f.todo = Tail(Top.todo) /\ f.running = r
  <2>1. PICK f0 \in FrameSet : f0 = Top
    BY <1>2
  <2>2. PICK r0 \in Emulated \cup {None} : r0 = r
    BY <1>6
  <2>3. f = [f0 EXCEPT !.todo = Tail(@), !.running = r0]
    BY <2>1, <2>2
  <2> HIDE DEF f, r
  <2>4. f \in FrameSet /\ f.lib = f0.lib /\ f.todo = Tail(f0.todo) /\ f.running = r0
        /\ f.dlopened = f0.dlopened /\ f.handle = f0.handle
    BY <1>1, <2>1, <2>3, TopRuns
  <2> QED  BY <2>1, <2>2, <2>4 DEF SameFrame
<1>8. f.running = IF ~initDone[h] /\ ~deferedInit THEN h ELSE None
  BY <1>7
<1> HIDE DEF f, r, h
<1>9. TopIs(f)
  BY <1>1, <1>2, <1>7, SetTopFacts DEF TopIs
<1>10. h = Head(Frame1.todo) /\ f.todo = Tail(Frame1.todo) /\ SameFrame(f, Frame1) /\ Frame1.todo # << >>
       /\ Frame1.running = None /\ Frame1.todo \in Seq(Libs)
  BY <1>1, <1>2, <1>3, <1>7 DEF h
<1> QED  BY <1>1, <1>4, <1>5, <1>7, <1>8, <1>9, <1>10

(* The init functions of the running library return.                       *)
LEMMA InitReturnsEffect ==
  ASSUME TypeOK, InitReturns
  PROVE  \E f \in FrameSet, r \in Emulated :
           /\ TopIs(f) /\ SameFrame(f, Frame1) /\ f.todo = Frame1.todo /\ f.running = None
           /\ Frame1.running = r /\ r \in Libs /\ r # None
           /\ initDone' = [initDone EXCEPT ![r] = TRUE]
           /\ finiDone' = [finiDone EXCEPT ![r] = FALSE]
<1> DEFINE f == [Top EXCEPT !.running = None]
<1>1. /\ stack # << >> /\ Top.running # None /\ stack \in Seq(FrameSet) /\ stack' = SetTop(f)
      /\ initDone' = [initDone EXCEPT ![Top.running] = TRUE]
      /\ finiDone' = [finiDone EXCEPT ![Top.running] = FALSE]
  BY DEF InitReturns, Guest, TypeOK
<1>2. StackIndexed /\ Top = Frame1 /\ Frame1 \in FrameSet
  BY <1>1, StackFacts
<1>3. Top.running \in Emulated
  BY <1>1, <1>2 DEF FrameSet
<1>4. Top.running \in Libs
  BY <1>3 DEF Emulated
<1>5. f \in FrameSet /\ SameFrame(f, Top) /\ f.todo = Top.todo /\ f.running = None
  BY <1>2, TopRunning DEF SameFrame
<1> HIDE DEF f
<1>6. TopIs(f)
  BY <1>1, <1>2, <1>5, SetTopFacts DEF TopIs
<1> QED  BY <1>1, <1>2, <1>3, <1>4, <1>5, <1>6

(* The innermost dlopen leaves the stack.                                  *)
LEMMA PopEffect ==
  ASSUME TypeOK, stack # << >>, stack' = Front(stack)
  PROVE  TopGone
BY StackFacts, PopTopFacts DEF TopGone, TypeOK

(* dlopen of a library without a handle: one call of AddNeededLib and a    *)
(* new frame.                                                              *)
LEMMA DlopenEffect ==
  ASSUME TypeOK, NEW l \in Libs, NEW local \in BOOLEAN, Dlopen(l, local)
  PROVE  /\ TopNew(Frame(l, << >>, l \notin Owned, 0))
         /\ LET f == Frame(l, << >>, l \notin Owned, 0)
            IN /\ f.lib = l /\ f.todo = << >> /\ f.running = None /\ f.dlopened = (l \notin Owned) /\ f.handle = 0
         /\ calls = << >> /\ calls' \in Seq(CallSet) /\ Len(calls') = 1 /\ DOMAIN calls' = 1 .. 1
         /\ calls'[1] = Call(None, local, 0, <<l>>) /\ calls'[1] \in CallSet /\ calls'[1].me = None
         /\ calls'[1].local = local /\ calls'[1].idx = 0 /\ calls'[1].todo = <<l>> /\ calls'[1].phase = "add"
         /\ Range(<<l>>) = {l}
         /\ needed' \in [User -> Seq(Libs)] /\ needed'[None] = << >>
         /\ \A u \in User : u # None => needed'[u] = needed[u]
<1>1. /\ calls = << >> /\ stack' = Append(stack, Frame(l, << >>, l \notin Owned, 0))
      /\ calls' = <<Call(None, local, 0, <<l>>)>>
      /\ stack \in Seq(FrameSet) /\ needed \in [User -> Seq(Libs)]
      /\ needed' = [needed EXCEPT ![None] = << >>]
  BY DEF Dlopen, Guest, TypeOK, LibSeqs
<1>2. LET f == Frame(l, << >>, l \notin Owned, 0)
      IN /\ f \in FrameSet
         /\ f.lib = l /\ f.todo = << >> /\ f.running = None /\ f.dlopened = (l \notin Owned) /\ f.handle = 0
  <2>1. PICK b \in BOOLEAN : b = (l \notin Owned)
    OBVIOUS
  <2>0. << >> \in Seq(Libs)
    OBVIOUS
  <2>2. PICK s \in Seq(Libs) : s = << >>
    BY <2>0
  <2>3. LET f == Frame(l, s, b, 0)
        IN f \in FrameSet /\ f.lib = l /\ f.todo = s /\ f.running = None /\ f.dlopened = b /\ f.handle = 0
    BY FrameFacts
  <2> QED  BY <2>1, <2>2, <2>3
<1>3. TopNew(Frame(l, << >>, l \notin Owned, 0))
  BY <1>1, <1>2, PushTopFacts DEF TopNew
<1>4. /\ None \in User /\ <<l>> \in Seq(Libs)
  BY DEF User
<1>5. /\ Call(None, local, 0, <<l>>) \in CallSet /\ Call(None, local, 0, <<l>>).me = None
      /\ Call(None, local, 0, <<l>>).local = local /\ Call(None, local, 0, <<l>>).idx = 0
      /\ Call(None, local, 0, <<l>>).todo = <<l>> /\ Call(None, local, 0, <<l>>).phase = "add"
  <2>1. PICK s \in Seq(Libs) : s = <<l>>
    BY <1>4
  <2>2. LET c == Call(None, local, 0, s)
        IN c \in CallSet /\ c.me = None /\ c.local = local /\ c.idx = 0 /\ c.todo = s /\ c.phase = "add"
    BY <1>4, CallFacts
  <2> QED  BY <2>1, <2>2
<1>6. \A x : DOMAIN <<x>> = 1 .. 1 /\ <<x>>[1] = x /\ Len(<<x>>) = 1
  OBVIOUS
<1>7. Range(<<l>>) = {l}
  BY <1>6 DEF Range
<1>8. /\ needed' \in [User -> Seq(Libs)] /\ needed'[None] = << >>
      /\ \A u \in User : u # None => needed'[u] = needed[u]
  BY <1>1, <1>4
<1>9. calls' \in Seq(CallSet)
  BY <1>1, <1>5
<1>10. Len(calls') = 1 /\ DOMAIN calls' = 1 .. 1 /\ calls'[1] = Call(None, local, 0, <<l>>)
  BY <1>1, <1>6
<1> QED  BY <1>1, <1>2, <1>3, <1>5, <1>7, <1>8, <1>9, <1>10

(* The count of handle i becomes n; nothing else of the handles changes.   *)
Counted(i, n) ==
  /\ dl' \in Seq(HandleSet) /\ DOMAIN dl' = DOMAIN dl /\ Len(dl') = Len(dl) /\ i \in DOMAIN dl /\ n \in Nat
  /\ DOMAIN dl = 1 .. Len(dl) /\ Len(dl) \in Nat
  /\ \A j \in DOMAIN dl : dl'[j].lib = dl[j].lib /\ dl'[j].dlopened = dl[j].dlopened
  /\ \A j \in DOMAIN dl : j # i => dl'[j] = dl[j]
  /\ dl'[i].count = n

(* The handles are a list of records.                                      *)
LEMMA DlFacts ==
  ASSUME TypeOK
  PROVE  /\ DOMAIN dl = 1 .. Len(dl) /\ Len(dl) \in Nat
         /\ \A i \in DOMAIN dl : dl[i] \in HandleSet /\ dl[i].lib \in Libs /\ dl[i].count \in Nat
                                 /\ dl[i].dlopened \in BOOLEAN
<1>1. dl \in Seq(HandleSet)
  BY DEF TypeOK
<1>2. DOMAIN dl = 1 .. Len(dl) /\ Len(dl) \in Nat /\ \A i \in DOMAIN dl : dl[i] \in HandleSet
  BY <1>1
<1> QED  BY <1>2 DEF HandleSet

(* dlclose counts one less on a handle that is open.                       *)
LEMMA DlcloseEffect ==
  ASSUME TypeOK, NEW i \in DOMAIN dl, Dlclose(i)
  PROVE  Counted(i, dl[i].count - 1) /\ dl[i].count > 0
<1>1. dl \in Seq(HandleSet) /\ dl[i].count > 0 /\ dl' = [dl EXCEPT ![i].count = @ - 1]
  BY DEF TypeOK, Dlclose
<1>2. DOMAIN dl = 1 .. Len(dl) /\ Len(dl) \in Nat /\ dl[i].count \in Nat
  BY DlFacts
<1>3. PICK n \in Nat : n = dl[i].count - 1
  BY <1>1, <1>2
<1>4. dl' = [dl EXCEPT ![i].count = n]
  BY <1>1, <1>3
<1>5. /\ dl' \in Seq(HandleSet) /\ DOMAIN dl' = DOMAIN dl /\ Len(dl') = Len(dl)
      /\ \A j \in DOMAIN dl : dl'[j].lib = dl[j].lib /\ dl'[j].dlopened = dl[j].dlopened
      /\ \A j \in DOMAIN dl : j # i => dl'[j] = dl[j]
      /\ dl'[i].count = n
  BY <1>1, <1>4, CountFacts
<1> QED  BY <1>1, <1>2, <1>3, <1>5 DEF Counted

(* dlopen of a library with a handle: it is reloaded, or counted, which    *)
(* for one that was closed means that its reload failed.                   *)
ReopenReloads(l) ==
  /\ \E i \in DOMAIN dl :
       /\ dl[i].lib = l /\ dl[i].count = 0 /\ dl[i].dlopened /\ l \in Emulated /\ i \in Nat /\ i > 0
       /\ \E f \in FrameSet : /\ TopNew(f) /\ f.lib = l /\ f.todo = <<l>> /\ f.running = None
                              /\ f.dlopened = TRUE /\ f.handle = i
  /\ dl' = dl /\ active' = [active EXCEPT ![l] = TRUE]
ReopenCounts(l) ==
  /\ \E i \in DOMAIN dl :
       /\ dl[i].lib = l /\ Counted(i, dl[i].count + 1)
       /\ \/ ~(dl[i].count = 0 /\ dl[i].dlopened /\ l \in Emulated) /\ active' = active
          \/ failed' /\ active' = [active EXCEPT ![l] = TRUE]
  /\ stack' = stack

(* dlopen of a library with a handle reloads it or counts.                 *)
LEMMA ReopenEffect ==
  ASSUME TypeOK, NEW l \in Libs, Reopen(l)
  PROVE  /\ ReopenReloads(l) \/ ReopenCounts(l)
         /\ opens' \in 0 .. MaxOpens /\ failed' \in BOOLEAN
<1>8. opens' \in 0 .. MaxOpens
  BY LibraryAssumption DEF Reopen, TypeOK
<1>9. failed' \in BOOLEAN
  <2>1. failed' = failed \/ failed' = (failed \/ Shut(FirstHandle(l)))
    BY DEF Reopen
  <2>2. failed \in BOOLEAN
    BY DEF TypeOK
  <2> QED  BY <2>1, <2>2, Zenon
<1>1. dl \in Seq(HandleSet) /\ stack \in Seq(FrameSet) /\ Known(l)
  BY DEF TypeOK, Reopen
<1>2. DOMAIN dl = 1 .. Len(dl) /\ Len(dl) \in Nat
  BY DlFacts
<1>a. FirstHandle(l) \in DOMAIN dl /\ dl[FirstHandle(l)].lib = l
  BY <1>1, FirstHandleFacts
<1>b. PICK i \in DOMAIN dl : i = FirstHandle(l)
  BY <1>a
<1>3. i \in DOMAIN dl /\ dl[i].lib = l /\ i \in Nat /\ i > 0
  BY <1>2, <1>a, <1>b
<1> DEFINE shut == dl[i].count = 0 /\ dl[i].dlopened /\ l \in Emulated
<1>4. \/ /\ shut /\ active' = [active EXCEPT ![l] = TRUE]
         /\ stack' = Append(stack, Frame(l, <<l>>, TRUE, i)) /\ dl' = dl
      \/ /\ dl' = [dl EXCEPT ![i].count = @ + 1] /\ stack' = stack
         /\ \/ ~shut /\ active' = active
            \/ failed' /\ active' = [active EXCEPT ![l] = TRUE]
  <2>1. Shut(i) <=> shut
    BY <1>3 DEF Shut
  <2>2. \/ /\ Shut(i) /\ active' = [active EXCEPT ![l] = TRUE]
           /\ stack' = Append(stack, Frame(l, <<l>>, TRUE, i)) /\ dl' = dl
        \/ /\ dl' = [dl EXCEPT ![i].count = @ + 1] /\ stack' = stack
           /\ active' = IF Shut(i) THEN [active EXCEPT ![l] = TRUE] ELSE active
           /\ failed' = (failed \/ Shut(i))
    BY <1>b DEF Reopen
  <2> HIDE DEF shut
  <2> QED  BY <2>1, <2>2
<1>5. dl[i].count \in Nat
  BY <1>3, DlFacts
<1>6. CASE /\ shut /\ active' = [active EXCEPT ![l] = TRUE]
           /\ stack' = Append(stack, Frame(l, <<l>>, TRUE, i)) /\ dl' = dl
  <2>1. /\ active' = [active EXCEPT ![l] = TRUE] /\ dl' = dl
        /\ stack' = Append(stack, Frame(l, <<l>>, TRUE, i))
    BY <1>6
  <2>2. <<l>> \in Seq(Libs)
    OBVIOUS
  <2>3. PICK s \in Seq(Libs) : s = <<l>>
    BY <2>2
  <2>4. LET f == Frame(l, s, TRUE, i)
        IN f \in FrameSet /\ f.lib = l /\ f.todo = s /\ f.running = None /\ f.dlopened = TRUE /\ f.handle = i
    BY <1>3 DEF Frame, FrameSet, LibSeqs
  <2>5. PICK f \in FrameSet : f = Frame(l, <<l>>, TRUE, i) /\ f.lib = l /\ f.todo = <<l>> /\ f.running = None
                              /\ f.dlopened = TRUE /\ f.handle = i
    BY <2>3, <2>4
  <2>6. stack' = Append(stack, f)
    BY <2>1, <2>5
  <2>7. TopNew(f)
    BY <1>1, <2>6, PushTopFacts DEF TopNew
  <2>8. dl[i].count = 0 /\ dl[i].dlopened /\ l \in Emulated
    BY <1>6
  <2>9. dl' = dl /\ active' = [active EXCEPT ![l] = TRUE]
    BY <2>1
  <2>10. ReopenReloads(l)
    BY <1>3, <2>5, <2>7, <2>8, <2>9 DEF ReopenReloads
  <2> QED  BY <1>8, <1>9, <2>10
<1>7. CASE /\ dl' = [dl EXCEPT ![i].count = @ + 1] /\ stack' = stack
           /\ \/ ~shut /\ active' = active
              \/ failed' /\ active' = [active EXCEPT ![l] = TRUE]
  <2>1. dl' = [dl EXCEPT ![i].count = @ + 1] /\ stack' = stack
    BY <1>7
  <2>2. PICK n \in Nat : n = dl[i].count + 1
    BY <1>5
  <2>3. dl' = [dl EXCEPT ![i].count = n]
    BY <2>1, <2>2
  <2>4. /\ dl' \in Seq(HandleSet) /\ DOMAIN dl' = DOMAIN dl /\ Len(dl') = Len(dl)
        /\ \A j \in DOMAIN dl : dl'[j].lib = dl[j].lib /\ dl'[j].dlopened = dl[j].dlopened
        /\ \A j \in DOMAIN dl : j # i => dl'[j] = dl[j]
        /\ dl'[i].count = n
    BY <1>1, <1>3, <2>3, CountFacts
  <2>5. Counted(i, dl[i].count + 1)
    BY <1>2, <1>3, <2>2, <2>4 DEF Counted
  <2>6. \/ ~(dl[i].count = 0 /\ dl[i].dlopened /\ l \in Emulated) /\ active' = active
        \/ failed' /\ active' = [active EXCEPT ![l] = TRUE]
    BY <1>7
  <2>7. stack' = stack
    BY <1>7
  <2>8. ReopenCounts(l)
    BY <1>3, <2>5, <2>6, <2>7, Zenon DEF ReopenCounts
  <2> QED  BY <1>8, <1>9, <2>8
<1> QED  BY <1>4, <1>6, <1>7

(* dlopen returns: the handle after its last step.                         *)
OpenCounts == Frame1.handle > 0 /\ Counted(Frame1.handle, dl[Frame1.handle].count + 1)
OpenAdds == /\ Frame1.handle = 0 /\ Frame1.lib \in Libs
            /\ dl' \in Seq(HandleSet) /\ DOMAIN dl' = 1 .. Len(dl) + 1 /\ Len(dl') = Len(dl) + 1
            /\ DOMAIN dl = 1 .. Len(dl) /\ Len(dl) \in Nat
            /\ \A j \in DOMAIN dl : dl'[j] = dl[j]
            /\ dl'[Len(dl) + 1].lib = Frame1.lib /\ dl'[Len(dl) + 1].count = 1
            /\ dl'[Len(dl) + 1].dlopened = Frame1.dlopened
OpenMain == Frame1.handle = 0 /\ Frame1.lib = Main /\ dl' = dl

(* dlopen returns: it counts on its handle or adds one; the start-up does  *)
(* neither.                                                                *)
LEMMA OpenReturnsEffect ==
  ASSUME TypeOK, OpenReturns
  PROVE  /\ TopGone /\ Frame1.running = None /\ Frame1.todo = << >>
         /\ OpenCounts \/ OpenAdds \/ OpenMain
<1>1. /\ stack # << >> /\ stack' = Front(stack) /\ Top.running = None /\ Top.todo = << >>
      /\ dl' = IF Top.handle > 0 THEN [dl EXCEPT ![Top.handle].count = @ + 1]
               ELSE IF Top.lib = Main THEN dl
               ELSE Append(dl, Handle(Top.lib, Top.dlopened))
      /\ dl \in Seq(HandleSet)
  BY DEF OpenReturns, TypeOK
<1>2. StackIndexed /\ Top = Frame1 /\ Frame1 \in FrameSet /\ TopGone
  BY <1>1, StackFacts, PopEffect
<1>3. /\ Frame1.handle \in Nat /\ Frame1.handle <= Len(dl) /\ Frame1.lib \in Libs \cup {Main}
      /\ Frame1.dlopened \in BOOLEAN
  <2>1. Len(stack) \in DOMAIN stack
    BY <1>2 DEF StackIndexed
  <2>2. Frame1.handle <= Len(dl)
    BY <2>1 DEF TypeOK, Frame1
  <2> QED  BY <1>2, <2>2 DEF FrameSet
<1>4. DOMAIN dl = 1 .. Len(dl) /\ Len(dl) \in Nat
  BY DlFacts
<1>5. CASE Frame1.handle > 0
  <2>1. PICK i \in DOMAIN dl : i = Frame1.handle
    BY <1>3, <1>4, <1>5
  <2>2. dl[i].count \in Nat
    BY DlFacts
  <2>3. PICK n \in Nat : n = dl[i].count + 1
    BY <2>2
  <2>4. dl' = [dl EXCEPT ![i].count = @ + 1]
    BY <1>1, <1>2, <1>5, <2>1
  <2>5. dl' = [dl EXCEPT ![i].count = n]
    BY <2>3, <2>4
  <2>6. /\ dl' \in Seq(HandleSet) /\ DOMAIN dl' = DOMAIN dl /\ Len(dl') = Len(dl)
        /\ \A j \in DOMAIN dl : dl'[j].lib = dl[j].lib /\ dl'[j].dlopened = dl[j].dlopened
        /\ \A j \in DOMAIN dl : j # i => dl'[j] = dl[j]
        /\ dl'[i].count = n
    BY <1>1, <2>5, CountFacts
  <2>7. Counted(i, dl[i].count + 1)
    BY <1>4, <2>3, <2>6 DEF Counted
  <2> QED  BY <1>1, <1>2, <1>5, <2>1, <2>7 DEF OpenCounts
<1>6. CASE Frame1.handle = 0 /\ Frame1.lib = Main
  BY <1>1, <1>2, <1>6 DEF OpenMain
<1>7. CASE Frame1.handle = 0 /\ Frame1.lib # Main
  <2>1. Frame1.lib \in Libs /\ dl' = Append(dl, Handle(Frame1.lib, Frame1.dlopened))
    BY <1>1, <1>2, <1>3, <1>7
  <2>2. PICK h : h = Handle(Frame1.lib, Frame1.dlopened)
    OBVIOUS
  <2>3. h \in HandleSet /\ h.lib = Frame1.lib /\ h.count = 1 /\ h.dlopened = Frame1.dlopened
    <3>1. PICK b \in BOOLEAN : b = Frame1.dlopened
      BY <1>3
    <3>2. PICK x \in Libs : x = Frame1.lib
      BY <2>1
    <3> QED  BY <2>2, <3>1, <3>2, HandleFacts
  <2>4. /\ dl' \in Seq(HandleSet) /\ DOMAIN dl' = 1 .. Len(dl) + 1 /\ Len(dl') = Len(dl) + 1
        /\ \A j \in 1 .. Len(dl) : dl'[j] = dl[j]
        /\ dl'[Len(dl) + 1] = h
    BY <1>1, <2>1, <2>2, <2>3, AppendFacts
  <2> QED  BY <1>1, <1>2, <1>4, <1>7, <2>1, <2>3, <2>4 DEF OpenAdds
<1> QED  BY <1>1, <1>2, <1>3, <1>5, <1>6, <1>7

-----------------------------------------------------------------------------
(* The types.                                                              *)

(* The kinds of libraries are libraries, and the program and None are not. *)
LEMMA EmulatedFacts == Emulated \subseteq Libs /\ Native \subseteq Libs /\ None \notin Libs /\ Main \notin Libs
                       /\ Libs \subseteq User /\ Main \in User /\ None \in User /\ None # Main
                       /\ Emulated \cap Native = {} /\ Libs = Emulated \cup Native
BY LibraryAssumption DEF Emulated, User

(* The handle of a frame is one of the list, or 0.                         *)
LEMMA HandleBound ==
  ASSUME TypeOK
  PROVE  /\ \A i \in DOMAIN stack : stack[i].handle \in Nat /\ stack[i].handle <= Len(dl)
         /\ DOMAIN stack = 1 .. Len(stack) /\ Len(stack) \in Nat /\ Len(dl) \in Nat
<1>1. stack \in Seq(FrameSet) /\ \A i \in DOMAIN stack : stack[i].handle <= Len(dl)
  BY DEF TypeOK
<1>2. \A i \in DOMAIN stack : stack[i] \in FrameSet
  BY <1>1
<1>3. Len(dl) \in Nat
  BY DlFacts
<1> QED  BY <1>1, <1>2, <1>3 DEF FrameSet

(* Typing of the stack when its last frame is replaced.                    *)
LEMMA TopIsType ==
  ASSUME TypeOK, NEW f \in FrameSet, TopIs(f), SameFrame(f, Frame1)
  PROVE  stack' \in Seq(FrameSet) /\ \A i \in DOMAIN stack' : stack'[i].handle <= Len(dl)
<1>1. Len(stack) \in DOMAIN stack /\ DOMAIN stack = 1 .. Len(stack) /\ Len(stack) \in Nat
  BY DEF TopIs, StackIndexed
<1>2. \A i \in DOMAIN stack : stack[i].handle \in Nat /\ stack[i].handle <= Len(dl)
  BY HandleBound
<1>3. f.handle <= Len(dl)
  BY <1>1, <1>2 DEF SameFrame, Frame1
<1>4. ASSUME NEW i \in DOMAIN stack' PROVE stack'[i].handle <= Len(dl)
  <2>1. CASE i = Len(stack)
    BY <1>3, <2>1 DEF TopIs
  <2>2. CASE i # Len(stack)
    <3>1. i \in 1 .. Len(stack) - 1 /\ i \in DOMAIN stack
      BY <1>1, <2>2 DEF TopIs
    <3> QED  BY <1>2, <3>1 DEF TopIs
  <2> QED  BY <2>1, <2>2
<1> QED  BY <1>4 DEF TopIs

(* Typing of the stack when its last frame goes.                           *)
LEMMA TopGoneType ==
  ASSUME TypeOK, TopGone
  PROVE  /\ stack' \in Seq(FrameSet)
         /\ \A i \in DOMAIN stack' : stack'[i].handle \in Nat /\ stack'[i].handle <= Len(dl)
<1>1. DOMAIN stack = 1 .. Len(stack) /\ Len(stack) \in Nat
  BY DEF TopGone, StackIndexed
<1>2. \A i \in DOMAIN stack : stack[i].handle \in Nat /\ stack[i].handle <= Len(dl)
  BY HandleBound
<1>4. ASSUME NEW i \in DOMAIN stack' PROVE stack'[i].handle \in Nat /\ stack'[i].handle <= Len(dl)
  <2>1. i \in 1 .. Len(stack) - 1 /\ i \in DOMAIN stack
    BY <1>1 DEF TopGone
  <2> QED  BY <1>2, <2>1 DEF TopGone
<1> QED  BY <1>4 DEF TopGone

(* Typing of the stack when a frame is added.                              *)
LEMMA TopNewType ==
  ASSUME TypeOK, NEW f \in FrameSet, TopNew(f), f.handle <= Len(dl)
  PROVE  stack' \in Seq(FrameSet) /\ \A i \in DOMAIN stack' : stack'[i].handle <= Len(dl)
<1>1. DOMAIN stack = 1 .. Len(stack) /\ Len(stack) \in Nat
  BY DEF TopNew
<1>2. \A i \in DOMAIN stack : stack[i].handle \in Nat /\ stack[i].handle <= Len(dl)
  BY HandleBound
<1>4. ASSUME NEW i \in DOMAIN stack' PROVE stack'[i].handle <= Len(dl)
  <2>1. CASE i = Len(stack) + 1
    BY <2>1 DEF TopNew
  <2>2. CASE i # Len(stack) + 1
    <3>1. i \in 1 .. Len(stack)
      BY <1>1, <2>2 DEF TopNew
    <3> QED  BY <1>1, <1>2, <3>1 DEF TopNew
  <2> QED  BY <2>1, <2>2
<1> QED  BY <1>4 DEF TopNew

(* The steps of AddNeededLib keep the types.                               *)
LEMMA TypeLoading ==
  ASSUME TypeOK, OwnedOnce, CallsOK, Loading
  PROVE  TypeOK'
<1>1. ASSUME NEW l \in Libs, AddLoaded(l) PROVE TypeOK'
  BY <1>1, AddLoadedEffect DEF Replaced, Recorded, Listed, AddLoaded, inits, exitVars, bounds, TypeOK, LibSeqs
<1>2. ASSUME NEW l \in Libs, AddEmulated(l) PROVE TypeOK'
  <2>1. /\ calls' \in Seq(CallSet) /\ Recorded(Top1.me, l) /\ Listed(l, Top1.local)
        /\ active' = [active EXCEPT ![l] = TRUE]
    BY <1>2, AddEmulatedEffect DEF Replaced
  <2>2. active' \in [Libs -> BOOLEAN]
    BY <2>1 DEF TypeOK
  <2> QED  BY <1>2, <2>1, <2>2 DEF Recorded, Listed, AddEmulated, inits, exitVars, bounds, TypeOK, LibSeqs
<1>3. ASSUME NEW l \in Libs, NewNative(l) PROVE TypeOK'
  BY <1>3, NewNativeEffect DEF Pushed, NewNative, lists, inits, exitVars, bounds, TypeOK
<1>4. ASSUME NEW l \in Libs, AddFails(l) PROVE TypeOK'
  BY <1>4, AddFailsEffect DEF Replaced, AddFails, lists, inits, exitVars, TypeOK
<1>5. ASSUME NEW l \in Libs, InitNative(l) PROVE TypeOK'
  BY <1>5, InitNativeEffect DEF Replaced, InitNative, lists, inits, exitVars, bounds, TypeOK
<1>6. ASSUME NEW l \in Libs, InitEmulated(l) PROVE TypeOK'
  BY <1>6, InitEmulatedEffect DEF Pushed, InitEmulated, lists, inits, exitVars, bounds, TypeOK
<1>7. ASSUME NativeReturns PROVE TypeOK'
  <2>1. /\ calls' \in Seq(CallSet) /\ Recorded(Top2.me, Top1.me) /\ Listed(Top1.me, Top2.local)
        /\ active' = [active EXCEPT ![Top1.me] = TRUE]
    BY <1>7, NativeReturnsEffect DEF Popped
  <2>2. active' \in [Libs -> BOOLEAN]
    BY <2>1 DEF TypeOK
  <2> QED  BY <1>7, <2>1, <2>2 DEF Recorded, Listed, NativeReturns, inits, exitVars, bounds, TypeOK, LibSeqs
<1>8. ASSUME StartInits PROVE TypeOK'
  BY <1>8, StartInitsEffect DEF Replaced, StartInits, lists, inits, exitVars, bounds, TypeOK
<1>9. ASSUME NeededReturns PROVE TypeOK'
  <2>1. calls' \in Seq(CallSet) /\ Finalize(Top1.me) /\ Top1.me \in Libs
    BY <1>9, NeededReturnsEffect DEF Popped
  <2>2. finalized' \in [Libs -> BOOLEAN]
    BY <2>1 DEF Finalize, TypeOK
  <2>3. defered' \in Seq(Libs)
    <3>1. defered \in Seq(Libs) /\ (defered' = defered \/ defered' = Append(defered, Top1.me))
      BY <2>1 DEF Finalize, TypeOK, LibSeqs
    <3> QED  BY <2>1, <3>1, AppendFacts
  <2> QED  BY <1>9, <2>1, <2>2, <2>3 DEF NeededReturns, lists, exitVars, bounds, TypeOK, LibSeqs
<1>10. ASSUME NeededFails PROVE TypeOK'
  BY <1>10, NeededFailsEffect DEF Popped, NeededFails, lists, inits, exitVars, bounds, TypeOK
<1>11. ASSUME LoadReturns PROVE TypeOK'
  <2>1. PICK f \in FrameSet : TopIs(f) /\ SameFrame(f, Frame1)
    BY <1>11, LoadReturnsEffect
  <2>2. stack' \in Seq(FrameSet) /\ \A i \in DOMAIN stack' : stack'[i].handle <= Len(dl)
    BY <2>1, TopIsType
  <2>3. calls' \in Seq(CallSet) /\ defered' \in Seq(Libs)
    BY <1>11 DEF LoadReturns
  <2> QED  BY <1>11, <2>2, <2>3 DEF LoadReturns, lists, exitVars, bounds, TypeOK, LibSeqs
<1>12. ASSUME LoadFails PROVE TypeOK'
  <2>0. stack # << >>
    BY <1>12 DEF LoadFails, At, CallsOK
  <2>1. TopGone
    BY <1>12, <2>0, PopEffect DEF LoadFails
  <2>2. stack' \in Seq(FrameSet) /\ \A i \in DOMAIN stack' : stack'[i].handle <= Len(dl)
    BY <2>1, TopGoneType
  <2>3. calls' \in Seq(CallSet)
    BY <1>12 DEF LoadFails
  <2> QED  BY <1>12, <2>2, <2>3 DEF LoadFails, lists, inits, exitVars, bounds, TypeOK, LibSeqs
<1> QED  BY <1>1, <1>2, <1>3, <1>4, <1>5, <1>6, <1>7, <1>8, <1>9, <1>10, <1>11, <1>12 DEF Loading

(* RunElfFini keeps the types.                                             *)
LEMMA FiniType ==
  ASSUME TypeOK, NEW l \in Libs, Fini(l)
  PROVE  initDone' \in [Libs -> BOOLEAN] /\ finiDone' \in [Libs -> BOOLEAN]
BY DEF Fini, TypeOK

(* The steps of dlopen, dlclose and the init functions keep the types.     *)
LEMMA TypeRunning ==
  ASSUME TypeOK, EmulatedOnly,
         \/ RunElfInit \/ InitReturns \/ OpenReturns
         \/ \E l \in Libs : Reopen(l) \/ \E local \in BOOLEAN : Dlopen(l, local)
         \/ \E i \in DOMAIN dl : Dlclose(i)
  PROVE  TypeOK'
<1>1. ASSUME RunElfInit PROVE TypeOK'
  <2>1. PICK f \in FrameSet, h \in Emulated :
          /\ TopIs(f) /\ SameFrame(f, Frame1) /\ h \in Libs
          /\ defered' = IF ~initDone[h] /\ deferedInit THEN Append(defered, h) ELSE defered
    BY <1>1, RunElfInitEffect
  <2>2. stack' \in Seq(FrameSet) /\ \A i \in DOMAIN stack' : stack'[i].handle <= Len(dl)
    BY <2>1, TopIsType
  <2>3. defered' \in Seq(Libs)
    <3>1. defered \in Seq(Libs) /\ (defered' = defered \/ defered' = Append(defered, h))
      BY <2>1 DEF TypeOK, LibSeqs
    <3> QED  BY <2>1, <3>1, AppendFacts
  <2> QED  BY <1>1, <2>2, <2>3 DEF RunElfInit, lists, exitVars, bounds, TypeOK, LibSeqs
<1>2. ASSUME InitReturns PROVE TypeOK'
  <2>1. PICK f \in FrameSet, r \in Emulated :
          /\ TopIs(f) /\ SameFrame(f, Frame1) /\ r \in Libs
          /\ initDone' = [initDone EXCEPT ![r] = TRUE]
          /\ finiDone' = [finiDone EXCEPT ![r] = FALSE]
    BY <1>2, InitReturnsEffect
  <2>2. stack' \in Seq(FrameSet) /\ \A i \in DOMAIN stack' : stack'[i].handle <= Len(dl)
    BY <2>1, TopIsType
  <2>3. initDone' \in [Libs -> BOOLEAN] /\ finiDone' \in [Libs -> BOOLEAN]
    BY <2>1 DEF TypeOK
  <2> QED  BY <1>2, <2>2, <2>3 DEF InitReturns, lists, exitVars, bounds, TypeOK
<1>3. ASSUME OpenReturns PROVE TypeOK'
  <2>1. TopGone /\ (OpenCounts \/ OpenAdds \/ OpenMain)
    BY <1>3, OpenReturnsEffect
  <2>2. dl' \in Seq(HandleSet) /\ Len(dl') >= Len(dl) /\ Len(dl') \in Nat /\ Len(dl) \in Nat
    BY <2>1, DlFacts DEF OpenCounts, OpenAdds, OpenMain, Counted, TypeOK
  <2>3. stack' \in Seq(FrameSet) /\ \A i \in DOMAIN stack' : stack'[i].handle <= Len(dl')
    <3>1. \A i \in DOMAIN stack' : stack'[i].handle <= Len(dl) /\ stack'[i].handle \in Nat
      BY <2>1, TopGoneType
    <3> QED  BY <2>1, <2>2, <3>1 DEF TopGone
  <2> QED  BY <1>3, <2>2, <2>3 DEF OpenReturns, lists, inits, exitVars, bounds, TypeOK
<1>4. ASSUME NEW l \in Libs, Reopen(l) PROVE TypeOK'
  <2>0. reentered' \subseteq Libs /\ opens' \in 0 .. MaxOpens /\ failed' \in BOOLEAN
    BY <1>4, ReopenEffect DEF Reopen, NoteReentered, TypeOK
  <2>1. CASE ReopenReloads(l)
    <3>1. PICK i \in DOMAIN dl, f \in FrameSet : TopNew(f) /\ f.handle = i /\ dl' = dl
      BY <2>1 DEF ReopenReloads
    <3>2. i <= Len(dl)
      BY DlFacts
    <3>3. stack' \in Seq(FrameSet) /\ \A j \in DOMAIN stack' : stack'[j].handle <= Len(dl')
      BY <3>1, <3>2, TopNewType
    <3>4. active' \in [Libs -> BOOLEAN]
      BY <2>1 DEF ReopenReloads, TypeOK
    <3> QED  BY <1>4, <2>0, <3>1, <3>3, <3>4 DEF Reopen, lists, inits, exitVars, TypeOK
  <2>2. CASE ReopenCounts(l)
    <3>1. active' \in [Libs -> BOOLEAN]
      BY <2>2 DEF ReopenCounts, TypeOK
    <3>2. dl' \in Seq(HandleSet) /\ Len(dl') = Len(dl) /\ stack' = stack
      BY <2>2 DEF ReopenCounts, Counted
    <3> QED  BY <1>4, <2>0, <3>1, <3>2 DEF Reopen, lists, inits, exitVars, TypeOK
  <2> QED  BY <1>4, <2>1, <2>2, ReopenEffect
<1>5. ASSUME NEW l \in Libs, NEW local \in BOOLEAN, Dlopen(l, local) PROVE TypeOK'
  <2>1. /\ TopNew(Frame(l, << >>, l \notin Owned, 0)) /\ Frame(l, << >>, l \notin Owned, 0).handle = 0
        /\ calls' \in Seq(CallSet) /\ needed' \in [User -> Seq(Libs)]
    BY <1>5, DlopenEffect
  <2>2. stack' \in Seq(FrameSet) /\ \A j \in DOMAIN stack' : stack'[j].handle <= Len(dl)
    <3>1. Len(dl) \in Nat
      BY DlFacts
    <3> QED  BY <2>1, <3>1 DEF TopNew, TypeOK
  <2>3. reentered' \subseteq Libs /\ opens' \in 0 .. MaxOpens /\ deferedInit' \in BOOLEAN
    BY <1>5, LibraryAssumption DEF Dlopen, NoteReentered, TypeOK
  <2> QED  BY <1>5, <2>1, <2>2, <2>3 DEF Dlopen, exitVars, TypeOK, LibSeqs
<1>6. ASSUME NEW i \in DOMAIN dl, Dlclose(i) PROVE TypeOK'
  <2>1. dl' \in Seq(HandleSet) /\ Len(dl') = Len(dl)
    BY <1>6, DlcloseEffect DEF Counted
  <2>2. dl[i].lib \in Libs
    BY DlFacts
  <2>3. initDone' \in [Libs -> BOOLEAN] /\ finiDone' \in [Libs -> BOOLEAN] /\ active' \in [Libs -> BOOLEAN]
    <3>1. CASE LastClose(i) /\ dl[i].lib \in Emulated
      BY <1>6, <2>2, <3>1, FiniType DEF Dlclose, TypeOK
    <3>2. CASE ~(LastClose(i) /\ dl[i].lib \in Emulated)
      BY <1>6, <3>2 DEF Dlclose, TypeOK
    <3> QED  BY <3>1, <3>2
  <2> QED  BY <1>6, <2>1, <2>3 DEF Dlclose, lists, exitVars, bounds, TypeOK
<1> QED  BY <1>1, <1>2, <1>3, <1>4, <1>5, <1>6

(* The steps of endBox64 keep the types.                                   *)
LEMMA TypeExiting ==
  ASSUME TypeOK, NextOK, Exit \/ FreeNext \/ FreeMapDone \/ FreeDepended \/ Free1Library
  PROVE  TypeOK' /\ NextOK'
<1>1. ASSUME Exit PROVE TypeOK' /\ NextOK'
  <2>1. /\ maps' \in Seq(LibSeqs) /\ next' \in Nat /\ next' = Len(Head(maps'))
    <3>1. maps' = <<local_maplib, maplib>> /\ next' = Len(Head(maps'))
      BY <1>1 DEF Exit, FreeMaps
    <3>2. maplib \in LibSeqs /\ local_maplib \in LibSeqs
      BY DEF TypeOK
    <3>3. maps' \in Seq(LibSeqs) /\ Head(maps') = local_maplib
      BY <3>1, <3>2
    <3>4. Len(local_maplib) \in Nat
      BY <3>2 DEF LibSeqs
    <3> QED  BY <3>1, <3>3, <3>4
  <2> QED  BY <1>1, <2>1 DEF Exit, lists, inits, bounds, TypeOK, NextOK
<1>2. ASSUME FreeNext PROVE TypeOK' /\ NextOK'
  <2>1. maps # << >> /\ next > 0 /\ next \in Nat /\ maps \in Seq(LibSeqs) /\ next <= Len(Head(maps))
    BY <1>2 DEF FreeNext, TypeOK, NextOK
  <2>2. Head(maps) \in LibSeqs
    BY <2>1
  <2>3. PICK s \in Seq(Libs) : s = Head(maps)
    BY <2>2 DEF LibSeqs
  <2>4. s[next] \in Libs
    BY <2>1, <2>3
  <2>5. PICK l \in Libs : l = Head(maps)[next]
    BY <2>3, <2>4
  <2>6. /\ frees' = IF l \in entered THEN frees ELSE Append(frees, [lib |-> l, todo |-> depended[l]])
        /\ entered' = entered \cup {l} /\ next' = next - 1 /\ maps' = maps
    BY <1>2, <2>5 DEF FreeNext, Recurse
  <2>7. frees' \in Seq(FreeSet)
    <3>1. [lib |-> l, todo |-> depended[l]] \in FreeSet
      BY DEF FreeSet, TypeOK
    <3>2. frees \in Seq(FreeSet)
      BY DEF TypeOK
    <3>3. CASE l \in entered
      BY <2>6, <3>2, <3>3
    <3>4. CASE l \notin entered
      <4>1. frees' = Append(frees, [lib |-> l, todo |-> depended[l]])
        BY <2>6, <3>4
      <4> QED  BY <3>1, <3>2, <4>1, AppendFacts
    <3> QED  BY <3>3, <3>4
  <2>8. next' \in Nat /\ next' <= Len(Head(maps))
    <3>1. Len(s) \in Nat
      BY <2>3
    <3> QED  BY <2>1, <2>3, <2>6, <3>1
  <2> QED  BY <1>2, <2>6, <2>7, <2>8 DEF FreeNext, freeing, lists, bounds, TypeOK, NextOK
<1>3. ASSUME FreeMapDone PROVE TypeOK' /\ NextOK'
  <2>1. maps # << >> /\ maps \in Seq(LibSeqs) /\ maps' = Tail(maps)
        /\ next' = IF Len(maps) > 1 THEN Len(maps[2]) ELSE 0
    BY <1>3 DEF FreeMapDone, TypeOK
  <2>2. maps' \in Seq(LibSeqs) /\ Len(maps') = Len(maps) - 1
    BY <2>1
  <2>3. maps' # << >> => Len(maps) > 1 /\ Head(maps') = maps[2] /\ maps[2] \in Seq(Libs)
    BY <2>1, <2>2 DEF LibSeqs
  <2>4. next' \in Nat /\ NextOK'
    <3>1. CASE Len(maps) > 1
      <4>0. Len(maps) \in Nat
        BY <2>1
      <4>1. maps' # << >>
        <5>1. Len(maps') # 0
          BY <2>2, <3>1, <4>0
        <5> QED  BY <5>1
      <4>2. Len(maps[2]) \in Nat
        BY <2>3, <4>1
      <4> QED  BY <2>1, <2>3, <3>1, <4>1, <4>2 DEF NextOK
    <3>2. CASE ~(Len(maps) > 1)
      BY <2>1, <2>3, <3>2 DEF NextOK
    <3> QED  BY <3>1, <3>2
  <2> QED  BY <1>3, <2>2, <2>4 DEF FreeMapDone, freeing, lists, bounds, TypeOK
<1>4. ASSUME FreeDepended PROVE TypeOK' /\ NextOK'
  <2>1. frees \in Seq(FreeSet) /\ frees # << >> /\ Last(frees).todo # << >>
    BY <1>4 DEF FreeDepended, TypeOK
  <2>2. Last(frees) \in FreeSet
    BY <2>1, FrontFacts
  <2>3. PICK s \in Seq(Libs) : s = Last(frees).todo
    BY <2>2 DEF FreeSet, LibSeqs
  <2>4. Front(s) \in Seq(Libs) /\ Last(s) \in Libs
    BY <2>1, <2>3, FrontFacts
  <2>5. PICK r : r = [Last(frees) EXCEPT !.todo = Front(@)]
    OBVIOUS
  <2>6. r \in FreeSet
    BY <2>2, <2>3, <2>4, <2>5 DEF FreeSet, LibSeqs
  <2>7. PICK rest : rest = Append(Front(frees), r)
    OBVIOUS
  <2>8. rest \in Seq(FreeSet)
    BY <2>1, <2>6, <2>7, ReplaceFacts
  <2>9. PICK u \in Libs : u = Last(s)
    BY <2>4
  <2>10. IF u \in entered \/ u \notin Range(Head(maps))
         THEN frees' = rest /\ entered' = entered
         ELSE frees' = Append(rest, [lib |-> u, todo |-> depended[u]]) /\ entered' = entered \cup {u}
    BY <1>4, <2>3, <2>5, <2>7, <2>9 DEF FreeDepended, Recurse
  <2>11. [lib |-> u, todo |-> depended[u]] \in FreeSet
    BY DEF FreeSet, TypeOK
  <2>12. frees' \in Seq(FreeSet) /\ entered' \subseteq Libs
    <3>1. CASE u \in entered \/ u \notin Range(Head(maps))
      BY <2>8, <2>10, <3>1 DEF TypeOK
    <3>2. CASE ~(u \in entered \/ u \notin Range(Head(maps)))
      <4>1. frees' = Append(rest, [lib |-> u, todo |-> depended[u]]) /\ entered' = entered \cup {u}
        BY <2>10, <3>2
      <4>2. entered' \subseteq Libs
        BY <4>1 DEF TypeOK
      <4> QED  BY <2>8, <2>11, <4>1, <4>2, AppendFacts
    <3> QED  BY <3>1, <3>2
  <2> QED  BY <1>4, <2>12 DEF FreeDepended, freeing, lists, bounds, TypeOK, NextOK
<1>5. ASSUME Free1Library PROVE TypeOK' /\ NextOK'
  <2>1. frees \in Seq(FreeSet) /\ frees # << >> /\ frees' = Front(frees)
    BY <1>5 DEF Free1Library, TypeOK
  <2>2. Last(frees) \in FreeSet /\ Front(frees) \in Seq(FreeSet)
    BY <2>1, FrontFacts
  <2>3. PICK l \in Libs : l = Last(frees).lib
    BY <2>2 DEF FreeSet
  <2>4. /\ IF l \in Emulated THEN Fini(l) ELSE initDone' = initDone /\ finiDone' = finiDone
        /\ freed' = freed \cup {l}
    BY <1>5, <2>3 DEF Free1Library
  <2>5. initDone' \in [Libs -> BOOLEAN] /\ finiDone' \in [Libs -> BOOLEAN]
    BY <2>4, FiniType DEF TypeOK
  <2>6. freed' \subseteq Libs
    BY <2>4 DEF TypeOK
  <2> QED  BY <1>5, <2>1, <2>2, <2>5, <2>6 DEF Free1Library, freeing, lists, bounds, TypeOK, NextOK
<1> QED  BY <1>1, <1>2, <1>3, <1>4, <1>5

-----------------------------------------------------------------------------
(* One owner.                                                              *)

(* The steps that record no library and change no handle.                  *)
Others == \/ \E l \in Libs : NewNative(l) \/ AddFails(l) \/ InitNative(l) \/ InitEmulated(l)
          \/ StartInits \/ NeededReturns \/ NeededFails \/ LoadReturns \/ LoadFails
          \/ RunElfInit \/ InitReturns \/ Exit \/ FreeNext \/ FreeMapDone \/ FreeDepended \/ Free1Library

(* These steps leave the lists and the handles alone.                      *)
LEMMA OthersKeep ==
  ASSUME Others
  PROVE  UNCHANGED <<maplib, local_maplib, needed, depended, dl>>
BY DEF Others, NewNative, AddFails, InitNative, InitEmulated, StartInits, NeededReturns, NeededFails,
       LoadReturns, LoadFails, RunElfInit, InitReturns, Exit, FreeNext, FreeMapDone, FreeDepended,
       Free1Library, lists, freeing

(* OwnedOnce when l is recorded for me and listed.                         *)
LEMMA OwnedAdds ==
  ASSUME OwnedOnce, TypeOK, NEW me \in User, NEW l \in Libs, NEW local, Recorded(me, l), Listed(l, local), dl' = dl
  PROVE  OwnedOnce'
<1>1. Owned \subseteq Owned' /\ l \in Owned'
  BY DEF Listed
<1>2. \A i \in DOMAIN dl' : dl'[i].lib \in Owned'
  BY <1>1 DEF OwnedOnce
<1>3. ASSUME NEW u \in User PROVE Range(needed'[u]) \subseteq Owned'
  <2>1. Range(needed[u]) \subseteq Owned
    BY DEF OwnedOnce
  <2> QED  BY <1>1, <2>1 DEF Recorded
<1>4. Unique(maplib') /\ Unique(local_maplib') /\ Range(maplib') \cap Range(local_maplib') = {}
  BY DEF Listed
<1> QED  BY <1>2, <1>3, <1>4 DEF OwnedOnce, Unique

(* No step makes a library owned twice, or names one that is not owned.    *)
LEMMA OwnedStep ==
  ASSUME TypeOK, OwnedOnce, CallsOK, FramesOK, Next
  PROVE  OwnedOnce'
<1>1. ASSUME Others PROVE OwnedOnce'
  BY <1>1, OthersKeep DEF OwnedOnce, Owned
<1>2. ASSUME NEW l \in Libs, AddLoaded(l) PROVE OwnedOnce'
  <2>1. Top1.me \in User /\ Recorded(Top1.me, l) /\ Listed(l, Top1.local) /\ dl' = dl
    BY <1>2, AddLoadedEffect DEF AddLoaded
  <2> QED  BY <2>1, OwnedAdds
<1>3. ASSUME NEW l \in Libs, AddEmulated(l) PROVE OwnedOnce'
  <2>1. Top1.me \in User /\ Recorded(Top1.me, l) /\ Listed(l, Top1.local) /\ dl' = dl
    BY <1>3, AddEmulatedEffect DEF AddEmulated
  <2> QED  BY <2>1, OwnedAdds
<1>4. ASSUME NativeReturns PROVE OwnedOnce'
  <2>1. Top2.me \in User /\ Recorded(Top2.me, Top1.me) /\ Listed(Top1.me, Top2.local) /\ dl' = dl
        /\ Top1.me \in Libs
    BY <1>4, NativeReturnsEffect DEF NativeReturns, Taken
  <2> QED  BY <2>1, OwnedAdds
<1>5. ASSUME OpenReturns PROVE OwnedOnce'
  <2>1. /\ UNCHANGED <<maplib, local_maplib, needed>> /\ calls = << >>
        /\ TopGone /\ (OpenCounts \/ OpenAdds \/ OpenMain)
    BY <1>5, OpenReturnsEffect DEF OpenReturns, lists
  <2>2. Frame1.lib \in Owned \cup {Main}
    <3>1. Len(stack) \in DOMAIN stack
      BY <2>1 DEF TopGone, StackIndexed
    <3> QED  BY <2>1, <3>1 DEF FramesOK, Frame1
  <2>3. \A i \in DOMAIN dl' : dl'[i].lib \in Owned
    <3>1. CASE OpenCounts
      BY <3>1 DEF OpenCounts, Counted, OwnedOnce
    <3>2. CASE OpenAdds
      <4>1. Frame1.lib \in Owned
        BY <2>2, <3>2, EmulatedFacts DEF OpenAdds
      <4>2. \A i \in DOMAIN dl' : i \in DOMAIN dl \/ i = Len(dl) + 1
        BY <3>2 DEF OpenAdds
      <4> QED  BY <3>2, <4>1, <4>2 DEF OpenAdds, OwnedOnce
    <3>3. CASE OpenMain
      BY <3>3 DEF OpenMain, OwnedOnce
    <3> QED  BY <2>1, <3>1, <3>2, <3>3
  <2> QED  BY <2>1, <2>3 DEF OwnedOnce, Owned
<1>6. ASSUME NEW l \in Libs, Reopen(l) PROVE OwnedOnce'
  <2>1. UNCHANGED <<maplib, local_maplib, needed>>
    BY <1>6 DEF Reopen, lists
  <2>2. \A i \in DOMAIN dl' : dl'[i].lib \in Owned
    BY <1>6, ReopenEffect DEF ReopenReloads, ReopenCounts, Counted, OwnedOnce
  <2> QED  BY <2>1, <2>2 DEF OwnedOnce, Owned
<1>7. ASSUME NEW l \in Libs, NEW local \in BOOLEAN, Dlopen(l, local) PROVE OwnedOnce'
  <2>1. UNCHANGED <<maplib, local_maplib, dl>>
    BY <1>7 DEF Dlopen
  <2>2. \A u \in User : Range(needed'[u]) \subseteq Range(needed[u])
    BY <1>7, DlopenEffect, EmptyRange
  <2> QED  BY <2>1, <2>2 DEF OwnedOnce, Owned
<1>8. ASSUME NEW i \in DOMAIN dl, Dlclose(i) PROVE OwnedOnce'
  <2>1. UNCHANGED <<maplib, local_maplib, needed>>
    BY <1>8 DEF Dlclose, lists
  <2>2. \A j \in DOMAIN dl' : dl'[j].lib \in Owned
    BY <1>8, DlcloseEffect DEF Counted, OwnedOnce
  <2> QED  BY <2>1, <2>2 DEF OwnedOnce, Owned
<1> QED  BY <1>1, <1>2, <1>3, <1>4, <1>5, <1>6, <1>7, <1>8 DEF Next, Loading, Others

-----------------------------------------------------------------------------
(* The calls under way.                                                    *)

(* CallOK of the call c, with the needed libraries N and t the library that*)
(* the dlopen under way opens: what it says of c alone, ...                *)
PathsOf(t, u) == IF u = None THEN {t} ELSE Range(Needs[u])

(* CallOK of the call c alone, and of c with the call d above it.          *)
CallBody(N, t, c, i) ==
  /\ IF i = 1 THEN c.me \in {Main, None} ELSE c.me \in Libs
  /\ c.local => c.me = None
  /\ c.idx <= Len(N[c.me])
  /\ c.phase = "add" => /\ Range(c.todo) \subseteq PathsOf(t, c.me)
                        /\ PathsOf(t, c.me) \subseteq Range(N[c.me]) \cup Range(c.todo)
  /\ c.phase = "init" => /\ Range(c.todo) \subseteq Range(N[c.me])
                         /\ PathsOf(t, c.me) \subseteq Range(N[c.me])

(* and of the call d that c made.                                          *)
CallLink(own, c, d) ==
  /\ c.todo # << >> /\ Head(c.todo) = d.me
  /\ \/ c.phase = "add" /\ d.me \in Native \ own
     \/ c.phase = "init" /\ d.me \in Emulated

(* CallOK of a call is CallBody of it and CallLink with the next one.      *)
LEMMA CallSplit ==
  ASSUME NEW i
  PROVE  CallOK(i) <=> /\ CallBody(needed, Top.lib, calls[i], i)
                       /\ i < Len(calls) => CallLink(Owned, calls[i], calls[i + 1])
BY DEF CallOK, CallBody, CallLink, Paths, PathsOf

(* The same in the next state.                                             *)
LEMMA CallSplitPrime ==
  ASSUME NEW i
  PROVE  CallOK(i)' <=> /\ CallBody(needed', Top'.lib, calls'[i], i)
                        /\ i < Len(calls') => CallLink(Owned', calls'[i], calls'[i + 1])
BY DEF CallOK, CallBody, CallLink, Paths, PathsOf

(* A call is kept when the lists of needed libraries grow, ...             *)
LEMMA BodyKept ==
  ASSUME NEW N, NEW M, NEW t, NEW i, NEW c \in CallSet, CallBody(N, t, c, i),
         Range(N[c.me]) \subseteq Range(M[c.me]),
         Len(N[c.me]) \in Nat, Len(M[c.me]) \in Nat, Len(N[c.me]) <= Len(M[c.me])
  PROVE  CallBody(M, t, c, i)
<1>1. c.idx <= Len(M[c.me])
  BY DEF CallBody, CallSet
<1>2. c.phase = "add" => PathsOf(t, c.me) \subseteq Range(M[c.me]) \cup Range(c.todo)
  BY DEF CallBody
<1>3. c.phase = "init" => /\ Range(c.todo) \subseteq Range(M[c.me])
                          /\ PathsOf(t, c.me) \subseteq Range(M[c.me])
  BY DEF CallBody
<1> QED  BY <1>1, <1>2, <1>3 DEF CallBody

(* when it has added l, ...                                                *)
LEMMA BodyAdded ==
  ASSUME NEW N, NEW M, NEW t, NEW i, NEW c \in CallSet, NEW d, CallBody(N, t, c, i), NEW l,
         Taken(d, c, l), c.phase = "add", Range(M[c.me]) = Range(N[c.me]) \cup {l},
         Len(N[c.me]) \in Nat, Len(M[c.me]) \in Nat, Len(N[c.me]) <= Len(M[c.me])
  PROVE  CallBody(M, t, d, i)
<1>1. d.idx <= Len(M[d.me])
  BY DEF CallBody, CallSet, Taken
<1>2. /\ Range(d.todo) \subseteq PathsOf(t, d.me)
      /\ PathsOf(t, d.me) \subseteq Range(M[d.me]) \cup Range(d.todo)
  BY DEF CallBody, Taken
<1> QED  BY <1>1, <1>2 DEF CallBody, Taken

(* when it has initialised l, ...                                          *)
LEMMA BodyInited ==
  ASSUME NEW N, NEW t, NEW i, NEW c, NEW d, CallBody(N, t, c, i), NEW l,
         Taken(d, c, l), c.phase = "init"
  PROVE  CallBody(N, t, d, i)
<1>1. Range(d.todo) \subseteq Range(N[d.me]) /\ PathsOf(t, d.me) \subseteq Range(N[d.me])
  BY DEF CallBody, Taken
<1> QED  BY <1>1 DEF CallBody, Taken

(* when it begins to initialise, ...                                       *)
LEMMA BodyStarted ==
  ASSUME NEW t, NEW i, NEW c, NEW d, CallBody(needed, t, c, i), Started(d, c)
  PROVE  CallBody(needed, t, d, i)
<1>1. Range(d.todo) \subseteq Range(needed[d.me]) /\ PathsOf(t, d.me) \subseteq Range(needed[d.me])
  BY EmptyRange DEF CallBody, Started
<1> QED  BY <1>1 DEF CallBody, Started

(* when it fails, and when it begins.                                      *)
LEMMA BodyFails ==
  ASSUME NEW N, NEW t, NEW i, NEW c \in CallSet, CallBody(N, t, c, i)
  PROVE  CallBody(N, t, Fail(c), i)
BY FailFacts DEF CallBody

(* A call that begins satisfies CallBody.                                  *)
LEMMA BodyBegins ==
  ASSUME NEW N, NEW t, NEW i, i # 1, NEW l \in Libs, NEW c \in CallSet, Len(N[l]) \in Nat,
         c = Call(l, FALSE, Len(N[l]), Needs[l])
  PROVE  CallBody(N, t, c, i)
<1>1. c.me = l /\ c.local = FALSE /\ c.idx = Len(N[l]) /\ c.todo = Needs[l] /\ c.phase = "add"
  BY DEF Call
<1>2. PathsOf(t, l) = Range(Needs[l])
  BY EmulatedFacts DEF PathsOf
<1>3. ~c.local
  BY <1>1
<1>4. c.idx <= Len(N[c.me])
  <2>1. PICK n \in Nat : n = Len(N[l])
    OBVIOUS
  <2>2. c.idx = n /\ Len(N[c.me]) = n
    BY <1>1, <2>1
  <2>3. n <= n
    BY <2>1
  <2> QED  BY <2>2, <2>3, Zenon
<1>5. /\ Range(c.todo) \subseteq PathsOf(t, c.me) /\ c.phase # "init"
      /\ PathsOf(t, c.me) \subseteq Range(N[c.me]) \cup Range(c.todo)
  BY <1>1, <1>2
<1>6. IF i = 1 THEN c.me \in {Main, None} ELSE c.me \in Libs
  BY <1>1
<1> QED  BY <1>3, <1>4, <1>5, <1>6 DEF CallBody

(* No guest code runs.                                                     *)
CallsFrame ==
  deferedInit /\ ~exiting /\ stack # << >> /\ Top.running = None /\ Top.todo = << >> /\ Top.handle = 0

(* CallsFrame when the stack of dlopens is unchanged.                      *)
LEMMA FrameKept ==
  ASSUME CallsFrame, UNCHANGED <<deferedInit, exiting, stack>>
  PROVE  CallsFrame' /\ Top' = Top
BY DEF CallsFrame, Top

(* The calls are sound when the innermost one is replaced.                 *)
LEMMA ReplacedOK ==
  ASSUME CallsOK, CallsFrame, NEW c, Replaced(c), c.me = Top1.me, CallBody(needed', Top.lib, c, Len(calls)),
         \A i \in 1 .. Len(calls) - 1 : CallBody(needed', Top.lib, calls[i], i),
         \A i \in 2 .. Len(calls) : calls[i].me \in Native \ Owned => calls[i].me \notin Owned',
         UNCHANGED <<deferedInit, exiting, stack>>
  PROVE  CallsOK'
<1>1. Len(calls) \in Nat /\ Len(calls) > 0 /\ DOMAIN calls = 1 .. Len(calls) /\ DOMAIN calls' = 1 .. Len(calls)
      /\ Len(calls') = Len(calls)
  BY DEF Replaced, CallsIndexed
<1>2. CallsFrame' /\ Top' = Top
  BY FrameKept
<1>3. \A i \in 1 .. Len(calls) : calls'[i].me = calls[i].me
  BY <1>1 DEF Replaced, Top1
<1>4. ASSUME NEW i \in DOMAIN calls' PROVE CallOK(i)'
  <2>1. CallBody(needed', Top.lib, calls'[i], i)
    BY <1>1 DEF Replaced
  <2>2. ASSUME i < Len(calls') PROVE CallLink(Owned', calls'[i], calls'[i + 1])
    <3>1. i \in 1 .. Len(calls) - 1 /\ i + 1 \in 2 .. Len(calls) /\ i \in DOMAIN calls /\ i + 1 \in 1 .. Len(calls)
      BY <1>1, <2>2
    <3>2. CallLink(Owned, calls[i], calls[i + 1])
      BY <1>1, <2>2, <3>1, CallSplit DEF CallsOK
    <3>3. calls'[i] = calls[i] /\ calls'[i + 1].me = calls[i + 1].me
      BY <1>3, <3>1 DEF Replaced
    <3> QED  BY <3>1, <3>2, <3>3 DEF CallLink
  <2> QED  BY <1>2, <2>1, <2>2, CallSplitPrime
<1>5. \A i, j \in DOMAIN calls' : 1 < i /\ i < j => calls'[j].me \in Reach[calls'[i].me]
  BY <1>1, <1>3 DEF CallsOK
<1>6. 1 \in DOMAIN calls /\ calls'[1].me = calls[1].me
  BY <1>1, <1>3
<1>7. (calls'[1].me = None => Top'.lib \in Libs) /\ (calls'[1].me = Main => Top'.lib = Main)
  BY <1>1, <1>2, <1>6 DEF CallsOK
<1> QED  BY <1>2, <1>4, <1>5, <1>7 DEF CallsOK, CallsFrame

(* The calls are sound when the innermost one returns.                     *)
LEMMA PoppedOK ==
  ASSUME CallsOK, CallsFrame, NEW c, Popped(c), c.me = Top2.me, CallBody(needed', Top.lib, c, Len(calls) - 1),
         \A i \in 1 .. Len(calls) - 2 : CallBody(needed', Top.lib, calls[i], i),
         \A i \in 2 .. Len(calls) - 1 : calls[i].me \in Native \ Owned => calls[i].me \notin Owned',
         UNCHANGED <<deferedInit, exiting, stack>>
  PROVE  CallsOK'
<1>1. Len(calls) \in Nat /\ Len(calls) > 1 /\ DOMAIN calls = 1 .. Len(calls) /\ DOMAIN calls' = 1 .. Len(calls) - 1
      /\ Len(calls') = Len(calls) - 1
  BY DEF Popped, CallsIndexed
<1>2. CallsFrame' /\ Top' = Top
  BY FrameKept
<1>3. \A i \in 1 .. Len(calls) - 1 : calls'[i].me = calls[i].me
  BY <1>1 DEF Popped, Top2
<1>4. ASSUME NEW i \in DOMAIN calls' PROVE CallOK(i)'
  <2>1. CallBody(needed', Top.lib, calls'[i], i)
    BY <1>1 DEF Popped
  <2>2. ASSUME i < Len(calls') PROVE CallLink(Owned', calls'[i], calls'[i + 1])
    <3>1. i \in 1 .. Len(calls) - 2 /\ i + 1 \in 2 .. Len(calls) - 1 /\ i \in DOMAIN calls /\ i + 1 \in 1 .. Len(calls) - 1
          /\ i < Len(calls)
      BY <1>1, <2>2
    <3>2. CallLink(Owned, calls[i], calls[i + 1])
      BY <1>1, <3>1, CallSplit DEF CallsOK
    <3>3. calls'[i] = calls[i] /\ calls'[i + 1].me = calls[i + 1].me
      BY <1>3, <3>1 DEF Popped
    <3> QED  BY <3>1, <3>2, <3>3 DEF CallLink
  <2> QED  BY <1>2, <2>1, <2>2, CallSplitPrime
<1>5. \A i, j \in DOMAIN calls' : 1 < i /\ i < j => calls'[j].me \in Reach[calls'[i].me]
  BY <1>1, <1>3 DEF CallsOK
<1>6. 1 \in DOMAIN calls /\ calls'[1].me = calls[1].me
  BY <1>1, <1>3
<1>7. (calls'[1].me = None => Top'.lib \in Libs) /\ (calls'[1].me = Main => Top'.lib = Main)
  BY <1>1, <1>2, <1>6 DEF CallsOK
<1> QED  BY <1>2, <1>4, <1>5, <1>7 DEF CallsOK, CallsFrame

(* The calls are sound when one begins; here no wrapped library needs      *)
(* itself.                                                                 *)
LEMMA PushedOK ==
  ASSUME CallsOK, CallsFrame, NEW l \in Libs, NEW c, Pushed(c), c.me = l,
         CallBody(needed, Top.lib, c, Len(calls) + 1),
         CallLink(Owned, Top1, c),
         Len(calls) > 1 => l \in Range(Needs[Top1.me]),
         UNCHANGED <<deferedInit, exiting, stack, maplib, local_maplib, needed>>
  PROVE  CallsOK'
<1>1. Len(calls) \in Nat /\ Len(calls) > 0 /\ DOMAIN calls = 1 .. Len(calls) /\ DOMAIN calls' = 1 .. Len(calls) + 1
      /\ Len(calls') = Len(calls) + 1
  BY DEF Pushed, CallsIndexed
<1>2. CallsFrame' /\ Top' = Top /\ Owned' = Owned
  BY FrameKept DEF Owned
<1>3. \A i \in 1 .. Len(calls) : calls'[i] = calls[i]
  BY DEF Pushed
<1>4. ASSUME NEW i \in DOMAIN calls' PROVE CallOK(i)'
  <2>1. CASE i = Len(calls) + 1
    <3>1. CallBody(needed', Top.lib, calls'[i], i) /\ ~(i < Len(calls'))
      BY <1>1, <2>1 DEF Pushed
    <3> QED  BY <1>2, <3>1, CallSplitPrime
  <2>2. CASE i = Len(calls)
    <3>1. i \in DOMAIN calls /\ calls'[i] = calls[i] /\ calls'[i + 1] = c
      BY <1>1, <1>3, <2>2 DEF Pushed
    <3>2. CallBody(needed', Top.lib, calls'[i], i)
      BY <3>1, CallSplit DEF CallsOK
    <3>3. CallLink(Owned', calls'[i], calls'[i + 1])
      BY <1>2, <2>2, <3>1 DEF Top1
    <3> QED  BY <1>2, <3>2, <3>3, CallSplitPrime
  <2>3. CASE i < Len(calls)
    <3>1. i \in DOMAIN calls /\ i \in 1 .. Len(calls) /\ i + 1 \in 1 .. Len(calls)
      BY <1>1, <2>3
    <3>2. calls'[i] = calls[i] /\ calls'[i + 1] = calls[i + 1]
      BY <1>3, <3>1
    <3>3. CallBody(needed', Top.lib, calls'[i], i) /\ CallLink(Owned', calls'[i], calls'[i + 1])
      BY <1>2, <2>3, <3>1, <3>2, CallSplit DEF CallsOK
    <3> QED  BY <1>2, <3>3, CallSplitPrime
  <2> QED  BY <1>1, <2>1, <2>2, <2>3
<1>5. ASSUME NEW i \in DOMAIN calls', NEW j \in DOMAIN calls', 1 < i, i < j
      PROVE  calls'[j].me \in Reach[calls'[i].me]
  <2>1. CASE j = Len(calls) + 1
    <3>1. calls'[j].me = l /\ i \in 1 .. Len(calls) /\ calls'[i] = calls[i] /\ Len(calls) > 1
      BY <1>1, <1>3, <1>5, <2>1 DEF Pushed
    <3>2. Top1.me \in Libs
      BY <1>1, <3>1, CallSplit DEF CallsOK, CallBody, Top1
    <3>3. l \in Reach[Top1.me]
      BY <3>1, <3>2, NeedsFacts
    <3>4. CASE i = Len(calls)
      BY <3>1, <3>3, <3>4 DEF Top1
    <3>5. CASE i < Len(calls)
      <4>1. Top1.me \in Reach[calls[i].me]
        BY <1>1, <1>5, <3>1, <3>5 DEF CallsOK, Top1
      <4>2. calls[i].me \in Libs
        BY <1>1, <1>5, <3>1, CallSplit DEF CallsOK, CallBody
      <4> QED  BY <3>1, <3>3, <4>1, <4>2, NeedsFacts
    <3> QED  BY <1>1, <3>1, <3>4, <3>5
  <2>2. CASE j \in 1 .. Len(calls)
    <3>1. i \in 1 .. Len(calls)
      BY <1>1, <1>5, <2>2
    <3> QED  BY <1>1, <1>3, <1>5, <2>2, <3>1 DEF CallsOK
  <2> QED  BY <1>1, <2>1, <2>2
<1>6. 1 \in DOMAIN calls /\ calls'[1].me = calls[1].me
  BY <1>1, <1>3
<1>7. (calls'[1].me = None => Top'.lib \in Libs) /\ (calls'[1].me = Main => Top'.lib = Main)
  BY <1>1, <1>2, <1>6 DEF CallsOK
<1> QED  BY <1>2, <1>4, <1>5, <1>7 DEF CallsOK, CallsFrame

(* While a call is under way the inits are deferred and guest code does    *)
(* not run.                                                                *)
LEMMA CallsFrameFacts ==
  ASSUME CallsOK, calls # << >>
  PROVE  CallsFrame
BY DEF CallsOK, CallsFrame

(* The lists of needed libraries are lists of libraries.                   *)
LEMMA NeededFacts ==
  ASSUME TypeOK
  PROVE  \A u \in User : needed[u] \in Seq(Libs) /\ Len(needed[u]) \in Nat /\ Range(needed[u]) \subseteq Libs
<1>1. \A u \in User : needed[u] \in Seq(Libs)
  BY DEF TypeOK, LibSeqs
<1> QED  BY <1>1, RangeFacts

(* Every call under way satisfies CallBody.                                *)
LEMMA BodyOf ==
  ASSUME CallsOK, NEW i \in DOMAIN calls
  PROVE  CallBody(needed, Top.lib, calls[i], i)
BY CallSplit DEF CallsOK

(* The bodies of the calls once me has l.                                  *)
LEMMA BodiesRecorded ==
  ASSUME TypeOK, CallsOK, CallsIndexed, NEW me \in User, NEW l, Recorded(me, l), NEW i \in DOMAIN calls
  PROVE  CallBody(needed', Top.lib, calls[i], i)
<1>1. calls[i] \in CallSet
  BY DEF CallsIndexed
<1>2. calls[i].me \in User
  BY <1>1 DEF CallSet
<1>3. PICK u \in User : u = calls[i].me
  BY <1>2
<1>4. /\ Len(needed[u]) \in Nat /\ Len(needed'[u]) \in Nat /\ Len(needed[u]) <= Len(needed'[u])
      /\ Range(needed[u]) \subseteq Range(needed'[u])
  BY DEF Recorded
<1>5. CallBody(needed, Top.lib, calls[i], i)
  BY BodyOf
<1> QED  BY <1>1, <1>3, <1>4, <1>5, BodyKept

(* A library that is being created is not the one that was added.          *)
LEMMA NativeKept ==
  ASSUME CallsOK, CallsIndexed, NEW l \in Libs, NEW k \in 1 .. Len(calls), Owned' = Owned \cup {l},
         l \in Native \ Owned => k < Len(calls) /\ l = calls[Len(calls)].me,
         NEW i \in 2 .. k, calls[i].me \in Native \ Owned
  PROVE  calls[i].me \notin Owned'
<1> SUFFICES ASSUME calls[i].me = l PROVE FALSE
  OBVIOUS
<1>1. l \in Native \ Owned /\ k < Len(calls) /\ l = calls[Len(calls)].me
  OBVIOUS
<1>2. l \in Reach[l]
  BY <1>1 DEF CallsOK, CallsIndexed
<1> QED  BY <1>1, <1>2, LibraryAssumption

(* The steps of AddNeededLib keep the calls sound.                         *)
LEMMA CallsLoading ==
  ASSUME TypeOK, OwnedOnce, GraphOK, CallsOK, Loading
  PROVE  CallsOK'
<1>1. ASSUME NEW l \in Libs, AddLoaded(l) \/ AddEmulated(l) PROVE CallsOK'
  <2>1. /\ Replaced(Rest(Top1)) /\ Taken(Rest(Top1), Top1, l) /\ Top1.phase = "add" /\ Top1.me \in User
        /\ Recorded(Top1.me, l) /\ Listed(l, Top1.local) /\ ~(l \in Native \ Owned)
    BY <1>1, AddLoadedEffect, AddEmulatedEffect, EmulatedFacts
  <2>2. UNCHANGED <<deferedInit, exiting, stack>>
    BY <1>1 DEF AddLoaded, AddEmulated, inits, exitVars
  <2>3. CallsIndexed /\ CallsFrame
    BY <1>1, <2>1, CallsFrameFacts DEF Replaced, AddLoaded, AddEmulated, Adds, At
  <2>4. Len(calls) \in DOMAIN calls /\ \A i \in 1 .. Len(calls) - 1 : i \in DOMAIN calls
    BY <2>3 DEF CallsIndexed
  <2>5. \A i \in 1 .. Len(calls) - 1 : CallBody(needed', Top.lib, calls[i], i)
    BY <2>1, <2>3, <2>4, BodiesRecorded
  <2>6. CallBody(needed', Top.lib, Rest(Top1), Len(calls))
    <3>1. Top1 \in CallSet /\ CallBody(needed, Top.lib, Top1, Len(calls))
      BY <2>3, <2>4, BodyOf DEF CallsIndexed, Top1
    <3>2. PICK me \in User : me = Top1.me
      BY <2>1
    <3>3. /\ Len(needed[me]) \in Nat /\ Len(needed'[me]) \in Nat /\ Len(needed[me]) <= Len(needed'[me])
          /\ Range(needed'[me]) = Range(needed[me]) \cup {l}
      BY <2>1, <3>2 DEF Recorded
    <3> QED  BY <2>1, <3>1, <3>2, <3>3, BodyAdded
  <2>7. \A i \in 2 .. Len(calls) : calls[i].me \in Native \ Owned => calls[i].me \notin Owned'
    <3>1. Len(calls) \in 1 .. Len(calls) /\ Owned' = Owned \cup {l}
      BY <2>1, <2>3 DEF CallsIndexed, Listed
    <3> QED  BY <2>1, <2>3, <3>1, NativeKept
  <2>8. Rest(Top1).me = Top1.me
    BY <2>1 DEF Taken
  <2> QED  BY <2>1, <2>2, <2>3, <2>5, <2>6, <2>7, <2>8, ReplacedOK
<1>2. ASSUME NEW l \in Libs, NewNative(l) \/ InitEmulated(l) PROVE CallsOK'
  <2> DEFINE c == Call(l, FALSE, Len(needed[l]), Needs[l])
  <2>1. /\ Pushed(c) /\ Len(needed[l]) \in Nat /\ Top1.todo # << >> /\ l = Head(Top1.todo) /\ l \in Range(Top1.todo)
        /\ \/ Top1.phase = "add" /\ l \in Native \ Owned
           \/ Top1.phase = "init" /\ l \in Emulated
    BY <1>2, NewNativeEffect, InitEmulatedEffect
  <2>2. UNCHANGED <<deferedInit, exiting, stack, maplib, local_maplib, needed>>
    BY <1>2 DEF NewNative, InitEmulated, lists, inits, exitVars
  <2>3. CallsIndexed /\ CallsFrame
    BY <1>2, <2>1, CallsFrameFacts DEF Pushed, NewNative, InitEmulated, Adds, Inits, At
  <2>4. c.me = l /\ c \in CallSet
    BY <2>1 DEF Call, Pushed
  <2>5. CallBody(needed, Top.lib, c, Len(calls) + 1)
    <3>1. Len(calls) + 1 # 1
      BY <2>3 DEF CallsIndexed
    <3> QED  BY <2>1, <2>4, <3>1, BodyBegins
  <2>6. CallLink(Owned, Top1, c)
    BY <2>1, <2>4 DEF CallLink
  <2>7. ASSUME Len(calls) > 1 PROVE l \in Range(Needs[Top1.me])
    <3>1. CallBody(needed, Top.lib, Top1, Len(calls))
      BY <2>3, BodyOf DEF CallsIndexed, Top1
    <3>2. Top1.me \in Libs
      BY <2>3, <2>7, <3>1 DEF CallBody, CallsIndexed
    <3>3. PathsOf(Top.lib, Top1.me) = Range(Needs[Top1.me])
      BY <3>2, EmulatedFacts DEF PathsOf
    <3>4. Range(needed[Top1.me]) \subseteq Range(Needs[Top1.me])
      BY <3>2 DEF GraphOK
    <3> QED  BY <2>1, <3>1, <3>3, <3>4 DEF CallBody
  <2> HIDE DEF c
  <2> QED  BY <2>1, <2>2, <2>3, <2>4, <2>5, <2>6, <2>7, PushedOK
<1>3. ASSUME NEW c, Replaced(c), c.me = Top1.me, CallBody(needed, Top.lib, c, Len(calls)), calls # << >>,
             UNCHANGED <<deferedInit, exiting, stack, maplib, local_maplib, needed>>
      PROVE  CallsOK'
  <2>1. CallsIndexed /\ CallsFrame /\ Owned' = Owned
    BY <1>3, CallsFrameFacts DEF Replaced, Owned
  <2>2. \A i \in 1 .. Len(calls) - 1 : CallBody(needed', Top.lib, calls[i], i)
    BY <1>3, <2>1, BodyOf DEF CallsIndexed
  <2>3. \A i \in 2 .. Len(calls) : calls[i].me \in Native \ Owned => calls[i].me \notin Owned'
    BY <2>1
  <2> QED  BY <1>3, <2>1, <2>2, <2>3, ReplacedOK
<1>4. ASSUME calls # << >> PROVE Top1 \in CallSet /\ CallBody(needed, Top.lib, Top1, Len(calls))
  <2>1. Top1 \in CallSet /\ Len(calls) \in DOMAIN calls
    BY <1>4, CurFacts DEF TypeOK, Top1
  <2> QED  BY <2>1, BodyOf DEF Top1
<1>5. ASSUME NEW l \in Libs, AddFails(l) PROVE CallsOK'
  <2>1. Replaced(Fail(Top1)) /\ calls # << >> /\ UNCHANGED <<deferedInit, exiting, stack, maplib, local_maplib, needed>>
    BY <1>5, AddFailsEffect DEF AddFails, Adds, At, lists, inits, exitVars
  <2>2. Fail(Top1).me = Top1.me /\ CallBody(needed, Top.lib, Fail(Top1), Len(calls))
    BY <1>4, <2>1, FailFacts, BodyFails
  <2> QED  BY <1>3, <2>1, <2>2
<1>6. ASSUME NEW l \in Libs, InitNative(l) PROVE CallsOK'
  <2>1. /\ Replaced(Rest(Top1)) /\ calls # << >> /\ Taken(Rest(Top1), Top1, l) /\ Top1.phase = "init"
        /\ UNCHANGED <<deferedInit, exiting, stack, maplib, local_maplib, needed>>
    BY <1>6, InitNativeEffect DEF InitNative, Inits, At, lists, inits, exitVars
  <2>2. Rest(Top1).me = Top1.me /\ CallBody(needed, Top.lib, Rest(Top1), Len(calls))
    BY <1>4, <2>1, BodyInited DEF Taken
  <2> QED  BY <1>3, <2>1, <2>2
<1>7. ASSUME StartInits PROVE CallsOK'
  <2>1. PICK c \in CallSet : Replaced(c) /\ Started(c, Top1)
    BY <1>7, StartInitsEffect
  <2>2. calls # << >> /\ UNCHANGED <<deferedInit, exiting, stack, maplib, local_maplib, needed>>
    BY <1>7 DEF StartInits, At, lists, inits, exitVars
  <2>3. c.me = Top1.me /\ CallBody(needed, Top.lib, c, Len(calls))
    BY <1>4, <2>1, <2>2, BodyStarted DEF Started
  <2> QED  BY <1>3, <2>1, <2>2, <2>3
<1>8. ASSUME CallsIndexed, Len(calls) > 1
      PROVE  /\ CallsFrame /\ Top2 \in CallSet /\ CallBody(needed, Top.lib, Top2, Len(calls) - 1)
             /\ Len(calls) - 1 \in DOMAIN calls
  <2>1. Top2 \in CallSet /\ Len(calls) - 1 \in DOMAIN calls /\ calls # << >>
    BY <1>8 DEF Top2, CallsIndexed
  <2> QED  BY <2>1, BodyOf, CallsFrameFacts DEF Top2
<1>9. ASSUME NativeReturns PROVE CallsOK'
  <2>1. /\ Popped(Rest(Top2)) /\ Taken(Rest(Top2), Top2, Top1.me) /\ Top2.phase = "add" /\ Top2.me \in User
        /\ Recorded(Top2.me, Top1.me) /\ Listed(Top1.me, Top2.local) /\ Top1.me \in Libs
        /\ Top1.me \in Native \ Owned
    BY <1>9, NativeReturnsEffect, EmulatedFacts
  <2>2. UNCHANGED <<deferedInit, exiting, stack>>
    BY <1>9 DEF NativeReturns, inits, exitVars
  <2>3. CallsIndexed /\ Len(calls) > 1
    BY <2>1 DEF Popped
  <2>5. \A i \in 1 .. Len(calls) - 2 : CallBody(needed', Top.lib, calls[i], i)
    <3>1. \A i \in 1 .. Len(calls) - 2 : i \in DOMAIN calls
      BY <2>3 DEF CallsIndexed
    <3> QED  BY <2>1, <2>3, <3>1, BodiesRecorded
  <2>6. CallBody(needed', Top.lib, Rest(Top2), Len(calls) - 1)
    <3>1. Top2 \in CallSet /\ CallBody(needed, Top.lib, Top2, Len(calls) - 1)
      BY <1>8, <2>3
    <3>2. PICK me \in User : me = Top2.me
      BY <2>1
    <3>3. /\ Len(needed[me]) \in Nat /\ Len(needed'[me]) \in Nat /\ Len(needed[me]) <= Len(needed'[me])
          /\ Range(needed'[me]) = Range(needed[me]) \cup {Top1.me}
      BY <2>1, <3>2 DEF Recorded
    <3> QED  BY <2>1, <3>1, <3>2, <3>3, BodyAdded
  <2>7. \A i \in 2 .. Len(calls) - 1 : calls[i].me \in Native \ Owned => calls[i].me \notin Owned'
    <3>0. Len(calls) - 1 \in 1 .. Len(calls) /\ Len(calls) - 1 < Len(calls)
      BY <2>3 DEF CallsIndexed
    <3>1. PICK k \in 1 .. Len(calls) : k = Len(calls) - 1 /\ k < Len(calls)
      BY <3>0
    <3>2. PICK l \in Libs : l = Top1.me /\ l = calls[Len(calls)].me
      BY <2>1 DEF Top1
    <3>3. Owned' = Owned \cup {l}
      BY <2>1, <3>2 DEF Listed
    <3> QED  BY <2>3, <3>1, <3>2, <3>3, NativeKept
  <2>8. Rest(Top2).me = Top2.me
    BY <2>1 DEF Taken
  <2> QED  BY <1>8, <2>1, <2>2, <2>3, <2>5, <2>6, <2>7, <2>8, PoppedOK
<1>10. ASSUME NEW c, Popped(c), c.me = Top2.me, CallBody(needed, Top.lib, c, Len(calls) - 1),
              UNCHANGED <<deferedInit, exiting, stack, maplib, local_maplib, needed>>
       PROVE  CallsOK'
  <2>1. CallsIndexed /\ CallsFrame /\ Owned' = Owned
    BY <1>8, <1>10 DEF Popped, Owned
  <2>2. \A i \in 1 .. Len(calls) - 2 : CallBody(needed', Top.lib, calls[i], i)
    <3>1. \A i \in 1 .. Len(calls) - 2 : i \in DOMAIN calls
      BY <2>1 DEF CallsIndexed
    <3> QED  BY <1>10, <3>1, BodyOf
  <2>3. \A i \in 2 .. Len(calls) - 1 : calls[i].me \in Native \ Owned => calls[i].me \notin Owned'
    BY <2>1
  <2> QED  BY <1>10, <2>1, <2>2, <2>3, PoppedOK
<1>11. ASSUME NeededReturns PROVE CallsOK'
  <2>1. /\ Popped(Rest(Top2)) /\ Taken(Rest(Top2), Top2, Top1.me) /\ Top2.phase = "init"
        /\ UNCHANGED <<deferedInit, exiting, stack, maplib, local_maplib, needed>>
    BY <1>11, NeededReturnsEffect DEF NeededReturns, lists, exitVars
  <2>2. Rest(Top2).me = Top2.me /\ CallBody(needed, Top.lib, Rest(Top2), Len(calls) - 1)
    BY <1>8, <2>1, BodyInited DEF Taken, Popped
  <2> QED  BY <1>10, <2>1, <2>2
<1>12. ASSUME NeededFails PROVE CallsOK'
  <2>1. /\ Popped(Fail(Top2))
        /\ UNCHANGED <<deferedInit, exiting, stack, maplib, local_maplib, needed>>
    BY <1>12, NeededFailsEffect DEF NeededFails, lists, inits, exitVars
  <2>2. Fail(Top2).me = Top2.me /\ CallBody(needed, Top.lib, Fail(Top2), Len(calls) - 1)
    BY <1>8, <2>1, FailFacts, BodyFails DEF Popped
  <2> QED  BY <1>10, <2>1, <2>2
<1>13. ASSUME calls' = << >> PROVE CallsOK'
  BY <1>13 DEF CallsOK
<1>14. ASSUME LoadReturns \/ LoadFails PROVE CallsOK'
  BY <1>13, <1>14 DEF LoadReturns, LoadFails
<1> QED  BY <1>1, <1>2, <1>5, <1>6, <1>7, <1>9, <1>11, <1>12, <1>14 DEF Loading

(* Every step keeps the calls sound.                                       *)
LEMMA CallsStep ==
  ASSUME TypeOK, OwnedOnce, GraphOK, CallsOK, Next
  PROVE  CallsOK'
<1>1. ASSUME calls' = << >> PROVE CallsOK'
  BY <1>1 DEF CallsOK
<1>2. ASSUME \/ RunElfInit \/ InitReturns \/ OpenReturns \/ (\E l \in Libs : Reopen(l))
             \/ (\E i \in DOMAIN dl : Dlclose(i)) \/ Exit
      PROVE  CallsOK'
  BY <1>1, <1>2 DEF RunElfInit, InitReturns, OpenReturns, Reopen, Dlclose, Exit, Guest
<1>3. ASSUME FreeNext \/ FreeMapDone \/ FreeDepended \/ Free1Library PROVE CallsOK'
  <2>1. UNCHANGED <<maplib, local_maplib, needed, calls, deferedInit, exiting, stack>>
    BY <1>3 DEF FreeNext, FreeMapDone, FreeDepended, Free1Library, freeing, lists
  <2>2. \A i : CallOK(i)' <=> CallOK(i)
    BY <2>1 DEF CallOK, Owned, Paths, Top
  <2> QED  BY <2>1, <2>2 DEF CallsOK, Top
<1>4. ASSUME NEW l \in Libs, NEW local \in BOOLEAN, Dlopen(l, local) PROVE CallsOK'
  <2> DEFINE f == Frame(l, << >>, l \notin Owned, 0)
             c == calls'[1]
  <2>1. /\ TopNew(f) /\ f.lib = l /\ f.todo = << >> /\ f.running = None /\ f.handle = 0
        /\ calls' \in Seq(CallSet) /\ Len(calls') = 1 /\ DOMAIN calls' = 1 .. 1
        /\ c \in CallSet /\ c.me = None /\ c.idx = 0 /\ c.todo = <<l>> /\ c.phase = "add" /\ Range(<<l>>) = {l}
        /\ needed' \in [User -> Seq(Libs)] /\ needed'[None] = << >>
    BY <1>4, DlopenEffect
  <2> HIDE DEF f
  <2>2. deferedInit' /\ ~exiting'
    BY <1>4 DEF Dlopen, Guest, exitVars
  <2>3. stack' # << >> /\ Top' = f
    <3>1. stack' # << >> /\ Top' = stack'[Len(stack')] /\ Len(stack') = Len(stack) + 1 /\ stack'[Len(stack) + 1] = f
      BY <2>1, FrontFacts DEF TopNew, Top
    <3> QED  BY <3>1
  <2>4. CallBody(needed', Top'.lib, c, 1)
    <3>1. PathsOf(l, None) = {l}
      BY DEF PathsOf
    <3>2. Len(needed'[None]) = 0
      BY <2>1
    <3> QED  BY <2>1, <2>3, <3>1, <3>2 DEF CallBody
  <2>5. \A i \in DOMAIN calls' : CallOK(i)'
    BY <2>1, <2>4, CallSplitPrime
  <2>6. \A i, j \in DOMAIN calls' : ~(1 < i /\ i < j)
    BY <2>1
  <2> QED  BY <2>1, <2>2, <2>3, <2>5, <2>6, EmulatedFacts DEF CallsOK
<1> QED  BY <1>2, <1>3, <1>4, CallsLoading DEF Next

-----------------------------------------------------------------------------
(* The graph of needed libraries.                                          *)

(* What a call adds is one of the DT_NEEDED entries of its library, or the *)
(* library of the dlopen; only a dlopen adds to the local list.            *)
LEMMA AddedNeed ==
  ASSUME CallsOK, NEW c \in CallSet, NEW i, CallBody(needed, Top.lib, c, i), NEW d, NEW l, Taken(d, c, l),
         c.phase = "add"
  PROVE  /\ c.me # None => l \in Range(Needs[c.me])
         /\ c.me = None => l = Top.lib
         /\ c.me \in Libs => ~c.local
<1>1. l \in PathsOf(Top.lib, c.me)
  BY DEF CallBody, Taken
<1> QED  BY <1>1, EmulatedFacts DEF PathsOf, CallBody

(* The graph of needed and dependent libraries when l is recorded for me.  *)
LEMMA GraphAdds ==
  ASSUME TypeOK, GraphOK, NEW me \in User, NEW l \in Libs, NEW local, Recorded(me, l), Listed(l, local),
         me # None => l \in Range(Needs[me]), me \in Libs => ~local,
         \A x \in Libs : x \in Owned \/ x = me \/ (\E i \in DOMAIN calls : calls[i].me = x) =>
                           x \in Owned' \/ \E i \in DOMAIN calls' : calls'[i].me = x
  PROVE  GraphOK'
<1>1. ASSUME NEW x \in Libs \cup {Main} PROVE Range(needed'[x]) \subseteq Range(Needs[x])
  <2>1. x \in User /\ x # None /\ Range(needed[x]) \subseteq Range(Needs[x])
    BY EmulatedFacts DEF GraphOK
  <2> QED  BY <2>1 DEF Recorded
<1>2. ASSUME NEW x \in Libs, NEW y \in Libs PROVE y \in Range(needed'[x]) <=> x \in Range(depended'[y])
  <2>1. x \in User /\ (y \in Range(needed[x]) <=> x \in Range(depended[y]))
    BY EmulatedFacts DEF GraphOK
  <2> QED  BY <2>1 DEF Recorded
<1>3. ASSUME NEW x \in Libs PROVE Range(needed'[x]) \subseteq Range(maplib')
  <2>1. x \in User /\ Range(needed[x]) \subseteq Range(maplib)
    BY EmulatedFacts DEF GraphOK
  <2> QED  BY <2>1 DEF Recorded, Listed
<1>4. ASSUME NEW x \in Libs, needed'[x] # << >> PROVE x \in Owned' \/ \E i \in DOMAIN calls' : calls'[i].me = x
  <2>1. x = me \/ needed'[x] = needed[x]
    BY EmulatedFacts DEF Recorded
  <2> QED  BY <1>4, <2>1 DEF GraphOK
<1> QED  BY <1>1, <1>2, <1>3, <1>4 DEF GraphOK

(* Every step keeps needed and depended converse to each other, and what a *)
(* library needs in the global list.                                       *)
LEMMA GraphStep ==
  ASSUME TypeOK, OwnedOnce, GraphOK, CallsOK, Next
  PROVE  GraphOK'
<1>1. ASSUME NEW l \in Libs, AddLoaded(l) \/ AddEmulated(l) PROVE GraphOK'
  <2>1. /\ Replaced(Rest(Top1)) /\ Taken(Rest(Top1), Top1, l) /\ Top1.phase = "add" /\ Top1.me \in User
        /\ Recorded(Top1.me, l) /\ Listed(l, Top1.local)
    BY <1>1, AddLoadedEffect, AddEmulatedEffect
  <2>2. Top1 \in CallSet /\ CallBody(needed, Top.lib, Top1, Len(calls)) /\ Len(calls) \in DOMAIN calls
    BY <2>1, BodyOf DEF Replaced, CallsIndexed, Top1
  <2>3. /\ Top1.me # None => l \in Range(Needs[Top1.me])
        /\ Top1.me \in Libs => ~Top1.local
    BY <2>1, <2>2, AddedNeed
  <2>4. DOMAIN calls' = DOMAIN calls /\ \A i \in DOMAIN calls : calls'[i].me = calls[i].me
    BY <2>1 DEF Replaced, CallsIndexed, Top1, Taken
  <2>5. \A x \in Libs : x \in Owned \/ x = Top1.me \/ (\E i \in DOMAIN calls : calls[i].me = x) =>
                           x \in Owned' \/ \E i \in DOMAIN calls' : calls'[i].me = x
    BY <2>1, <2>2, <2>4 DEF Listed, Top1
  <2> QED  BY <2>1, <2>3, <2>5, GraphAdds
<1>2. ASSUME NativeReturns PROVE GraphOK'
  <2>1. /\ Popped(Rest(Top2)) /\ Taken(Rest(Top2), Top2, Top1.me) /\ Top2.phase = "add" /\ Top2.me \in User
        /\ Recorded(Top2.me, Top1.me) /\ Listed(Top1.me, Top2.local) /\ Top1.me \in Libs
    BY <1>2, NativeReturnsEffect, EmulatedFacts
  <2>2. Top2 \in CallSet /\ CallBody(needed, Top.lib, Top2, Len(calls) - 1) /\ Len(calls) - 1 \in DOMAIN calls
    BY <2>1, BodyOf DEF Popped, CallsIndexed, Top2
  <2>3. /\ Top2.me # None => Top1.me \in Range(Needs[Top2.me])
        /\ Top2.me \in Libs => ~Top2.local
    BY <2>1, <2>2, AddedNeed
  <2>4. /\ \A i \in DOMAIN calls' : calls'[i].me = calls[i].me
        /\ \A i \in DOMAIN calls : i \in DOMAIN calls' \/ i = Len(calls)
        /\ Len(calls) - 1 \in DOMAIN calls'
    BY <2>1 DEF Popped, CallsIndexed, Top2, Taken
  <2>5. ASSUME NEW x \in Libs, x \in Owned \/ x = Top2.me \/ (\E i \in DOMAIN calls : calls[i].me = x)
        PROVE  x \in Owned' \/ \E i \in DOMAIN calls' : calls'[i].me = x
    <3>1. CASE x \in Owned \/ x = Top1.me
      BY <2>1, <3>1 DEF Listed
    <3>2. CASE x = Top2.me
      BY <2>4, <3>2 DEF Top2
    <3>3. CASE \E i \in DOMAIN calls : calls[i].me = x
      BY <2>4, <3>1, <3>3 DEF Top1
    <3> QED  BY <2>5, <3>1, <3>2, <3>3
  <2> QED  BY <2>1, <2>3, <2>5, GraphAdds
<1>3. ASSUME UNCHANGED <<maplib, local_maplib, needed, depended>>,
             \A x \in Libs : (\E i \in DOMAIN calls : calls[i].me = x) =>
                               x \in Owned \/ \E i \in DOMAIN calls' : calls'[i].me = x
      PROVE  GraphOK'
  BY <1>3 DEF GraphOK, Owned
<1>4. ASSUME NEW l \in Libs, NewNative(l) \/ InitEmulated(l) PROVE GraphOK'
  <2>1. Pushed(Call(l, FALSE, Len(needed[l]), Needs[l])) /\ UNCHANGED <<maplib, local_maplib, needed, depended>>
    BY <1>4, NewNativeEffect, InitEmulatedEffect DEF NewNative, InitEmulated, lists
  <2>2. \A i \in DOMAIN calls : i \in DOMAIN calls' /\ calls'[i] = calls[i]
    BY <2>1 DEF Pushed, CallsIndexed
  <2> QED  BY <1>3, <2>1, <2>2
<1>5. ASSUME NEW c, Replaced(c), c.me = Top1.me, UNCHANGED <<maplib, local_maplib, needed, depended>>
      PROVE  GraphOK'
  <2>1. DOMAIN calls' = DOMAIN calls /\ \A i \in DOMAIN calls : calls'[i].me = calls[i].me
    BY <1>5 DEF Replaced, CallsIndexed, Top1
  <2> QED  BY <1>3, <1>5, <2>1
<1>6. ASSUME NEW l \in Libs, AddFails(l) \/ InitNative(l) PROVE GraphOK'
  <2>1. UNCHANGED <<maplib, local_maplib, needed, depended>>
    BY <1>6 DEF AddFails, InitNative, lists
  <2>2. (Replaced(Fail(Top1)) /\ Fail(Top1).me = Top1.me) \/ (Replaced(Rest(Top1)) /\ Rest(Top1).me = Top1.me)
    <3>1. CASE AddFails(l)
      BY <3>1, AddFailsEffect, FailFacts DEF Replaced, CallsIndexed, Top1
    <3>2. CASE InitNative(l)
      BY <3>2, InitNativeEffect DEF Taken
    <3> QED  BY <1>6, <3>1, <3>2
  <2> QED  BY <1>5, <2>1, <2>2
<1>7. ASSUME StartInits PROVE GraphOK'
  <2>1. PICK c \in CallSet : Replaced(c) /\ Started(c, Top1)
    BY <1>7, StartInitsEffect
  <2> QED  BY <1>5, <1>7, <2>1 DEF Started, StartInits, lists
<1>8. ASSUME NeededReturns \/ NeededFails PROVE GraphOK'
  <2>1. /\ UNCHANGED <<maplib, local_maplib, needed, depended>> /\ Len(calls) > 1
    BY <1>8 DEF NeededReturns, NeededFails, lists
  <2>2. PICK c : Popped(c) /\ c.me = Top2.me
    <3>1. CASE NeededReturns
      BY <3>1, NeededReturnsEffect DEF Taken
    <3>2. CASE NeededFails
      BY <3>2, NeededFailsEffect, FailFacts, BelowFacts, <2>1
    <3> QED  BY <1>8, <3>1, <3>2
  <2>3. Top2.phase = "init" /\ Top2 \in CallSet /\ Top2.todo # << >> /\ Head(Top2.todo) = Top1.me
    <3>1. Top2.phase = "init"
      BY <1>8, NeededReturnsEffect, NeededFailsEffect
    <3> QED  BY <2>1, <3>1, BelowFacts
  <2>4. CallBody(needed, Top.lib, Top2, Len(calls) - 1)
    BY <2>2, BodyOf DEF Popped, CallsIndexed, Top2
  <2>5. Top1.me \in Owned
    <3>1. Top1.me \in Range(Top2.todo)
      BY <2>3, RestFacts
    <3>2. Top2.me \in User
      BY <2>3 DEF CallSet
    <3> QED  BY <2>3, <2>4, <3>1, <3>2 DEF CallBody, OwnedOnce
  <2>6. /\ \A i \in DOMAIN calls' : calls'[i].me = calls[i].me
        /\ \A i \in DOMAIN calls : i \in DOMAIN calls' \/ i = Len(calls)
    BY <2>2 DEF Popped, CallsIndexed, Top2
  <2> QED  BY <1>3, <2>1, <2>5, <2>6 DEF Top1
<1>9. ASSUME LoadReturns \/ LoadFails PROVE GraphOK'
  <2>1. /\ UNCHANGED <<maplib, local_maplib, needed, depended>> /\ Len(calls) = 1 /\ calls # << >>
    BY <1>9 DEF LoadReturns, LoadFails, At, lists
  <2>2. DOMAIN calls = 1 .. 1
    BY <2>1, CurFacts DEF TypeOK
  <2>3. \A i \in DOMAIN calls : calls[i].me \notin Libs
    BY <2>2, BodyOf, EmulatedFacts DEF CallBody
  <2> QED  BY <1>3, <2>1, <2>3
<1>10. ASSUME NEW l \in Libs, NEW local \in BOOLEAN, Dlopen(l, local) PROVE GraphOK'
  <2>1. UNCHANGED <<maplib, local_maplib, depended>> /\ calls = << >>
    BY <1>10 DEF Dlopen, Guest
  <2>2. \A x \in Libs \cup {Main} : needed'[x] = needed[x]
    BY <1>10, DlopenEffect, EmulatedFacts
  <2> QED  BY <2>1, <2>2 DEF GraphOK, Owned
<1>11. ASSUME \/ RunElfInit \/ InitReturns \/ OpenReturns \/ (\E l \in Libs : Reopen(l))
              \/ (\E i \in DOMAIN dl : Dlclose(i)) \/ Exit
              \/ FreeNext \/ FreeMapDone \/ FreeDepended \/ Free1Library
       PROVE  GraphOK'
  <2>1. UNCHANGED <<maplib, local_maplib, needed, depended, calls>>
    BY <1>11 DEF RunElfInit, InitReturns, OpenReturns, Reopen, Dlclose, Exit, FreeNext, FreeMapDone,
                 FreeDepended, Free1Library, freeing, lists
  <2> QED  BY <1>3, <2>1
<1> QED  BY <1>1, <1>2, <1>4, <1>6, <1>7, <1>8, <1>9, <1>10, <1>11 DEF Next, Loading

-----------------------------------------------------------------------------
(* What waits for its init is emulated.                                    *)

(* No step takes a library away from the librarians.                       *)
LEMMA OwnedGrows ==
  ASSUME TypeOK, OwnedOnce, CallsOK, Next
  PROVE  Owned \subseteq Owned'
<1>1. ASSUME NEW l \in Libs, AddLoaded(l) \/ AddEmulated(l) PROVE Owned \subseteq Owned'
  BY <1>1, AddLoadedEffect, AddEmulatedEffect DEF Listed
<1>2. ASSUME NativeReturns PROVE Owned \subseteq Owned'
  BY <1>2, NativeReturnsEffect DEF Listed
<1>3. ASSUME Others \/ OpenReturns \/ (\E l \in Libs : Reopen(l) \/ \E local \in BOOLEAN : Dlopen(l, local))
             \/ (\E i \in DOMAIN dl : Dlclose(i))
      PROVE  Owned \subseteq Owned'
  <2>1. UNCHANGED <<maplib, local_maplib>>
    BY <1>3, OthersKeep DEF OpenReturns, Reopen, Dlopen, Dlclose, lists
  <2> QED  BY <2>1 DEF Owned
<1> QED  BY <1>1, <1>2, <1>3 DEF Next, Loading, Others

(* Only emulated libraries are to be initialised, when the last frame is   *)
(* replaced.                                                               *)
LEMMA TodoIs ==
  ASSUME EmulatedOnly, NEW f, TopIs(f), Range(f.todo) \subseteq Emulated
  PROVE  \A i \in DOMAIN stack' : Range(stack'[i].todo) \subseteq Emulated
<1> SUFFICES ASSUME NEW i \in DOMAIN stack' PROVE Range(stack'[i].todo) \subseteq Emulated
  OBVIOUS
<1>1. CASE i = Len(stack)
  BY <1>1 DEF TopIs
<1>2. CASE i # Len(stack)
  <2>1. i \in DOMAIN stack /\ stack'[i] = stack[i]
    BY <1>2 DEF TopIs, StackIndexed
  <2> QED  BY <2>1 DEF EmulatedOnly
<1> QED  BY <1>1, <1>2

(* Only emulated libraries are to be initialised, when a frame is added.   *)
LEMMA TodoNew ==
  ASSUME EmulatedOnly, NEW f, TopNew(f), Range(f.todo) \subseteq Emulated
  PROVE  \A i \in DOMAIN stack' : Range(stack'[i].todo) \subseteq Emulated
<1> SUFFICES ASSUME NEW i \in DOMAIN stack' PROVE Range(stack'[i].todo) \subseteq Emulated
  OBVIOUS
<1>1. CASE i = Len(stack) + 1
  BY <1>1 DEF TopNew
<1>2. CASE i # Len(stack) + 1
  <2>1. i \in DOMAIN stack /\ stack'[i] = stack[i]
    BY <1>2 DEF TopNew
  <2> QED  BY <2>1 DEF EmulatedOnly
<1> QED  BY <1>1, <1>2

(* Only emulated libraries are to be initialised, when the last frame      *)
(* goes.                                                                   *)
LEMMA TodoGone ==
  ASSUME EmulatedOnly, TopGone
  PROVE  \A i \in DOMAIN stack' : Range(stack'[i].todo) \subseteq Emulated
BY DEF EmulatedOnly, TopGone, StackIndexed

(* Every step defers, runs and finalizes emulated libraries only.          *)
LEMMA EmulatedStep ==
  ASSUME TypeOK, OwnedOnce, CallsOK, EmulatedOnly, Next
  PROVE  EmulatedOnly'
<1>0. Owned \subseteq Owned'
  BY OwnedGrows
<1>1. ASSUME UNCHANGED <<defered, stack, finalized>> PROVE EmulatedOnly'
  BY <1>0, <1>1 DEF EmulatedOnly
<1>2. ASSUME \/ \E l \in Libs : \/ AddLoaded(l) \/ AddEmulated(l) \/ NewNative(l) \/ AddFails(l)
                                \/ InitNative(l) \/ InitEmulated(l)
             \/ NativeReturns \/ StartInits \/ NeededFails \/ (\E i \in DOMAIN dl : Dlclose(i)) \/ Exit
             \/ FreeNext \/ FreeMapDone \/ FreeDepended \/ Free1Library
      PROVE  EmulatedOnly'
  <2>1. UNCHANGED <<defered, stack, finalized>>
    BY <1>2 DEF AddLoaded, AddEmulated, NewNative, AddFails, InitNative, InitEmulated, NativeReturns,
                StartInits, NeededFails, Dlclose, Exit, FreeNext, FreeMapDone, FreeDepended, Free1Library,
                inits, freeing
  <2> QED  BY <1>1, <2>1
<1>3. ASSUME NeededReturns PROVE EmulatedOnly'
  <2>1. /\ Top1.me \in Emulated /\ Top1.me \in Libs /\ Finalize(Top1.me) /\ UNCHANGED stack
        /\ Len(calls) > 1 /\ Top2.phase = "init" /\ Popped(Rest(Top2))
    BY <1>3, NeededReturnsEffect DEF NeededReturns
  <2>2. Top1.me \in Owned
    <3>1. Top2 \in CallSet /\ Top2.todo # << >> /\ Head(Top2.todo) = Top1.me
      BY <2>1, BelowFacts
    <3>2. Top1.me \in Range(Top2.todo) /\ Top2.me \in User
      BY <3>1, RestFacts DEF CallSet
    <3>3. CallBody(needed, Top.lib, Top2, Len(calls) - 1)
      BY <2>1, BodyOf DEF Popped, CallsIndexed, Top2
    <3> QED  BY <2>1, <3>2, <3>3 DEF CallBody, OwnedOnce
  <2>3. Range(defered') \subseteq Emulated
    <3>1. defered \in Seq(Libs) /\ (defered' = defered \/ defered' = Append(defered, Top1.me))
      BY <2>1 DEF Finalize, TypeOK, LibSeqs
    <3>a. PICK l \in Libs : l = Top1.me
      BY <2>1
    <3>b. Range(Append(defered, l)) = Range(defered) \cup {l}
      BY <3>1, AppendFacts
    <3>2. Range(defered') \subseteq Range(defered) \cup {Top1.me}
      BY <3>1, <3>a, <3>b
    <3> QED  BY <2>1, <3>2 DEF EmulatedOnly
  <2>4. ASSUME NEW x \in Libs, finalized'[x] PROVE x \in Emulated \cap Owned'
    <3>1. CASE x = Top1.me
      BY <1>0, <2>1, <2>2, <3>1
    <3>2. CASE x # Top1.me
      <4>1. finalized'[x] = finalized[x]
        BY <2>1, <3>2 DEF Finalize, TypeOK
      <4> QED  BY <1>0, <2>4, <4>1 DEF EmulatedOnly
    <3> QED  BY <3>1, <3>2
  <2> QED  BY <2>1, <2>3, <2>4 DEF EmulatedOnly
<1>4. ASSUME LoadReturns PROVE EmulatedOnly'
  <2>1. PICK f \in FrameSet : TopIs(f) /\ f.todo = defered
    BY <1>4, LoadReturnsEffect
  <2>2. defered' = << >> /\ finalized' = finalized
    BY <1>4 DEF LoadReturns
  <2>3. \A i \in DOMAIN stack' : Range(stack'[i].todo) \subseteq Emulated
    BY <2>1, TodoIs DEF EmulatedOnly
  <2> QED  BY <1>0, <2>2, <2>3, EmptyRange DEF EmulatedOnly
<1>5. ASSUME LoadFails \/ OpenReturns PROVE EmulatedOnly'
  <2>1. TopGone
    BY <1>5, PopEffect DEF LoadFails, OpenReturns, At, CallsOK
  <2>2. UNCHANGED <<defered, finalized>>
    BY <1>5 DEF LoadFails, OpenReturns, inits
  <2> QED  BY <1>0, <2>1, <2>2, TodoGone DEF EmulatedOnly
<1>6. ASSUME RunElfInit PROVE EmulatedOnly'
  <2>1. PICK f \in FrameSet, h \in Emulated :
          /\ TopIs(f) /\ f.todo = Tail(Frame1.todo) /\ Frame1.todo # << >> /\ h \in Libs /\ Frame1.todo \in Seq(Libs)
          /\ defered' = IF ~initDone[h] /\ deferedInit THEN Append(defered, h) ELSE defered
    BY <1>6, RunElfInitEffect
  <2>2. Range(f.todo) \subseteq Emulated
    <3>1. Range(f.todo) \subseteq Range(Frame1.todo)
      BY <2>1, TailFacts
    <3>2. Len(stack) \in DOMAIN stack
      BY <2>1 DEF TopIs, StackIndexed
    <3> QED  BY <3>1, <3>2 DEF EmulatedOnly, Frame1
  <2>3. Range(defered') \subseteq Emulated
    <3>1. defered \in Seq(Libs) /\ (defered' = defered \/ defered' = Append(defered, h))
      BY <2>1 DEF TypeOK, LibSeqs
    <3>2. Range(defered') \subseteq Range(defered) \cup {h}
      BY <2>1, <3>1, AppendFacts
    <3> QED  BY <2>1, <3>2 DEF EmulatedOnly
  <2>4. finalized' = finalized
    BY <1>6 DEF RunElfInit
  <2> QED  BY <1>0, <2>1, <2>2, <2>3, <2>4, TodoIs DEF EmulatedOnly
<1>7. ASSUME InitReturns PROVE EmulatedOnly'
  <2>1. PICK f \in FrameSet : TopIs(f) /\ f.todo = Frame1.todo
    BY <1>7, InitReturnsEffect
  <2>2. Range(f.todo) \subseteq Emulated
    <3>2. Len(stack) \in DOMAIN stack
      BY <2>1 DEF TopIs, StackIndexed
    <3> QED  BY <2>1, <3>2 DEF EmulatedOnly, Frame1
  <2>3. UNCHANGED <<defered, finalized>>
    BY <1>7 DEF InitReturns
  <2> QED  BY <1>0, <2>1, <2>2, <2>3, TodoIs DEF EmulatedOnly
<1>8. ASSUME NEW l \in Libs, Reopen(l) PROVE EmulatedOnly'
  <2>1. UNCHANGED <<defered, finalized>>
    BY <1>8 DEF Reopen, inits
  <2>2. CASE ReopenReloads(l)
    <3>1. PICK f \in FrameSet : TopNew(f) /\ f.todo = <<l>> /\ l \in Emulated
      BY <2>2 DEF ReopenReloads
    <3>2. Range(<<l>>) = {l}
      BY DEF Range
    <3> QED  BY <1>0, <2>1, <3>1, <3>2, TodoNew DEF EmulatedOnly
  <2>3. CASE ReopenCounts(l)
    BY <1>1, <2>1, <2>3 DEF ReopenCounts
  <2> QED  BY <1>8, <2>2, <2>3, ReopenEffect
<1>9. ASSUME NEW l \in Libs, NEW local \in BOOLEAN, Dlopen(l, local) PROVE EmulatedOnly'
  <2>1. UNCHANGED <<defered, finalized>>
    BY <1>9 DEF Dlopen
  <2>2. TopNew(Frame(l, << >>, l \notin Owned, 0)) /\ Frame(l, << >>, l \notin Owned, 0).todo = << >>
    BY <1>9, DlopenEffect
  <2> QED  BY <1>0, <2>1, <2>2, TodoNew, EmptyRange DEF EmulatedOnly
<1> QED  BY <1>2, <1>3, <1>4, <1>5, <1>6, <1>7, <1>8, <1>9 DEF Next, Loading

-----------------------------------------------------------------------------
(* The calls of dlopen under way.                                          *)

(* FramesOK of a frame f with the handles d, but for the owner of its      *)
(* library.                                                                *)
FrameOK(d, f) ==
  /\ f.handle > 0 => /\ d[f.handle].lib = f.lib /\ d[f.handle].dlopened
                     /\ f.lib \in Emulated
                     /\ \/ f.todo = <<f.lib>> /\ f.running = None
                        \/ f.todo = << >> /\ f.running \in {None, f.lib}
  /\ f.lib = Main => f.handle = 0 /\ ~f.dlopened

(* The library of frame j is owned, unless it is being loaded.             *)
FrameOwned(own, cs, st, j) == st[j].lib \in own \cup {Main} \/ (cs # << >> /\ j = Len(st))

(* FramesOK, frame by frame.                                               *)
LEMMA FramesSplit ==
  FramesOK <=> \A j \in DOMAIN stack : FrameOK(dl, stack[j]) /\ FrameOwned(Owned, calls, stack, j)
BY DEF FramesOK, FrameOK, FrameOwned

(* The same in the next state.                                             *)
LEMMA FramesSplitPrime ==
  FramesOK' <=> \A j \in DOMAIN stack' : FrameOK(dl', stack'[j]) /\ FrameOwned(Owned', calls', stack', j)
BY DEF FramesOK, FrameOK, FrameOwned

(* A frame stays sound when the handles keep their libraries.              *)
LEMMA FrameOKKept ==
  ASSUME NEW d, NEW e, NEW f, FrameOK(d, f), f.handle \in Nat, f.handle <= Len(d), Len(d) \in Nat,
         \A i \in 1 .. Len(d) : e[i].lib = d[i].lib /\ e[i].dlopened = d[i].dlopened
  PROVE  FrameOK(e, f)
BY DEF FrameOK

(* Every step keeps the frames sound: a dlopen that counts does so on a    *)
(* handle of its own library.                                              *)
LEMMA FramesStep ==
  ASSUME TypeOK, OwnedOnce, CallsOK, EmulatedOnly, FramesOK, Next
  PROVE  FramesOK'
<1>0. Owned \subseteq Owned'
  BY OwnedGrows
<1>k. \A j \in DOMAIN stack : FrameOK(dl, stack[j]) /\ FrameOwned(Owned, calls, stack, j)
  BY FramesSplit
<1>h. \A j \in DOMAIN stack : stack[j].handle \in Nat /\ stack[j].handle <= Len(dl)
  BY HandleBound
<1>d. DOMAIN dl = 1 .. Len(dl) /\ Len(dl) \in Nat /\ DOMAIN stack = 1 .. Len(stack) /\ Len(stack) \in Nat
  BY DlFacts, HandleBound

(* The handles keep their library, and no frame changes.                   *)
<1>1. ASSUME \A i \in 1 .. Len(dl) : dl'[i].lib = dl[i].lib /\ dl'[i].dlopened = dl[i].dlopened,
             UNCHANGED stack, calls # << >> => calls' # << >>
      PROVE  FramesOK'
  <2>1. \A j \in DOMAIN stack' : FrameOK(dl', stack'[j])
    BY <1>1, <1>k, <1>h, <1>d, FrameOKKept
  <2>2. \A j \in DOMAIN stack' : FrameOwned(Owned', calls', stack', j)
    BY <1>0, <1>1, <1>k DEF FrameOwned
  <2> QED  BY <2>1, <2>2, FramesSplitPrime
<1>2. ASSUME \/ \E l \in Libs : \/ AddLoaded(l) \/ AddEmulated(l) \/ NewNative(l) \/ AddFails(l)
                                \/ InitNative(l) \/ InitEmulated(l)
             \/ NativeReturns \/ StartInits \/ NeededReturns \/ NeededFails
      PROVE  FramesOK'
  <2>1. UNCHANGED <<dl, stack>>
    BY <1>2 DEF AddLoaded, AddEmulated, NewNative, AddFails, InitNative, InitEmulated, NativeReturns,
                StartInits, NeededReturns, NeededFails
  <2>2. calls' # << >>
    <3>1. CASE \E l \in Libs : \/ AddLoaded(l) \/ AddEmulated(l) \/ NewNative(l) \/ AddFails(l)
                                \/ InitNative(l) \/ InitEmulated(l)
      BY <3>1, AddLoadedEffect, AddEmulatedEffect, NewNativeEffect, AddFailsEffect, InitNativeEffect,
         InitEmulatedEffect DEF Replaced, Pushed
    <3>2. CASE NativeReturns \/ StartInits \/ NeededReturns \/ NeededFails
      BY <3>2, NativeReturnsEffect, StartInitsEffect, NeededReturnsEffect, NeededFailsEffect DEF Replaced, Popped
    <3> QED  BY <1>2, <3>1, <3>2
  <2> QED  BY <1>1, <2>1, <2>2
<1>3. ASSUME Exit \/ FreeNext \/ FreeMapDone \/ FreeDepended \/ Free1Library PROVE FramesOK'
  <2>1. UNCHANGED <<dl, stack, calls>>
    BY <1>3 DEF Exit, FreeNext, FreeMapDone, FreeDepended, Free1Library, freeing
  <2> QED  BY <1>1, <2>1
<1>4. ASSUME NEW i \in DOMAIN dl, Dlclose(i) PROVE FramesOK'
  <2>1. Counted(i, dl[i].count - 1) /\ UNCHANGED <<stack, calls>>
    BY <1>4, DlcloseEffect DEF Dlclose
  <2> QED  BY <1>1, <1>d, <2>1 DEF Counted

(* The innermost frame becomes f.                                          *)
<1>5. ASSUME NEW f \in FrameSet, TopIs(f), SameFrame(f, Frame1), UNCHANGED dl, FrameOK(dl, f),
             f.lib \in Owned \cup {Main}, calls = << >> \/ calls' = << >>
      PROVE  FramesOK'
  <2>1. ASSUME NEW j \in DOMAIN stack' PROVE FrameOK(dl', stack'[j]) /\ FrameOwned(Owned', calls', stack', j)
    <3>1. CASE j = Len(stack)
      BY <1>0, <1>5, <3>1 DEF TopIs, FrameOwned
    <3>2. CASE j # Len(stack)
      <4>1. j \in DOMAIN stack /\ stack'[j] = stack[j]
        BY <1>5, <3>2 DEF TopIs, StackIndexed
      <4>2. stack[j].lib \in Owned \cup {Main}
        BY <1>k, <3>2, <4>1 DEF FrameOwned
      <4> QED  BY <1>0, <1>5, <1>k, <4>1, <4>2 DEF FrameOwned
    <3> QED  BY <3>1, <3>2
  <2> QED  BY <2>1, FramesSplitPrime
<1>6. ASSUME LoadReturns PROVE FramesOK'
  <2>1. PICK f \in FrameSet : TopIs(f) /\ SameFrame(f, Frame1)
    BY <1>6, LoadReturnsEffect
  <2>2. /\ UNCHANGED dl /\ calls' = << >> /\ Len(calls) = 1 /\ calls # << >>
        /\ Cur.phase = "init"
    BY <1>6 DEF LoadReturns, At
  <2>3. DOMAIN calls = 1 .. 1 /\ Cur = calls[1] /\ Cur \in CallSet
    BY <2>2, CurFacts DEF TypeOK
  <2>4. CallBody(needed, Top.lib, calls[1], 1)
    BY <2>3, BodyOf
  <2>5. Top = Frame1 /\ Top.handle = 0 /\ Frame1 \in FrameSet
    BY <2>2, StackFacts DEF CallsOK
  <2>6. Top.lib \in Owned \cup {Main}
    <3>1. CASE calls[1].me = Main
      BY <2>2, <3>1 DEF CallsOK
    <3>2. CASE calls[1].me = None
      <4>1. PathsOf(Top.lib, None) = {Top.lib}
        BY DEF PathsOf
      <4>2. Top.lib \in Range(needed[None])
        BY <2>2, <2>3, <2>4, <3>2, <4>1 DEF CallBody
      <4> QED  BY <4>2, EmulatedFacts DEF OwnedOnce
    <3> QED  BY <2>4, <3>1, <3>2 DEF CallBody
  <2>7. FrameOK(dl, f)
    <3>1. FrameOK(dl, Frame1)
      BY <1>k, <2>1 DEF TopIs, StackIndexed, Frame1
    <3> QED  BY <2>1, <2>5, <3>1 DEF FrameOK, SameFrame
  <2> QED  BY <1>5, <2>1, <2>2, <2>5, <2>6, <2>7 DEF SameFrame
<1>7. ASSUME RunElfInit PROVE FramesOK'
  <2>1. PICK f \in FrameSet, h \in Emulated :
          /\ TopIs(f) /\ SameFrame(f, Frame1) /\ Frame1.running = None /\ Frame1.todo # << >>
          /\ h = Head(Frame1.todo) /\ f.todo = Tail(Frame1.todo)
          /\ f.running = IF ~initDone[h] /\ ~deferedInit THEN h ELSE None
    BY <1>7, RunElfInitEffect
  <2>2. UNCHANGED <<dl, calls>> /\ calls = << >>
    BY <1>7 DEF RunElfInit
  <2>3. FrameOK(dl, Frame1) /\ Frame1.lib \in Owned \cup {Main}
    BY <1>k, <2>1, <2>2 DEF TopIs, StackIndexed, Frame1, FrameOwned
  <2>4. FrameOK(dl, f)
    <3>1. CASE Frame1.handle > 0
      <4>1. Frame1.todo = <<Frame1.lib>>
        BY <2>1, <2>3, <3>1 DEF FrameOK
      <4>2. h = Frame1.lib /\ f.todo = << >>
        BY <2>1, <4>1
      <4> QED  BY <2>1, <2>3, <3>1, <4>2 DEF FrameOK, SameFrame
    <3>2. CASE ~(Frame1.handle > 0)
      BY <2>1, <2>3, <3>2 DEF FrameOK, SameFrame
    <3> QED  BY <3>1, <3>2
  <2> QED  BY <1>5, <2>1, <2>2, <2>3, <2>4 DEF SameFrame
<1>8. ASSUME InitReturns PROVE FramesOK'
  <2>1. PICK f \in FrameSet :
          /\ TopIs(f) /\ SameFrame(f, Frame1) /\ f.todo = Frame1.todo /\ f.running = None
          /\ Frame1.running # None
    BY <1>8, InitReturnsEffect
  <2>2. UNCHANGED <<dl, calls>> /\ calls = << >>
    BY <1>8 DEF InitReturns, Guest
  <2>3. FrameOK(dl, Frame1) /\ Frame1.lib \in Owned \cup {Main}
    BY <1>k, <2>1, <2>2 DEF TopIs, StackIndexed, Frame1, FrameOwned
  <2>4. FrameOK(dl, f)
    BY <2>1, <2>3 DEF FrameOK, SameFrame
  <2> QED  BY <1>5, <2>1, <2>2, <2>3, <2>4 DEF SameFrame

(* The innermost frame is gone.                                            *)
<1>9. ASSUME TopGone, \A i \in 1 .. Len(dl) : dl'[i].lib = dl[i].lib /\ dl'[i].dlopened = dl[i].dlopened
      PROVE  FramesOK'
  <2>1. ASSUME NEW j \in DOMAIN stack' PROVE FrameOK(dl', stack'[j]) /\ FrameOwned(Owned', calls', stack', j)
    <3>1. j \in DOMAIN stack /\ stack'[j] = stack[j] /\ j # Len(stack)
      BY <1>9 DEF TopGone, StackIndexed
    <3>2. FrameOK(dl', stack[j])
      BY <1>9, <1>k, <1>h, <1>d, <3>1, FrameOKKept
    <3>3. stack[j].lib \in Owned \cup {Main}
      BY <1>k, <3>1 DEF FrameOwned
    <3> QED  BY <1>0, <3>1, <3>2, <3>3 DEF FrameOwned
  <2> QED  BY <2>1, FramesSplitPrime
<1>10. ASSUME LoadFails PROVE FramesOK'
  BY <1>9, <1>10, PopEffect DEF LoadFails, At, CallsOK
<1>11. ASSUME OpenReturns PROVE FramesOK'
  <2>1. TopGone /\ (OpenCounts \/ OpenAdds \/ OpenMain)
    BY <1>11, OpenReturnsEffect
  <2>2. \A i \in 1 .. Len(dl) : dl'[i].lib = dl[i].lib /\ dl'[i].dlopened = dl[i].dlopened
    BY <1>d, <2>1 DEF OpenCounts, OpenAdds, OpenMain, Counted
  <2> QED  BY <1>9, <2>1, <2>2

(* A frame f is new.                                                       *)
<1>12. ASSUME NEW f \in FrameSet, TopNew(f), UNCHANGED dl, FrameOK(dl, f), calls = << >>,
              f.lib \in Owned \/ calls' # << >>
       PROVE  FramesOK'
  <2>1. ASSUME NEW j \in DOMAIN stack' PROVE FrameOK(dl', stack'[j]) /\ FrameOwned(Owned', calls', stack', j)
    <3>1. CASE j = Len(stack) + 1
      BY <1>0, <1>12, <3>1 DEF TopNew, FrameOwned
    <3>2. CASE j # Len(stack) + 1
      <4>1. j \in DOMAIN stack /\ stack'[j] = stack[j]
        BY <1>12, <3>2 DEF TopNew
      <4>2. stack[j].lib \in Owned \cup {Main}
        BY <1>12, <1>k, <4>1 DEF FrameOwned
      <4> QED  BY <1>0, <1>12, <1>k, <4>1, <4>2 DEF FrameOwned
    <3> QED  BY <3>1, <3>2
  <2> QED  BY <2>1, FramesSplitPrime
<1>13. ASSUME NEW l \in Libs, Reopen(l) PROVE FramesOK'
  <2>1. CASE ReopenReloads(l)
    <3>1. PICK i \in DOMAIN dl, f \in FrameSet :
            /\ dl[i].lib = l /\ dl[i].dlopened /\ l \in Emulated /\ i \in Nat /\ i > 0
            /\ TopNew(f) /\ f.lib = l /\ f.todo = <<l>> /\ f.running = None /\ f.handle = i
      BY <2>1 DEF ReopenReloads
    <3>2. FrameOK(dl, f)
      BY <3>1, EmulatedFacts DEF FrameOK
    <3>3. f.lib \in Owned
      BY <3>1 DEF OwnedOnce
    <3>4. UNCHANGED dl /\ calls = << >>
      BY <1>13, <2>1 DEF ReopenReloads, Reopen, Guest
    <3> QED  BY <1>12, <3>1, <3>2, <3>3, <3>4
  <2>2. CASE ReopenCounts(l)
    <3>1. UNCHANGED calls
      BY <1>13 DEF Reopen
    <3> QED  BY <1>1, <1>d, <2>2, <3>1 DEF ReopenCounts, Counted
  <2> QED  BY <1>13, <2>1, <2>2, ReopenEffect
<1>14. ASSUME NEW l \in Libs, NEW local \in BOOLEAN, Dlopen(l, local) PROVE FramesOK'
  <2> DEFINE f == Frame(l, << >>, l \notin Owned, 0)
  <2>1. TopNew(f) /\ f.lib = l /\ f.handle = 0 /\ Len(calls') = 1 /\ calls = << >> /\ UNCHANGED dl
    BY <1>14, DlopenEffect DEF Dlopen
  <2>2. calls' # << >>
    BY <1>14 DEF Dlopen
  <2> HIDE DEF f
  <2>3. FrameOK(dl, f)
    BY <2>1, EmulatedFacts DEF FrameOK
  <2> QED  BY <1>12, <2>1, <2>2, <2>3 DEF TopNew
<1> QED  BY <1>2, <1>3, <1>4, <1>6, <1>7, <1>8, <1>10, <1>11, <1>13, <1>14 DEF Next, Loading

-----------------------------------------------------------------------------
(* The lists, together.                                                    *)

(* What the lists, the calls and the frames have to do with each other.    *)
Structure == TypeOK /\ OwnedOnce /\ CallsOK /\ GraphOK /\ EmulatedOnly /\ FramesOK /\ NextOK

(* A list of one element.                                                  *)
LEMMA SingletonSeq ==
  ASSUME NEW S, NEW x \in S
  PROVE  <<x>> \in Seq(S) /\ Len(<<x>>) = 1 /\ DOMAIN <<x>> = 1 .. 1 /\ <<x>>[1] = x
OBVIOUS

(* The structure holds when LoadNeededLibs of the program begins.          *)
LEMMA StructureInit ==
  ASSUME Init
  PROVE  Structure
<1>1. TypeOK
  <2>1. Call(Main, FALSE, 0, Needs[Main]) \in CallSet
    BY NeedsFacts, CallFacts, EmulatedFacts
  <2>2. Frame(Main, << >>, FALSE, 0) \in FrameSet /\ Frame(Main, << >>, FALSE, 0).handle = 0
    BY DEF Frame, FrameSet, LibSeqs
  <2>3. \A x : DOMAIN <<x>> = {1} /\ <<x>>[1] = x
    OBVIOUS
  <2>4. calls \in Seq(CallSet)
    <3>1. PICK x \in CallSet : x = Call(Main, FALSE, 0, Needs[Main])
      BY <2>1
    <3>2. calls = <<x>>
      BY <3>1 DEF Init
    <3> QED  BY <3>2, SingletonSeq
  <2>5. stack \in Seq(FrameSet) /\ \A i \in DOMAIN stack : stack[i].handle <= Len(dl)
    <3>1. stack = <<Frame(Main, << >>, FALSE, 0)>> /\ Len(dl) = 0
      BY DEF Init
    <3>2. PICK x \in FrameSet : x = Frame(Main, << >>, FALSE, 0) /\ x.handle = 0
      BY <2>2
    <3>3. stack \in Seq(FrameSet) /\ DOMAIN stack = 1 .. 1 /\ stack[1] = x
      BY <3>1, <3>2, SingletonSeq
    <3>4. \A i \in DOMAIN stack : stack[i].handle = 0
      <4>1. ASSUME NEW i \in DOMAIN stack PROVE i = 1
        BY <3>3
      <4>2. ASSUME NEW i \in DOMAIN stack PROVE stack[i] = x
        BY <3>3, <4>1
      <4> QED  BY <3>2, <4>2
    <3>5. 0 <= Len(dl)
      BY <3>1
    <3> QED  BY <3>3, <3>4, <3>5
  <2>6. /\ << >> \in Seq(Libs) /\ << >> \in Seq(HandleSet) /\ << >> \in Seq(LibSeqs) /\ << >> \in Seq(FreeSet)
    OBVIOUS
  <2>7. /\ needed \in [User -> Seq(Libs)] /\ depended \in [Libs -> Seq(Libs)]
        /\ maplib \in Seq(Libs) /\ local_maplib \in Seq(Libs) /\ defered \in Seq(Libs)
        /\ dl \in Seq(HandleSet) /\ maps \in Seq(LibSeqs) /\ frees \in Seq(FreeSet)
    BY <2>6 DEF Init
  <2>8. /\ active \in [Libs -> BOOLEAN] /\ finalized \in [Libs -> BOOLEAN]
        /\ initDone \in [Libs -> BOOLEAN] /\ finiDone \in [Libs -> BOOLEAN]
    BY DEF Init
  <2>9. /\ deferedInit \in BOOLEAN /\ exiting \in BOOLEAN /\ failed \in BOOLEAN /\ next \in Nat
        /\ entered \subseteq Libs /\ freed \subseteq Libs /\ reentered \subseteq Libs /\ opens \in 0 .. MaxOpens
    <3>1. 0 \in 0 .. MaxOpens
      BY LibraryAssumption
    <3>2. opens = 0 /\ next = 0 /\ entered = {} /\ freed = {} /\ reentered = {}
      BY DEF Init
    <3>3. deferedInit \in BOOLEAN /\ exiting \in BOOLEAN /\ failed \in BOOLEAN
      BY DEF Init
    <3> QED  BY <3>1, <3>2, <3>3
  <2> QED  BY <2>4, <2>5, <2>7, <2>8, <2>9 DEF TypeOK, LibSeqs
<1>2. /\ \A u \in User : needed[u] = << >> /\ Range(needed[u]) = {} /\ Len(needed[u]) = 0
      /\ \A l \in Libs : depended[l] = << >> /\ Range(depended[l]) = {}
      /\ maplib = << >> /\ local_maplib = << >> /\ dl = << >> /\ defered = << >> /\ maps = << >>
      /\ \A l \in Libs : ~finalized[l]
  BY EmptyRange DEF Init
<1>3. OwnedOnce
  BY <1>2, EmptyRange DEF OwnedOnce, Owned
<1>4. GraphOK
  BY <1>2, EmulatedFacts DEF GraphOK
<1> DEFINE c == Call(Main, FALSE, 0, Needs[Main])
           f == Frame(Main, << >>, FALSE, 0)
<1>5. /\ calls = <<c>> /\ stack = <<f>> /\ DOMAIN calls = 1 .. 1 /\ DOMAIN stack = 1 .. 1
      /\ calls[1] = c /\ stack[1] = f /\ Len(calls) = 1 /\ Len(stack) = 1
  BY DEF Init
<1>6. /\ c.me = Main /\ c.local = FALSE /\ c.idx = 0 /\ c.todo = Needs[Main] /\ c.phase = "add"
      /\ f.lib = Main /\ f.todo = << >> /\ f.running = None /\ f.handle = 0 /\ f.dlopened = FALSE
  BY DEF Call, Frame
<1> HIDE DEF c, f
<1>7. Top = f
  BY <1>1, <1>5, TopFacts DEF TypeOK
<1>8. CallBody(needed, Top.lib, c, 1)
  <2>1. PathsOf(Top.lib, Main) = Range(Needs[Main])
    BY EmulatedFacts DEF PathsOf
  <2> QED  BY <1>2, <1>6, <2>1, EmulatedFacts DEF CallBody
<1>9. CallsOK
  <2>1. \A i \in DOMAIN calls : CallOK(i)
    BY <1>5, <1>8, CallSplit
  <2>2. \A i, j \in DOMAIN calls : ~(1 < i /\ i < j)
    BY <1>5
  <2>3. deferedInit /\ ~exiting /\ stack # << >>
    BY DEF Init
  <2> QED  BY <1>5, <1>6, <1>7, <2>1, <2>2, <2>3, EmulatedFacts DEF CallsOK
<1>10. EmulatedOnly
  BY <1>2, <1>5, <1>6, EmptyRange DEF EmulatedOnly
<1>11. FramesOK
  BY <1>5, <1>6, EmulatedFacts DEF FramesOK
<1>12. NextOK
  BY <1>2 DEF NextOK
<1> QED  BY <1>1, <1>3, <1>4, <1>9, <1>10, <1>11, <1>12 DEF Structure

(* The loop index of FreeLibrarian changes at exit only.                   *)
LEMMA NextOKKept ==
  ASSUME NextOK, Next, ~(Exit \/ FreeNext \/ FreeMapDone \/ FreeDepended \/ Free1Library)
  PROVE  NextOK'
<1>1. UNCHANGED <<maps, next>>
  BY DEF Next, Loading, AddLoaded, AddEmulated, NewNative, AddFails, InitNative, InitEmulated, NativeReturns,
         StartInits, NeededReturns, NeededFails, LoadReturns, LoadFails, RunElfInit, InitReturns, OpenReturns,
         Reopen, Dlopen, Dlclose, exitVars
<1> QED  BY <1>1 DEF NextOK

(* Every step keeps the structure.                                         *)
LEMMA StructureStep ==
  ASSUME Structure, [Next]_vars
  PROVE  Structure'
<1>1. CASE Next
  <2>1. TypeOK' /\ NextOK'
    BY <1>1, TypeLoading, TypeRunning, TypeExiting, NextOKKept DEF Structure, Next
  <2>2. OwnedOnce' /\ CallsOK' /\ GraphOK' /\ EmulatedOnly' /\ FramesOK'
    BY <1>1, OwnedStep, CallsStep, GraphStep, EmulatedStep, FramesStep DEF Structure
  <2> QED  BY <2>1, <2>2 DEF Structure
<1>2. CASE UNCHANGED vars
  <2>1. UNCHANGED <<maplib, local_maplib, needed, depended, active, finalized, calls, initDone, finiDone,
                    deferedInit, defered, dl, stack, exiting, maps, next, frees, entered, freed, failed,
                    reentered, opens>>
    BY <1>2 DEF vars, lists, inits, exitVars, bounds
  <2>2. \A i : CallOK(i)' <=> CallOK(i)
    BY <2>1 DEF CallOK, Owned, Paths, Top
  <2>3. CallsOK'
    BY <2>1, <2>2 DEF Structure, CallsOK, Top
  <2>4. TypeOK'
    BY <2>1 DEF Structure, TypeOK
  <2>5. OwnedOnce' /\ GraphOK' /\ EmulatedOnly' /\ NextOK'
    BY <2>1 DEF Structure, OwnedOnce, Owned, GraphOK, EmulatedOnly, NextOK
  <2>6. FramesOK'
    BY <2>1 DEF Structure, FramesOK, Owned
  <2> QED  BY <2>3, <2>4, <2>5, <2>6 DEF Structure
<1> QED  BY <1>1, <1>2

(* The structure holds throughout: the lists, the calls of AddNeededLib,   *)
(* the graph of needed libraries and the frames of dlopen agree with each  *)
(* other.                                                                  *)
THEOREM StructureAlways == Spec => []Structure
BY StructureInit, StructureStep, PTL DEF Spec

(* The librarians, the handles and the deferred lists stay well formed,    *)
(* and AddNeededLib, with its promotions from the local to the global      *)
(* list, never makes a library owned by two librarians or twice by one:    *)
(* FreeLibrarian frees each once.                                          *)
THEOREM ListsSoundTheorem == Spec => []ListsSound
<1>1. Structure => ListsSound
  BY DEF Structure, ListsSound
<1> QED  BY <1>1, StructureAlways, PTL

-----------------------------------------------------------------------------
(* endBox64.                                                               *)

(* The steps that are not those of endBox64 happen before the exit and     *)
(* leave its state alone.                                                  *)
LEMMA NotExiting ==
  ASSUME Structure, ExitOK, Next,
         ~(Exit \/ FreeNext \/ FreeMapDone \/ FreeDepended \/ Free1Library)
  PROVE  ~exiting /\ UNCHANGED <<exiting, maps, next, frees, entered, freed>>
<1>1. UNCHANGED <<exiting, maps, next, frees, entered, freed>>
  BY DEF Next, Loading, AddLoaded, AddEmulated, NewNative, AddFails, InitNative, InitEmulated, NativeReturns,
         StartInits, NeededReturns, NeededFails, LoadReturns, LoadFails, RunElfInit, InitReturns, OpenReturns,
         Reopen, Dlopen, Dlclose, exitVars
<1>2. calls # << >> \/ stack # << >> \/ ~exiting
  <2>1. CASE Loading
    <3>1. ASSUME Len(calls) > 1 PROVE calls # << >>
      BY <3>1, BelowFacts DEF Structure, CallsIndexed
    <3> QED  BY <2>1, <3>1 DEF Loading, AddLoaded, AddEmulated, NewNative, AddFails, InitNative, InitEmulated,
                NativeReturns, StartInits, NeededReturns, NeededFails, LoadReturns, LoadFails, Adds, Inits, At
  <2>2. CASE ~Loading
    BY <2>2 DEF Next, RunElfInit, InitReturns, OpenReturns, Reopen, Dlopen, Dlclose, Guest
  <2> QED  BY <2>1, <2>2
<1> QED  BY <1>1, <1>2 DEF ExitOK

(* Before the exit nothing is freed.                                       *)
LEMMA ExitIdle ==
  ASSUME ~exiting', maps' = << >>, frees' = << >>, entered' = {}, freed' = {}
  PROVE  ExitOK'
BY DEF ExitOK

(* endBox64 begins with the local libraries.                               *)
LEMMA ExitBegins ==
  ASSUME Structure, ExitOK, Exit
  PROVE  ExitOK'
<1>1. /\ calls = << >> /\ stack = << >> /\ ~exiting /\ exiting' = TRUE
      /\ maps' = <<local_maplib, maplib>> /\ next' = Len(Head(maps'))
      /\ UNCHANGED <<maplib, local_maplib, needed, depended, calls, stack, frees, entered, freed>>
  BY DEF Exit, Guest, FreeMaps, lists
<1>2. frees = << >> /\ entered = {} /\ freed = {}
  BY <1>1 DEF ExitOK
<1>3. /\ Head(maps') = local_maplib /\ Len(maps') = 2 /\ maps' # << >>
      /\ maps'[1] = local_maplib /\ maps'[2] = maplib
  BY <1>1
<1>4. Len(local_maplib) \in Nat
  BY DEF Structure, TypeOK, LibSeqs
<1>5. \A k \in next' + 1 .. Len(Head(maps')) : FALSE
  BY <1>1, <1>3, <1>4
<1> QED  BY <1>1, <1>2, <1>3, <1>5 DEF ExitOK

(* The calls of freeLibraryRecurse.                                        *)
FreesIndexed == /\ Len(frees) \in Nat /\ DOMAIN frees = 1 .. Len(frees)
                /\ \A i \in DOMAIN frees : frees[i] \in FreeSet /\ frees[i].lib \in Libs /\ frees[i].todo \in Seq(Libs)

(* The calls of freeLibraryRecurse are a list.                             *)
LEMMA FreesFacts ==
  ASSUME TypeOK
  PROVE  FreesIndexed
<1>1. frees \in Seq(FreeSet)
  BY DEF TypeOK
<1>2. Len(frees) \in Nat /\ DOMAIN frees = 1 .. Len(frees) /\ \A i \in DOMAIN frees : frees[i] \in FreeSet
  BY <1>1
<1> QED  BY <1>2 DEF FreesIndexed, FreeSet, LibSeqs

(* The list that FreeLibrarian frees is the local one, then the global     *)
(* one.                                                                    *)
LEMMA MapsFacts ==
  ASSUME TypeOK, ExitOK, exiting, maps # << >>
  PROVE  /\ Head(maps) \in Seq(Libs) /\ Range(Head(maps)) \subseteq Owned
         /\ \/ /\ Len(maps) = 2 /\ Head(maps) = local_maplib /\ maps[2] = maplib
               /\ Len(Tail(maps)) = 1 /\ Tail(maps)[1] = maplib /\ Head(Tail(maps)) = maplib
            \/ Len(maps) = 1 /\ Head(maps) = maplib /\ Tail(maps) = << >>
<1>1. /\ maps \in Seq(LibSeqs)
      /\ \/ Len(maps) = 2 /\ maps[1] = local_maplib /\ maps[2] = maplib
         \/ Len(maps) = 1 /\ maps[1] = maplib
  BY DEF ExitOK, TypeOK
<1>2. /\ Head(maps) = maps[1] /\ Len(Tail(maps)) = Len(maps) - 1 /\ Tail(maps) \in Seq(LibSeqs)
      /\ \A i \in DOMAIN Tail(maps) : Tail(maps)[i] = maps[i + 1]
  BY <1>1, TailFacts
<1>3. PICK t \in Seq(LibSeqs) : t = Tail(maps)
  BY <1>2
<1>4. CASE Len(maps) = 2
  <2>1. Len(t) = 1
    BY <1>2, <1>3, <1>4
  <2>2. 1 \in DOMAIN t /\ Head(t) = t[1]
    BY <2>1
  <2>3. t[1] = maps[2]
    <3>1. t[1] = maps[1 + 1]
      BY <1>2, <1>3, <2>2
    <3> QED  BY <3>1
  <2> QED  BY <1>1, <1>2, <1>3, <1>4, <2>1, <2>2, <2>3 DEF TypeOK, LibSeqs, Owned
<1>5. CASE Len(maps) = 1
  <2>1. Len(t) = 0
    BY <1>2, <1>3, <1>5
  <2>2. t = << >>
    BY <2>1
  <2> QED  BY <1>1, <1>2, <1>3, <1>5, <2>2 DEF TypeOK, LibSeqs, Owned
<1> QED  BY <1>1, <1>4, <1>5

(* FreeLibrarian changes no list of libraries.                             *)
LEMMA FreeingKeeps ==
  ASSUME UNCHANGED freeing
  PROVE  UNCHANGED <<maplib, local_maplib, needed, depended, calls, stack, exiting>>
BY DEF freeing, lists

(* The loop of FreeLibrarian keeps ExitOK.                                 *)
LEMMA FreeNextKeeps ==
  ASSUME Structure, ExitOK, FreeNext
  PROVE  ExitOK'
<1>1. /\ exiting /\ maps # << >> /\ frees = << >> /\ next > 0 /\ next' = next - 1
      /\ UNCHANGED <<maplib, local_maplib, needed, depended, calls, stack, exiting, maps, freed>>
  BY FreeingKeeps DEF FreeNext
<1>2. TypeOK /\ next \in Nat /\ next <= Len(Head(maps))
  BY <1>1 DEF Structure, TypeOK, NextOK
<1>3. /\ Head(maps) \in Seq(Libs) /\ Range(Head(maps)) \subseteq Owned
  BY <1>1, <1>2, MapsFacts
<1>4. PICK s \in Seq(Libs) : s = Head(maps)
  BY <1>3
<1>5. next \in 1 .. Len(s) /\ Len(s) \in Nat /\ DOMAIN s = 1 .. Len(s)
  BY <1>1, <1>2, <1>4
<1>6. PICK l \in Libs : l = s[next] /\ l \in Range(s)
  BY <1>5, RangeFacts
<1>7. /\ frees' = IF l \in entered THEN frees ELSE Append(frees, [lib |-> l, todo |-> depended[l]])
      /\ entered' = entered \cup {l}
  BY <1>4, <1>6 DEF FreeNext, Recurse
<1>8. \A k \in next' + 1 .. Len(Head(maps)) : Head(maps)[k] \in entered'
  <2>1. \A k \in next + 1 .. Len(Head(maps)) : Head(maps)[k] \in entered
    BY <1>1 DEF ExitOK
  <2>2. ASSUME NEW k \in next' + 1 .. Len(s) PROVE k = next \/ k \in next + 1 .. Len(s)
    BY <1>1, <1>5
  <2> QED  BY <1>4, <1>6, <1>7, <2>1, <2>2
<1>9. entered = freed
  BY <1>1 DEF ExitOK
<1>10. CASE l \in entered
  <2>1. frees' = << >> /\ entered' = entered
    BY <1>1, <1>7, <1>10
  <2> QED  BY <1>1, <1>8, <1>9, <2>1 DEF ExitOK, Owned
<1>11. CASE l \notin entered
  <2>1. PICK r : r = [lib |-> l, todo |-> depended[l]]
    OBVIOUS
  <2>2. r.lib = l /\ r.todo = depended[l]
    BY <2>1
  <2>3. frees' = <<r>>
    <3>1. frees' = Append(<< >>, r)
      BY <1>1, <1>7, <1>11, <2>1
    <3> QED  BY <3>1
  <2>4. DOMAIN frees' = {1} /\ frees'[1] = r /\ frees' # << >>
    BY <2>3
  <2>5. {frees'[i].lib : i \in DOMAIN frees'} = {l}
    BY <2>2, <2>4
  <2>6. \A i \in DOMAIN frees' : FreeOK(i)'
    BY <1>1, <1>4, <1>6, <1>9, <1>11, <2>2, <2>4 DEF FreeOK
  <2>7. \A i, j \in DOMAIN frees' : i = j /\ ~(i < j)
    BY <2>4
  <2> QED  BY <1>1, <1>7, <1>8, <1>9, <2>4, <2>5, <2>6, <2>7 DEF ExitOK, Owned
<1> QED  BY <1>10, <1>11

(* The end of one FreeLibrarian keeps ExitOK: all of its list is freed.    *)
LEMMA FreeMapDoneKeeps ==
  ASSUME Structure, ExitOK, FreeMapDone
  PROVE  ExitOK'
<1>1. /\ exiting /\ maps # << >> /\ frees = << >> /\ next = 0 /\ maps' = Tail(maps)
      /\ next' = IF Len(maps) > 1 THEN Len(maps[2]) ELSE 0
      /\ UNCHANGED <<maplib, local_maplib, needed, depended, calls, stack, exiting, frees, entered, freed>>
  BY FreeingKeeps DEF FreeMapDone
<1>2. TypeOK
  BY DEF Structure
<1>3. entered = freed
  BY <1>1 DEF ExitOK
<1>4. Range(Head(maps)) \subseteq freed
  <2>1. PICK s \in Seq(Libs) : s = Head(maps)
    BY <1>1, <1>2, MapsFacts
  <2>2. DOMAIN s = 1 .. Len(s)
    BY <2>1
  <2>3. \A k \in 1 .. Len(s) : s[k] \in entered
    BY <1>1, <2>1 DEF ExitOK
  <2> QED  BY <1>3, <2>1, <2>2, <2>3 DEF Range
<1>5. Range(local_maplib) \subseteq freed
  BY <1>1, <1>2, <1>4, MapsFacts DEF ExitOK
<1>6. maps' = << >> \/ (Len(maps') = 1 /\ maps'[1] = maplib)
  BY <1>1, <1>2, MapsFacts
<1>7. maps' # << >> => \A k \in next' + 1 .. Len(Head(maps')) : FALSE
  <2>1. CASE maps' = << >>
    BY <2>1
  <2>2. CASE maps' # << >>
    <3>1. Len(maps) = 2 /\ maps[2] = maplib /\ Head(maps') = maplib
      BY <1>1, <1>2, <2>2, MapsFacts
    <3>2. Len(maplib) \in Nat
      BY <1>2 DEF TypeOK, LibSeqs
    <3>a. Len(maps) > 1
      BY <3>1
    <3>3. Head(maps') = maplib /\ next' = Len(maplib)
      BY <1>1, <3>1, <3>a
    <3> QED  BY <3>2, <3>3
  <2> QED  BY <2>1, <2>2
<1>8. ~(Len(maps') = 2) /\ Len(maps') < 2
  <2>1. Len(<< >>) = 0
    OBVIOUS
  <2>2. Len(maps') = 0 \/ Len(maps') = 1
    BY <1>6, <2>1
  <2>3. PICK n \in {0, 1} : n = Len(maps')
    BY <2>2
  <2>4. ~(n = 2) /\ n < 2
    BY <2>3
  <2> QED  BY <2>3, <2>4, Zenon
<1> QED  BY <1>1, <1>3, <1>5, <1>6, <1>7, <1>8 DEF ExitOK, Owned

(* What the innermost call of freeLibraryRecurse is about to look at.      *)
LEMMA LastFree ==
  ASSUME Structure, ExitOK, frees # << >>
  PROVE  /\ Len(frees) \in Nat /\ Len(frees) > 0 /\ DOMAIN frees = 1 .. Len(frees)
         /\ Len(frees) \in DOMAIN frees /\ Last(frees) = frees[Len(frees)] /\ Last(frees) \in FreeSet
         /\ Last(frees).lib \in Libs /\ Last(frees).todo \in Seq(Libs)
         /\ FreeOK(Len(frees)) /\ exiting /\ maps # << >> /\ frees \in Seq(FreeSet)
<1>1. frees \in Seq(FreeSet) /\ TypeOK
  BY DEF Structure, TypeOK
<1>2. FreesIndexed
  BY <1>1, FreesFacts
<1>3. exiting /\ maps # << >>
  BY DEF ExitOK
<1>4. /\ Len(frees) \in Nat /\ Len(frees) > 0 /\ DOMAIN frees = 1 .. Len(frees)
      /\ Len(frees) \in DOMAIN frees /\ Last(frees) = frees[Len(frees)]
  BY <1>1, FrontFacts
<1> QED  BY <1>1, <1>2, <1>3, <1>4 DEF FreesIndexed, ExitOK

(* The loop of freeLibraryRecurse keeps ExitOK.                            *)
LEMMA FreeDependedKeeps ==
  ASSUME Structure, ExitOK, FreeDepended
  PROVE  ExitOK'
<1>1. /\ frees # << >> /\ Last(frees).todo # << >>
      /\ UNCHANGED <<maplib, local_maplib, needed, depended, calls, stack, exiting, maps, next, freed>>
  BY FreeingKeeps DEF FreeDepended
<1>a. Len(frees) \in Nat
  BY <1>1, LastFree
<1>2. PICK n \in Nat : n = Len(frees)
  BY <1>a
<1>3. PICK f \in FreeSet : f = Last(frees)
  BY <1>1, LastFree
<1>4. /\ n > 0 /\ DOMAIN frees = 1 .. n /\ f = frees[n] /\ f.lib \in Libs /\ f.todo \in Seq(Libs) /\ f.todo # << >>
      /\ FreeOK(n) /\ exiting /\ maps # << >> /\ frees \in Seq(FreeSet)
  BY <1>1, <1>2, <1>3, LastFree
<1>5. PICK t \in Seq(Libs) : t = f.todo
  BY <1>4
<1>6. PICK u \in Libs : u = Last(t)
  BY <1>4, <1>5, FrontFacts
<1>7. PICK r \in Seq(Libs) : r = Front(t)
  BY <1>4, <1>5, FrontFacts
<1>8. Range(t) = Range(r) \cup {u}
  BY <1>4, <1>5, <1>6, <1>7, FrontFacts
<1>9. PICK g \in FreeSet : g = [f EXCEPT !.todo = r] /\ g.lib = f.lib /\ g.todo = r
  <2>1. [f EXCEPT !.todo = r] \in FreeSet /\ [f EXCEPT !.todo = r].lib = f.lib /\ [f EXCEPT !.todo = r].todo = r
    BY <1>3, <1>7 DEF FreeSet, LibSeqs
  <2> QED  BY <2>1
<1>10. PICK s \in Seq(FreeSet) : /\ s = Append(Front(frees), g) /\ Len(s) = n /\ DOMAIN s = 1 .. n
                                 /\ s[n] = g /\ \A i \in 1 .. n - 1 : s[i] = frees[i]
  <2>1. LET q == Append(Front(frees), g)
        IN /\ q \in Seq(FreeSet) /\ Len(q) = n /\ DOMAIN q = 1 .. n /\ q[n] = g
           /\ \A i \in 1 .. n - 1 : q[i] = frees[i]
    BY <1>1, <1>2, <1>4, ReplaceFacts
  <2> QED  BY <2>1
<1>11. \A i \in 1 .. n : s[i].lib = frees[i].lib
  <2>1. ASSUME NEW i \in 1 .. n PROVE s[i].lib = frees[i].lib
    <3>1. CASE i = n
      BY <1>4, <1>9, <1>10, <3>1, Zenon
    <3>2. CASE i # n
      <4>1. i \in 1 .. n - 1
        BY <3>2
      <4> QED  BY <1>10, <4>1
    <3> QED  BY <3>1, <3>2
  <2> QED  BY <2>1
<1>12. /\ ~(f.lib \in freed) /\ f.lib \in Range(Head(maps))
       /\ Range(t) \subseteq Range(depended[f.lib])
       /\ Range(depended[f.lib]) \cap Range(Head(maps)) \subseteq Range(t) \cup entered
  BY <1>4, <1>5 DEF FreeOK
<1>13. IF u \in entered \/ u \notin Range(Head(maps))
       THEN frees' = s /\ entered' = entered
       ELSE frees' = Append(s, [lib |-> u, todo |-> depended[u]]) /\ entered' = entered \cup {u}
  <2>1. Last(Last(frees).todo) = u /\ Append(Front(frees), [Last(frees) EXCEPT !.todo = Front(@)]) = s
    BY <1>3, <1>5, <1>6, <1>7, <1>9, <1>10
  <2> QED  BY <2>1 DEF FreeDepended, Recurse
<1>14. /\ entered \subseteq entered' /\ freed' = freed
       /\ (maps' # << >> => \A k \in next' + 1 .. Len(Head(maps')) : Head(maps')[k] \in entered')
       /\ \A l \in freed : \A v \in Range(depended[l]) :
            {l, v} \subseteq Range(maplib) \/ {l, v} \subseteq Range(local_maplib) => v \in entered'
  <2>1. entered \subseteq entered' /\ freed' = freed
    BY <1>1, <1>13
  <2>2. maps # << >> => \A k \in next + 1 .. Len(Head(maps)) : Head(maps)[k] \in entered
    BY <1>4 DEF ExitOK
  <2>3. \A l \in freed : \A v \in Range(depended[l]) :
            {l, v} \subseteq Range(maplib) \/ {l, v} \subseteq Range(local_maplib) => v \in entered
    BY DEF ExitOK
  <2> QED  BY <1>1, <2>1, <2>2, <2>3
<1>15. ASSUME NEW i \in 1 .. n, frees'[i] = s[i], frees'[i].lib = frees[i].lib,
              u \in entered' \/ u \notin Range(Head(maps))
       PROVE  FreeOK(i)'
  <2>1. CASE i = n
    <3>1. frees'[i] = g
      BY <1>10, <1>15, <2>1
    <3> QED  BY <1>1, <1>8, <1>9, <1>12, <1>14, <1>15, <3>1 DEF FreeOK
  <2>2. CASE i # n
    <3>1. frees'[i] = frees[i]
      BY <1>10, <1>15, <2>2
    <3>2. FreeOK(i)
      BY <1>4 DEF ExitOK
    <3> QED  BY <1>1, <1>14, <3>1, <3>2 DEF FreeOK
  <2> QED  BY <2>1, <2>2
<1>16. /\ entered = freed \cup {frees[i].lib : i \in 1 .. n}
       /\ \A i, j \in 1 .. n : frees[i].lib = frees[j].lib => i = j
       /\ \A i, j \in 1 .. n : i < j => frees[i].lib \in ReachIn(needed, frees[j].lib)
  BY <1>4 DEF ExitOK
<1>17. CASE u \in entered \/ u \notin Range(Head(maps))
  <2>1. frees' = s /\ entered' = entered
    BY <1>13, <1>17
  <2>2. DOMAIN frees' = 1 .. n /\ \A i \in 1 .. n : frees'[i].lib = frees[i].lib
    BY <1>10, <1>11, <2>1
  <2>3. \A i \in DOMAIN frees' : FreeOK(i)'
    BY <1>15, <1>17, <2>1, <2>2
  <2>4. {frees'[i].lib : i \in DOMAIN frees'} = {frees[i].lib : i \in 1 .. n}
    BY <2>2
  <2>5. /\ entered' = freed' \cup {frees'[i].lib : i \in DOMAIN frees'}
        /\ \A i, j \in DOMAIN frees' : frees'[i].lib = frees'[j].lib => i = j
        /\ \A i, j \in DOMAIN frees' : i < j => frees'[i].lib \in ReachIn(needed, frees'[j].lib)
    BY <1>14, <1>16, <2>1, <2>2, <2>4
  <2> QED  BY <1>1, <1>4, <1>14, <2>3, <2>5 DEF ExitOK, Owned
<1>18. CASE ~(u \in entered \/ u \notin Range(Head(maps)))
  <2>1. PICK w \in FreeSet : w = [lib |-> u, todo |-> depended[u]] /\ w.lib = u /\ w.todo = depended[u]
    <3>1. depended[u] \in LibSeqs
      BY DEF Structure, TypeOK
    <3>2. [lib |-> u, todo |-> depended[u]] \in FreeSet
      BY <3>1 DEF FreeSet
    <3> QED  BY <3>2
  <2>2. frees' = Append(s, w) /\ entered' = entered \cup {u}
    BY <1>13, <1>18, <2>1
  <2>3. /\ DOMAIN frees' = 1 .. n + 1 /\ frees'[n + 1] = w
        /\ \A i \in 1 .. n : frees'[i] = s[i]
    BY <1>10, <2>2, AppendFacts
  <2>4. \A i \in 1 .. n : frees'[i].lib = frees[i].lib
    BY <1>11, <2>3
  <2>5. FreeOK(n + 1)'
    BY <1>1, <1>14, <1>16, <1>18, <2>1, <2>3 DEF FreeOK
  <2>6. \A i \in DOMAIN frees' : FreeOK(i)'
    <3>1. ASSUME NEW i \in 1 .. n + 1 PROVE FreeOK(i)'
      <4>1. CASE i = n + 1
        BY <2>5, <4>1
      <4>2. CASE i # n + 1
        <5>1. i \in 1 .. n
          BY <4>2
        <5> QED  BY <1>15, <2>2, <2>3, <2>4, <5>1
      <4> QED  BY <4>1, <4>2
    <3> QED  BY <2>3, <3>1
  <2>7. 1 .. n + 1 = (1 .. n) \cup {n + 1}
    OBVIOUS
  <2>8. {frees'[i].lib : i \in DOMAIN frees'} = {frees[i].lib : i \in 1 .. n} \cup {u}
    BY <2>1, <2>3, <2>4, <2>7
  <2>9. \A i \in 1 .. n : frees[i].lib # u
    BY <1>16, <1>18
  <2>10. \A i, j \in DOMAIN frees' : frees'[i].lib = frees'[j].lib => i = j
    <3>1. ASSUME NEW i \in 1 .. n + 1, NEW j \in 1 .. n + 1, frees'[i].lib = frees'[j].lib PROVE i = j
      <4>1. CASE i \in 1 .. n /\ j \in 1 .. n
        BY <1>16, <2>4, <3>1, <4>1
      <4>2. CASE i = n + 1 /\ j \in 1 .. n
        BY <2>1, <2>3, <2>4, <2>9, <3>1, <4>2
      <4>3. CASE i \in 1 .. n /\ j = n + 1
        BY <2>1, <2>3, <2>4, <2>9, <3>1, <4>3
      <4>4. CASE i = n + 1 /\ j = n + 1
        BY <4>4
      <4> QED  BY <2>7, <4>1, <4>2, <4>3, <4>4
    <3> QED  BY <2>3, <3>1
  <2>11. f.lib \in ReachIn(needed, u)
    <3>1. u \in Range(depended[f.lib])
      BY <1>8, <1>12
    <3>2. f.lib \in Range(needed[u])
      BY <1>4, <3>1 DEF Structure, GraphOK
    <3>3. Range(needed[u]) \subseteq Libs
      BY RangeFacts DEF Structure, TypeOK, User, LibSeqs
    <3> QED  BY <3>2, <3>3, ReachStep
  <2>12. ASSUME NEW i \in 1 .. n PROVE frees[i].lib \in ReachIn(needed, u)
    <3>1. CASE i = n
      BY <1>4, <2>11, <3>1
    <3>2. CASE i # n
      <4>1. i < n
        BY <3>2
      <4>2. frees[i].lib \in ReachIn(needed, f.lib)
        BY <1>4, <1>16, <4>1
      <4> QED  BY <2>11, <4>2, ReachTrans
    <3> QED  BY <3>1, <3>2
  <2>13. ASSUME NEW i \in 1 .. n + 1, NEW j \in 1 .. n + 1, i < j
         PROVE  frees'[i].lib \in ReachIn(needed', frees'[j].lib)
    <3>0. i \in 1 .. n
      BY <2>13
    <3>1. CASE j = n + 1
      BY <1>1, <2>1, <2>3, <2>4, <2>12, <3>0, <3>1
    <3>2. CASE j # n + 1
      <4>1. j \in 1 .. n
        BY <3>2
      <4> QED  BY <1>1, <1>16, <2>4, <2>13, <3>0, <4>1
    <3> QED  BY <3>1, <3>2
  <2>14. entered' = freed' \cup {frees'[i].lib : i \in DOMAIN frees'}
    BY <1>14, <1>16, <2>2, <2>8
  <2> QED  BY <1>1, <1>4, <1>14, <2>3, <2>6, <2>10, <2>13, <2>14 DEF ExitOK, Owned
<1> QED  BY <1>17, <1>18

(* Free1Library keeps ExitOK: the dependents in the list were entered.     *)
LEMMA Free1LibraryKeeps ==
  ASSUME Structure, ExitOK, Free1Library
  PROVE  ExitOK'
<1>1. /\ frees # << >> /\ Last(frees).todo = << >> /\ frees' = Front(frees)
      /\ freed' = freed \cup {Last(frees).lib}
      /\ UNCHANGED <<maplib, local_maplib, needed, depended, calls, stack, exiting, maps, next, entered>>
  BY FreeingKeeps DEF Free1Library
<1>a. Len(frees) \in Nat
  BY <1>1, LastFree
<1>2. PICK n \in Nat : n = Len(frees)
  BY <1>a
<1>3. PICK f \in FreeSet : f = Last(frees)
  BY <1>1, LastFree
<1>4. /\ n > 0 /\ DOMAIN frees = 1 .. n /\ f = frees[n] /\ f.lib \in Libs /\ f.todo = << >>
      /\ FreeOK(n) /\ exiting /\ maps # << >> /\ frees \in Seq(FreeSet)
  BY <1>1, <1>2, <1>3, LastFree
<1>5. PICK l \in Libs : l = f.lib
  BY <1>4
<1>6. /\ DOMAIN frees' = 1 .. n - 1 /\ \A i \in 1 .. n - 1 : frees'[i] = frees[i]
  BY <1>1, <1>2, <1>4, FrontFacts
<1>7. freed' = freed \cup {l}
  BY <1>1, <1>3, <1>5
<1>8. l \notin freed /\ l \in Range(Head(maps)) /\ Range(depended[l]) \cap Range(Head(maps)) \subseteq entered
  BY <1>4, <1>5, EmptyRange DEF FreeOK
<1>9. /\ entered = freed \cup {frees[i].lib : i \in 1 .. n}
      /\ \A i, j \in 1 .. n : frees[i].lib = frees[j].lib => i = j
      /\ \A i, j \in 1 .. n : i < j => frees[i].lib \in ReachIn(needed, frees[j].lib)
  BY <1>4 DEF ExitOK
<1>10. 1 .. n = (1 .. n - 1) \cup {n} /\ n \notin 1 .. n - 1
  BY <1>4
<1>11. {frees[i].lib : i \in 1 .. n} = {frees'[i].lib : i \in 1 .. n - 1} \cup {l}
  BY <1>4, <1>5, <1>6, <1>10
<1>12. entered' = freed' \cup {frees'[i].lib : i \in DOMAIN frees'}
  BY <1>1, <1>6, <1>7, <1>9, <1>11
<1>13. ASSUME NEW i \in 1 .. n - 1 PROVE FreeOK(i)'
  <2>1. FreeOK(i) /\ i \in 1 .. n
    BY <1>4, <1>10 DEF ExitOK
  <2>2. frees[i].lib # l
    BY <1>4, <1>5, <1>9, <1>10
  <2> QED  BY <1>1, <1>6, <1>7, <2>1, <2>2 DEF FreeOK
<1>14. /\ \A i, j \in DOMAIN frees' : frees'[i].lib = frees'[j].lib => i = j
       /\ \A i, j \in DOMAIN frees' : i < j => frees'[i].lib \in ReachIn(needed, frees'[j].lib)
  BY <1>6, <1>9, <1>10
<1>15. /\ Head(maps) \in {maplib, local_maplib} /\ Range(Head(maps)) \subseteq Owned
       /\ Len(maps) = 2 => Head(maps) = local_maplib
  <2>1. TypeOK
    BY DEF Structure
  <2>2. \/ Len(maps) = 2 /\ Head(maps) = local_maplib
        \/ Len(maps) = 1 /\ Head(maps) = maplib
    BY <1>4, <2>1, MapsFacts
  <2>3. Range(Head(maps)) \subseteq Owned
    BY <2>2 DEF Owned
  <2>4. CASE Len(maps) = 2 /\ Head(maps) = local_maplib
    BY <2>3, <2>4
  <2>5. CASE Len(maps) = 1 /\ Head(maps) = maplib
    <3>1. ~(Len(maps) = 2)
      BY <2>5
    <3> QED  BY <2>3, <2>5, <3>1
  <2> QED  BY <2>2, <2>4, <2>5
<1>16. \A x \in freed' : \A u \in Range(depended[x]) :
         {x, u} \subseteq Range(maplib) \/ {x, u} \subseteq Range(local_maplib) => u \in entered
  <2>1. \A x \in freed : \A u \in Range(depended[x]) :
         {x, u} \subseteq Range(maplib) \/ {x, u} \subseteq Range(local_maplib) => u \in entered
    BY DEF ExitOK
  <2>2. Range(maplib) \cap Range(local_maplib) = {}
    BY DEF Structure, OwnedOnce
  <2>3. ASSUME NEW u \in Range(depended[l]),
               {l, u} \subseteq Range(maplib) \/ {l, u} \subseteq Range(local_maplib)
        PROVE  u \in entered
    BY <1>8, <1>15, <2>2, <2>3
  <2> QED  BY <1>7, <2>1, <2>3
<1>17. /\ freed' \subseteq Owned
       /\ Len(maps) = 2 => freed' \subseteq Range(local_maplib)
       /\ Len(maps) < 2 => Range(local_maplib) \subseteq freed'
  BY <1>4, <1>7, <1>8, <1>15 DEF ExitOK
<1>18. /\ stack = << >> /\ calls = << >>
       /\ \/ Len(maps) = 2 /\ maps[1] = local_maplib /\ maps[2] = maplib
          \/ Len(maps) = 1 /\ maps[1] = maplib
          \/ maps = << >>
       /\ maps # << >> => \A k \in next + 1 .. Len(Head(maps)) : Head(maps)[k] \in entered
  BY <1>4 DEF ExitOK
<1> QED  BY <1>1, <1>4, <1>6, <1>12, <1>13, <1>14, <1>16, <1>17, <1>18 DEF ExitOK, Owned

(* ExitOK holds at the start.                                              *)
LEMMA ExitInit ==
  ASSUME Init
  PROVE  ExitOK
<1>1. ~exiting /\ maps = << >> /\ frees = << >> /\ entered = {} /\ freed = {}
  BY DEF Init
<1> QED  BY <1>1 DEF ExitOK

(* Every step keeps ExitOK.                                                *)
LEMMA ExitStep ==
  ASSUME Structure, ExitOK, [Next]_vars
  PROVE  ExitOK'
<1>1. CASE Exit \/ FreeNext \/ FreeMapDone \/ FreeDepended \/ Free1Library
  BY <1>1, ExitBegins, FreeNextKeeps, FreeMapDoneKeeps, FreeDependedKeeps, Free1LibraryKeeps
<1>2. CASE Next /\ ~(Exit \/ FreeNext \/ FreeMapDone \/ FreeDepended \/ Free1Library)
  <2>1. ~exiting /\ UNCHANGED <<exiting, maps, next, frees, entered, freed>>
    BY <1>2, NotExiting
  <2> QED  BY <2>1, ExitIdle DEF ExitOK
<1>3. CASE UNCHANGED vars
  <2>1. UNCHANGED <<maplib, local_maplib, needed, depended, calls, stack, exiting, maps, next, frees, entered, freed>>
    BY <1>3 DEF vars, lists, exitVars
  <2>2. \A i : FreeOK(i)' <=> FreeOK(i)
    BY <2>1 DEF FreeOK
  <2> QED  BY <2>1, <2>2 DEF ExitOK, Owned
<1> QED  BY <1>1, <1>2, <1>3

(* A library that is about to be freed, and does not need itself, is not   *)
(* needed by any library that is still there.                              *)
LEMMA FreedLast ==
  ASSUME Structure, ExitOK, frees # << >>, Last(frees).todo = << >>,
         NEW l \in Libs, l = Last(frees).lib, l \notin ReachIn(needed, l),
         NEW u \in Owned, l \in ReachIn(needed, u)
  PROVE  u \in freed
<1>a. Len(frees) \in Nat
  BY LastFree
<1>2. PICK n \in Nat : n = Len(frees)
  BY <1>a
<1>3. PICK f \in FreeSet : f = Last(frees)
  BY LastFree
<1>4. /\ n > 0 /\ DOMAIN frees = 1 .. n /\ f = frees[n] /\ f.lib = l /\ f.todo = << >>
      /\ FreeOK(n) /\ exiting /\ maps # << >>
  BY <1>2, <1>3, LastFree
<1>5. l \notin freed /\ l \in Range(Head(maps)) /\ Range(depended[l]) \cap Range(Head(maps)) \subseteq entered
  BY <1>4, EmptyRange DEF FreeOK
<1>6. ASSUME NEW y \in entered, l \in ReachIn(needed, y) PROVE y \in freed
  <2>1. SUFFICES ASSUME y \notin freed PROVE FALSE
    OBVIOUS
  <2>2. PICK i \in 1 .. n : y = frees[i].lib
    BY <1>4, <2>1 DEF ExitOK
  <2>3. CASE i = n
    BY <1>4, <1>6, <2>2, <2>3
  <2>4. CASE i # n
    <3>1. i < n /\ n \in 1 .. n
      BY <1>4, <2>4
    <3>2. y \in ReachIn(needed, l)
      BY <1>4, <2>2, <3>1 DEF ExitOK
    <3>3. l \in ReachIn(needed, l)
      BY <1>6, <3>2, ReachTrans
    <3> QED  BY <3>3
  <2> QED  BY <2>3, <2>4
<1>7. /\ Range(maplib) \cap Range(local_maplib) = {} /\ calls = << >> /\ Owned \subseteq Libs
      /\ freed \subseteq Owned
      /\ \/ Len(maps) = 2 /\ Head(maps) = local_maplib /\ freed \subseteq Range(local_maplib)
         \/ Head(maps) = maplib /\ Range(local_maplib) \subseteq freed
  <2>1. TypeOK
    BY DEF Structure
  <2>2. \/ Len(maps) = 2 /\ Head(maps) = local_maplib
        \/ Len(maps) = 1 /\ Head(maps) = maplib
    BY <1>4, <2>1, MapsFacts
  <2>3. Len(maps) = 2 => freed \subseteq Range(local_maplib)
    BY <1>4 DEF ExitOK
  <2>4. Len(maps) = 1 => Range(local_maplib) \subseteq freed
    <3>1. Len(maps) = 1 => Len(maps) < 2
      OBVIOUS
    <3> QED  BY <1>4, <3>1 DEF ExitOK
  <2>5. Range(maplib) \cap Range(local_maplib) = {}
    BY DEF Structure, OwnedOnce
  <2>6. calls = << >> /\ freed \subseteq Owned
    BY <1>4 DEF ExitOK
  <2>7. Owned \subseteq Libs
    BY <2>1, RangeFacts DEF TypeOK, Owned, LibSeqs
  <2> QED  BY <2>2, <2>3, <2>4, <2>5, <2>6, <2>7
<1>8. ASSUME NEW y \in Libs, NEW z \in Range(needed[y])
      PROVE  z \in Libs /\ z \in ReachIn(needed, y) /\ y \in Owned /\ z \in Range(maplib) /\ y \in Range(depended[z])
  <2>1. Range(needed[y]) \subseteq Libs /\ needed[y] # << >> /\ needed[y] \in Seq(Libs)
    BY <1>8, RangeFacts, EmptyRange DEF Structure, TypeOK, User, LibSeqs
  <2>2. z \in ReachIn(needed, y)
    BY <2>1, <1>8, ReachStep
  <2>3. ~\E i \in DOMAIN calls : calls[i].me = y
    BY <1>7
  <2> QED  BY <1>8, <2>1, <2>2, <2>3 DEF Structure, GraphOK
<1>9. ASSUME NEW y \in Libs, l \in ReachIn(needed, y), y \notin freed, NEW z \in Range(needed[y])
      PROVE  z # l /\ z \notin freed
  <2>1. z \in Libs /\ y \in Owned /\ z \in Range(maplib) /\ y \in Range(depended[z])
    BY <1>8
  <2>2. y \notin entered
    BY <1>6, <1>9
  <2>3. CASE z = l
    <3>1. y \in Range(maplib) /\ Head(maps) = maplib
      BY <1>5, <1>7, <1>9, <2>1, <2>3 DEF Owned
    <3> QED  BY <1>5, <2>1, <2>2, <2>3, <3>1
  <2>4. CASE z \in freed
    <3>1. y \in Range(maplib)
      BY <1>7, <1>9, <2>1, <2>4 DEF Owned
    <3> QED  BY <2>1, <2>2, <2>4, <3>1 DEF ExitOK
  <2> QED  BY <2>3, <2>4
<1> DEFINE S == {y \in Libs : y # l /\ (l \in ReachIn(needed, y) => y \notin freed)}
<1>10. ASSUME NEW y \in S PROVE Range(needed[y]) \subseteq S
  <2>1. y \in Libs /\ y # l /\ (l \in ReachIn(needed, y) => y \notin freed)
    OBVIOUS
  <2> HIDE DEF S
  <2>2. ASSUME NEW z \in Range(needed[y]) PROVE z \in S
    <3>1. z \in Libs /\ z \in ReachIn(needed, y)
      BY <2>1, <1>8
    <3>2. z = l \/ l \in ReachIn(needed, z) => l \in ReachIn(needed, y)
      BY <3>1, ReachTrans
    <3>3. l \in ReachIn(needed, y) => z # l /\ z \notin freed
      BY <1>9, <2>1
    <3> QED  BY <3>1, <3>2, <3>3 DEF S
  <2> QED  BY <2>2
<1>11. ASSUME u \notin freed PROVE FALSE
  <2>1. u \in S
    BY <1>7, <1>11
  <2>2. S \in SUBSET Libs /\ l \notin S
    OBVIOUS
  <2> HIDE DEF S
  <2>3. ReachIn(needed, u) \subseteq S
    BY <1>10, <2>1, <2>2, ReachLeast
  <2> QED  BY <2>2, <2>3
<1> QED  BY <1>11

(* A library that is freed in this step is freed after all that need it.   *)
LEMMA ExitOrderStep ==
  ASSUME Structure, ExitOK, [Next]_vars, NEW l \in freed' \ freed, l \notin ReachIn(needed, l),
         NEW u \in Owned, l \in ReachIn(needed, u)
  PROVE  u \in freed
<1>1. ~(freed' = freed)
  OBVIOUS
<1>2. Free1Library
  <2>1. CASE UNCHANGED vars
    BY <1>1, <2>1 DEF vars, exitVars
  <2>2. CASE Next /\ ~(Exit \/ FreeNext \/ FreeMapDone \/ FreeDepended \/ Free1Library)
    BY <1>1, <2>2, NotExiting
  <2>3. CASE Exit \/ FreeNext \/ FreeMapDone \/ FreeDepended
    BY <1>1, <2>3 DEF Exit, FreeNext, FreeMapDone, FreeDepended
  <2> QED  BY <2>1, <2>2, <2>3
<1>3. frees # << >> /\ Last(frees).todo = << >> /\ l = Last(frees).lib
  BY <1>2 DEF Free1Library
<1>4. l \in Libs
  BY <1>3, LastFree
<1> QED  BY <1>3, <1>4, FreedLast

(* ExitOK holds throughout: endBox64 frees the local list before the       *)
(* global one, and a library is marked when freeLibraryRecurse enters it.  *)
THEOREM ExitAlways == Spec => []ExitOK
BY ExitInit, ExitStep, StructureAlways, PTL DEF Spec

(* At exit the fini functions of a library run, and it is freed, after     *)
(* those of every loaded library that needs it, in either list and         *)
(* whatever failed to load, unless it needs itself.                        *)
THEOREM ExitOrderTheorem == Spec => ExitOrder
<1>1. ASSUME Structure, ExitOK, [Next]_vars
      PROVE  [\A l \in freed' \ freed :
                l \notin ReachIn(needed, l) =>
                  \A u \in Owned : l \in ReachIn(needed, u) => u \in freed]_vars
  BY <1>1, ExitOrderStep
<1> QED  BY <1>1, ExitAlways, StructureAlways, PTL DEF Spec, ExitOrder

-----------------------------------------------------------------------------
(* What was loaded is finalized, or a call has still to initialise it.     *)

(* Covers for the call c, with the needed libraries N.                     *)
CoversOf(N, c, y) ==
  \/ c.phase = "add" /\ \E k \in c.idx + 1 .. Len(N[c.me]) : N[c.me][k] = y
  \/ c.phase = "init" /\ y \in Range(c.todo)

(* Covers, in terms of the lists and the call.                             *)
LEMMA CoversSplit ==
  ASSUME NEW i, NEW y
  PROVE  Covers(i, y) <=> CoversOf(needed, calls[i], y)
BY DEF Covers, CoversOf

(* The same in the next state.                                             *)
LEMMA CoversSplitPrime ==
  ASSUME NEW i, NEW y
  PROVE  Covers(i, y)' <=> CoversOf(needed', calls'[i], y)
BY DEF Covers, CoversOf

(* A call covers no less when a list grows, ...                            *)
LEMMA CoverGrows ==
  ASSUME NEW me \in User, NEW l, Recorded(me, l), NEW c \in CallSet, NEW y, CoversOf(needed, c, y)
  PROVE  CoversOf(needed', c, y)
<1>1. c.me \in User /\ c.idx \in Nat
  BY DEF CallSet
<1>2. /\ Len(needed[c.me]) \in Nat /\ Len(needed'[c.me]) \in Nat /\ Len(needed'[c.me]) >= Len(needed[c.me])
      /\ \A i \in 1 .. Len(needed[c.me]) : needed'[c.me][i] = needed[c.me][i]
  BY <1>1 DEF Recorded
<1>3. CASE c.phase = "init" /\ y \in Range(c.todo)
  BY <1>3 DEF CoversOf
<1>4. CASE c.phase = "add" /\ \E k \in c.idx + 1 .. Len(needed[c.me]) : needed[c.me][k] = y
  <2>1. PICK k \in c.idx + 1 .. Len(needed[c.me]) : needed[c.me][k] = y
    BY <1>4
  <2>2. k \in 1 .. Len(needed[c.me]) /\ k \in c.idx + 1 .. Len(needed'[c.me])
    BY <1>1, <1>2, <2>1
  <2>3. needed'[c.me][k] = y
    BY <1>2, <2>1, <2>2
  <2> QED  BY <1>4, <2>2, <2>3 DEF CoversOf
<1> QED  BY <1>3, <1>4 DEF CoversOf

(* and it covers what it has just added.                                   *)
LEMMA CoverNew ==
  ASSUME NEW me \in User, NEW l, Recorded(me, l), l \notin Range(needed[me]),
         NEW c \in CallSet, c.me = me, c.phase = "add", c.idx <= Len(needed[me])
  PROVE  CoversOf(needed', c, l)
<1>1. c.idx \in Nat
  BY DEF CallSet
<1>2. /\ Len(needed[me]) \in Nat /\ Len(needed'[me]) = Len(needed[me]) + 1
      /\ needed'[me][Len(needed[me]) + 1] = l
  BY DEF Recorded
<1>3. Len(needed[me]) + 1 \in c.idx + 1 .. Len(needed'[me])
  BY <1>1, <1>2
<1> QED  BY <1>2, <1>3 DEF CoversOf

(* A call that takes the head of its list still has the rest to            *)
(* initialise.                                                             *)
LEMMA CoverTaken ==
  ASSUME NEW N, NEW c, NEW d, NEW l, Taken(d, c, l), NEW y, CoversOf(N, c, y), c.phase = "add" \/ y # l
  PROVE  CoversOf(N, d, y)
<1>1. CASE c.phase = "add"
  BY <1>1 DEF CoversOf, Taken
<1>2. CASE c.phase = "init" /\ y # l
  BY <1>2 DEF CoversOf, Taken
<1> QED  BY <1>1, <1>2 DEF CoversOf

(* A step keeps Complete when what was covered stays covered.              *)
LEMMA CompleteFrom ==
  ASSUME TypeOK, Complete, ~failed,
         \A i \in DOMAIN calls' : calls'[i].phase # "fail",
         \A i \in DOMAIN calls, y \in Emulated : CoversOf(needed, calls[i], y) =>
            finalized'[y] \/ \E k \in DOMAIN calls' : calls'[k].me = calls[i].me /\ CoversOf(needed', calls'[k], y),
         \A u \in User : \A y \in Range(needed'[u]) \cap Emulated :
            y \in Range(needed[u]) \/ \E k \in DOMAIN calls' : calls'[k].me = u /\ CoversOf(needed', calls'[k], y),
         \A y \in Owned' \cap Emulated : y \in Owned \/ \E k \in DOMAIN calls' : CoversOf(needed', calls'[k], y),
         \A x \in Libs : finalized[x] => finalized'[x],
         \A x \in Owned' : x \in Native \/ finalized'[x] =>
            (x \in Owned /\ (x \in Native \/ finalized[x])) \/ Range(Needs[x]) \subseteq Range(needed'[x]),
         \A x \in Owned : Range(needed[x]) \subseteq Range(needed'[x])
  PROVE  Complete'
<1>1. ASSUME NEW u \in User, NEW y \in Range(needed'[u]) \cap Emulated
      PROVE  finalized'[y] \/ \E k \in DOMAIN calls' : calls'[k].me = u /\ Covers(k, y)'
  <2>1. CASE y \in Range(needed[u])
    <3>1. CASE finalized[y]
      BY <3>1, EmulatedFacts
    <3>2. CASE \E i \in DOMAIN calls : calls[i].me = u /\ Covers(i, y)
      BY <3>2, CoversSplit, CoversSplitPrime
    <3> QED  BY <2>1, <3>1, <3>2 DEF Complete
  <2>2. CASE y \notin Range(needed[u])
    BY <2>2, CoversSplitPrime
  <2> QED  BY <2>1, <2>2
<1>2. ASSUME NEW y \in Owned' \cap Emulated
      PROVE  finalized'[y] \/ \E k \in DOMAIN calls' : Covers(k, y)'
  <2>1. CASE y \in Owned
    <3>1. CASE finalized[y]
      BY <3>1, EmulatedFacts
    <3>2. CASE \E i \in DOMAIN calls : Covers(i, y)
      BY <3>2, CoversSplit, CoversSplitPrime
    <3> QED  BY <2>1, <3>1, <3>2 DEF Complete
  <2>2. CASE y \notin Owned
    BY <2>2, CoversSplitPrime
  <2> QED  BY <2>1, <2>2
<1>3. ASSUME NEW x \in Owned', x \in Native \/ finalized'[x]
      PROVE  Range(Needs[x]) \subseteq Range(needed'[x])
  BY <1>3 DEF Complete
<1> QED  BY <1>1, <1>2, <1>3 DEF Complete

(* Complete when AddNeededLib adds a library.                              *)
LEMMA CompleteAdds ==
  ASSUME Structure, Complete, ~failed, NEW l \in Libs, NEW d \in CallSet, Replaced(d), Taken(d, Top1, l),
         Top1.phase = "add", NEW me \in User, me = Top1.me, Recorded(me, l), NEW local, Listed(l, local),
         l \in Owned \cup Emulated, finalized' = finalized
  PROVE  Complete'
<1>1. TypeOK /\ OwnedOnce /\ CallsOK /\ EmulatedOnly
  BY DEF Structure
<1>a. Len(calls) \in Nat /\ Len(calls) > 0
  BY DEF Replaced, CallsIndexed
<1>2. PICK n \in Nat : n = Len(calls) /\ n > 0
  BY <1>a
<1>3. /\ DOMAIN calls = 1 .. n /\ DOMAIN calls' = 1 .. n /\ n \in 1 .. n
      /\ calls'[n] = d /\ \A i \in 1 .. n - 1 : calls'[i] = calls[i]
      /\ \A i \in 1 .. n : calls[i] \in CallSet
      /\ Top1 = calls[n]
  BY <1>2 DEF Replaced, CallsIndexed, Top1
<1>4. ASSUME NEW i \in 1 .. n, NEW y, CoversOf(needed, calls[i], y)
      PROVE  calls'[i].me = calls[i].me /\ CoversOf(needed', calls'[i], y)
  <2>1. CoversOf(needed', calls[i], y)
    BY <1>3, <1>4, CoverGrows
  <2>2. CASE i = n
    <3>1. CoversOf(needed', d, y) /\ d.me = calls[n].me
      BY <1>3, <2>1, <2>2, CoverTaken DEF Taken
    <3> QED  BY <1>3, <2>2, <3>1
  <2>3. CASE i # n
    <3>1. i \in 1 .. n - 1
      BY <2>3
    <3> QED  BY <1>3, <2>1, <3>1
  <2> QED  BY <2>2, <2>3
<1>5. \A i \in DOMAIN calls' : calls'[i].phase # "fail"
  <2>1. ASSUME NEW i \in 1 .. n PROVE calls'[i].phase = calls[i].phase
    <3>1. CASE i = n
      BY <1>3, <3>1 DEF Taken
    <3>2. CASE i # n
      <4>1. i \in 1 .. n - 1
        BY <3>2
      <4> QED  BY <1>3, <4>1
    <3> QED  BY <3>1, <3>2
  <2> QED  BY <1>3, <2>1 DEF Complete
<1>6. d.me = me /\ d.phase = "add" /\ d.idx <= Len(needed[me])
  <2>1. CallBody(needed, Top.lib, calls[n], n)
    BY <1>1, <1>3, BodyOf
  <2> QED  BY <1>3, <2>1 DEF CallBody, Taken
<1>7. l \notin Range(needed[me]) => calls'[n].me = me /\ CoversOf(needed', calls'[n], l)
  BY <1>3, <1>6, CoverNew
<1>8. ASSUME NEW u \in User, NEW y \in Range(needed'[u])
      PROVE  y \in Range(needed[u]) \/ \E k \in DOMAIN calls' : calls'[k].me = u /\ CoversOf(needed', calls'[k], y)
  <2>1. CASE u = me
    <3>1. y \in Range(needed[u]) \/ y = l
      BY <2>1 DEF Recorded
    <3> QED  BY <1>3, <1>7, <2>1, <3>1
  <2>2. CASE u # me
    BY <2>2 DEF Recorded
  <2> QED  BY <2>1, <2>2
<1>9. Owned' = Owned \cup {l} /\ (l \notin Owned => l \notin Range(needed[me]))
  BY <1>1 DEF Listed, OwnedOnce
<1>10. \A y \in Owned' : y \in Owned \/ \E k \in DOMAIN calls' : CoversOf(needed', calls'[k], y)
  BY <1>3, <1>7, <1>9
<1>11. \A u \in User : Range(needed[u]) \subseteq Range(needed'[u])
  BY DEF Recorded
<1>12. Owned \subseteq User
  BY <1>1, RangeFacts, EmulatedFacts DEF Owned, TypeOK, LibSeqs
<1>13. \A x \in Owned' : x \in Native \/ finalized'[x] => x \in Owned /\ (x \in Native \/ finalized[x])
  BY <1>1, <1>9, EmulatedFacts DEF EmulatedOnly
<1> QED  BY <1>1, <1>3, <1>4, <1>5, <1>8, <1>10, <1>11, <1>12, <1>13, CompleteFrom

(* Complete when a wrapped library is added after what it needs.           *)
LEMMA CompleteNative ==
  ASSUME Structure, Complete, ~failed, NEW l \in Native \ Owned, NEW d \in CallSet, Popped(d), Taken(d, Top2, l),
         Top2.phase = "add", NEW me \in User, me = Top2.me, Recorded(me, l), NEW local, Listed(l, local),
         l = Top1.me, Top1.phase = "init", Top1.todo = << >>, finalized' = finalized
  PROVE  Complete'
<1>1. TypeOK /\ OwnedOnce /\ CallsOK /\ EmulatedOnly
  BY DEF Structure
<1>a. Len(calls) \in Nat /\ Len(calls) > 1
  BY DEF Popped, CallsIndexed
<1>2. PICK n \in Nat : n = Len(calls) /\ n > 1
  BY <1>a
<1>3. /\ DOMAIN calls = 1 .. n /\ DOMAIN calls' = 1 .. n - 1 /\ n \in 1 .. n /\ n - 1 \in 1 .. n - 1
      /\ calls'[n - 1] = d /\ \A i \in 1 .. n - 2 : calls'[i] = calls[i]
      /\ \A i \in 1 .. n : calls[i] \in CallSet
      /\ Top1 = calls[n] /\ Top2 = calls[n - 1]
  BY <1>2 DEF Popped, CallsIndexed, Top1, Top2
<1>4. ASSUME NEW i \in 1 .. n, NEW y, CoversOf(needed, calls[i], y)
      PROVE  i \in 1 .. n - 1 /\ calls'[i].me = calls[i].me /\ CoversOf(needed', calls'[i], y)
  <2>1. CoversOf(needed', calls[i], y)
    BY <1>3, <1>4, CoverGrows
  <2>2. CASE i = n - 1
    <3>1. CoversOf(needed', d, y) /\ d.me = calls[n - 1].me
      BY <1>3, <2>1, <2>2, CoverTaken DEF Taken
    <3> QED  BY <1>3, <2>2, <3>1
  <2>3. CASE i = n
    BY <1>3, <1>4, <2>3, EmptyRange DEF CoversOf
  <2>4. CASE i # n /\ i # n - 1
    <3>1. i \in 1 .. n - 2 /\ i \in 1 .. n - 1
      BY <2>4
    <3> QED  BY <1>3, <2>1, <3>1
  <2> QED  BY <2>2, <2>3, <2>4
<1>5. \A i \in DOMAIN calls' : calls'[i].phase # "fail"
  <2>1. ASSUME NEW i \in 1 .. n - 1 PROVE calls'[i].phase = calls[i].phase /\ i \in 1 .. n
    <3>1. CASE i = n - 1
      BY <1>3, <3>1 DEF Taken
    <3>2. CASE i # n - 1
      <4>1. i \in 1 .. n - 2
        BY <3>2
      <4> QED  BY <1>3, <4>1
    <3> QED  BY <3>1, <3>2
  <2> QED  BY <1>3, <2>1 DEF Complete
<1>6. \A u \in User : \A y \in Range(needed'[u]) \cap Emulated : y \in Range(needed[u])
  BY EmulatedFacts DEF Recorded
<1>7. Owned' = Owned \cup {l} /\ l \notin Emulated
  BY EmulatedFacts DEF Listed
<1>8. \A u \in User : Range(needed[u]) \subseteq Range(needed'[u])
  BY DEF Recorded
<1>9. Owned \subseteq User /\ l \in User
  BY <1>1, RangeFacts, EmulatedFacts DEF Owned, TypeOK, LibSeqs
<1>10. Range(Needs[l]) \subseteq Range(needed'[l])
  <2>1. CallBody(needed, Top.lib, calls[n], n)
    BY <1>1, <1>3, BodyOf
  <2>2. PathsOf(Top.lib, l) = Range(Needs[l])
    BY EmulatedFacts DEF PathsOf
  <2> QED  BY <1>3, <1>8, <1>9, <2>1, <2>2 DEF CallBody
<1>11. \A x \in Owned' : x \in Native \/ finalized'[x] =>
          (x \in Owned /\ (x \in Native \/ finalized[x])) \/ Range(Needs[x]) \subseteq Range(needed'[x])
  BY <1>7, <1>10
<1> QED  BY <1>1, <1>3, <1>4, <1>5, <1>6, <1>7, <1>8, <1>9, <1>11, CompleteFrom

(* A step that adds no library.                                            *)
LEMMA CompleteMoves ==
  ASSUME Structure, Complete, ~failed, UNCHANGED <<maplib, local_maplib>>,
         \A u \in User : needed'[u] = needed[u] \/ (needed'[u] = << >> /\ u \notin Libs),
         \A i \in DOMAIN calls' : calls'[i].phase # "fail",
         \A i \in DOMAIN calls, y \in Emulated : CoversOf(needed, calls[i], y) =>
            finalized'[y] \/ \E k \in DOMAIN calls' : calls'[k].me = calls[i].me /\ CoversOf(needed', calls'[k], y),
         \A x \in Libs : finalized[x] => finalized'[x],
         \A x \in Libs : finalized'[x] => finalized[x] \/ Range(Needs[x]) \subseteq Range(needed[x])
  PROVE  Complete'
<1>1. TypeOK
  BY DEF Structure
<1>2. Owned' = Owned /\ Owned \subseteq Libs /\ Libs \subseteq User
  BY <1>1, RangeFacts, EmulatedFacts DEF Owned, TypeOK, LibSeqs
<1>3. \A x \in Libs : needed'[x] = needed[x]
  BY <1>2
<1>4. \A u \in User : \A y \in Range(needed'[u]) \cap Emulated : y \in Range(needed[u])
  BY EmptyRange
<1> QED  BY <1>1, <1>2, <1>3, <1>4, CompleteFrom

(* No step makes failed false again.                                       *)
LEMMA FailedStays ==
  ASSUME [Next]_vars, failed
  PROVE  failed'
BY DEF Next, Loading, AddLoaded, AddEmulated, NewNative, AddFails, InitNative, InitEmulated, NativeReturns,
       StartInits, NeededReturns, NeededFails, LoadReturns, LoadFails, RunElfInit, InitReturns, OpenReturns,
       Reopen, Dlopen, Dlclose, Exit, FreeNext, FreeMapDone, FreeDepended, Free1Library, freeing, bounds, vars

(* Without a failure no call returns with an error.                        *)
LEMMA NoFailure ==
  ASSUME Structure, Complete, ~failed
  PROVE  /\ ~NeededFails /\ ~LoadFails
         /\ calls # << >> => Top1.phase # "fail"
<1>1. calls # << >> => Cur = Top1 /\ Len(calls) \in DOMAIN calls
  BY CurFacts DEF Structure, TypeOK, Top1
<1>2. calls # << >> => Top1.phase # "fail"
  BY <1>1 DEF Complete, Top1
<1> QED  BY <1>1, <1>2 DEF NeededFails, LoadFails, At

(* The steps that neither load nor open a library.                         *)
Quiet == \/ RunElfInit \/ InitReturns \/ OpenReturns \/ (\E l \in Libs : Reopen(l)) \/ (\E i \in DOMAIN dl : Dlclose(i))
         \/ Exit \/ FreeNext \/ FreeMapDone \/ FreeDepended \/ Free1Library

(* These steps load nothing.                                               *)
LEMMA QuietKeeps ==
  ASSUME Quiet \/ UNCHANGED vars
  PROVE  UNCHANGED <<maplib, local_maplib, needed, finalized, calls, deferedInit>>
BY DEF Quiet, RunElfInit, InitReturns, OpenReturns, Reopen, Dlclose, Exit, FreeNext, FreeMapDone, FreeDepended,
       Free1Library, freeing, lists, inits, vars

(* Every step keeps Complete: what was loaded is finalized or some call    *)
(* will do it.                                                             *)
LEMMA CompleteStep ==
  ASSUME Structure, Complete, [Next]_vars
  PROVE  Complete'
<1>0. SUFFICES ASSUME ~failed PROVE Complete'
  BY FailedStays DEF Complete
<1>t. TypeOK /\ OwnedOnce /\ CallsOK /\ EmulatedOnly
  BY DEF Structure
<1>1. ASSUME NEW l \in Libs, AddLoaded(l) \/ AddEmulated(l) PROVE Complete'
  <2>1. /\ Replaced(Rest(Top1)) /\ Taken(Rest(Top1), Top1, l) /\ Top1.phase = "add" /\ Top1.me \in User
        /\ Recorded(Top1.me, l) /\ Listed(l, Top1.local) /\ l \in Owned \cup Emulated /\ finalized' = finalized
    BY <1>1, <1>t, AddLoadedEffect, AddEmulatedEffect DEF AddLoaded, AddEmulated
  <2>2. PICK d \in CallSet : d = Rest(Top1)
    BY <2>1 DEF Replaced
  <2>3. PICK me \in User : me = Top1.me
    BY <2>1
  <2> QED  BY <1>0, <2>1, <2>2, <2>3, CompleteAdds
<1>2. ASSUME NativeReturns PROVE Complete'
  <2>1. /\ Popped(Rest(Top2)) /\ Taken(Rest(Top2), Top2, Top1.me) /\ Top2.phase = "add" /\ Top2.me \in User
        /\ Recorded(Top2.me, Top1.me) /\ Listed(Top1.me, Top2.local)
        /\ Top1.me \in Native \ Owned /\ finalized' = finalized
        /\ Top1.phase = "fail" \/ (Top1.phase = "init" /\ Top1.todo = << >>)
    BY <1>2, <1>t, NativeReturnsEffect DEF NativeReturns
  <2>2. calls # << >>
    BY <1>2, <1>t, BelowFacts DEF NativeReturns, CallsIndexed
  <2>3. Top1.phase = "init" /\ Top1.todo = << >>
    BY <1>0, <2>1, <2>2, NoFailure
  <2>4. PICK d \in CallSet : d = Rest(Top2)
    BY <2>1 DEF Popped
  <2>5. PICK me \in User : me = Top2.me
    BY <2>1
  <2>6. PICK l \in Native \ Owned : l = Top1.me
    BY <2>1
  <2> QED  BY <1>0, <2>1, <2>3, <2>4, <2>5, <2>6, CompleteNative
<1>3. ASSUME NEW l \in Libs, NewNative(l) \/ InitEmulated(l) PROVE Complete'
  <2> DEFINE c == Call(l, FALSE, Len(needed[l]), Needs[l])
  <2>1. Pushed(c) /\ Len(needed[l]) \in Nat
    BY <1>3, <1>t, NewNativeEffect, InitEmulatedEffect
  <2>2. UNCHANGED <<maplib, local_maplib, needed, finalized>>
    BY <1>3 DEF NewNative, InitEmulated, lists
  <2>3. c.phase = "add"
    BY DEF Call
  <2> HIDE DEF c
  <2>4. DOMAIN calls = 1 .. Len(calls) /\ Len(calls) \in Nat /\ DOMAIN calls' = 1 .. Len(calls) + 1
        /\ calls'[Len(calls) + 1] = c /\ \A i \in 1 .. Len(calls) : calls'[i] = calls[i]
    BY <2>1 DEF Pushed, CallsIndexed
  <2>5. \A i \in DOMAIN calls' : i \in DOMAIN calls \/ i = Len(calls) + 1
    BY <2>4
  <2>6. \A i \in DOMAIN calls' : calls'[i].phase # "fail"
    BY <1>0, <2>3, <2>4, <2>5 DEF Complete
  <2>7. \A i \in DOMAIN calls : i \in DOMAIN calls' /\ calls'[i] = calls[i]
    BY <2>4
  <2> QED  BY <1>0, <2>2, <2>6, <2>7, CompleteMoves
<1>4. ASSUME NEW c \in CallSet, Replaced(c), c.phase = "init", c.me = Top1.me,
             \A y \in Emulated : CoversOf(needed, Top1, y) => CoversOf(needed, c, y),
             UNCHANGED <<maplib, local_maplib, needed, finalized>>
      PROVE  Complete'
  <2>1. /\ DOMAIN calls = 1 .. Len(calls) /\ Len(calls) \in Nat /\ DOMAIN calls' = 1 .. Len(calls)
        /\ calls'[Len(calls)] = c /\ \A i \in 1 .. Len(calls) - 1 : calls'[i] = calls[i]
    BY <1>4 DEF Replaced, CallsIndexed
  <2>2. ASSUME NEW i \in DOMAIN calls PROVE i = Len(calls) \/ calls'[i] = calls[i]
    BY <2>1
  <2>3. \A i \in DOMAIN calls' : calls'[i].phase # "fail"
    BY <1>0, <1>4, <2>1, <2>2 DEF Complete
  <2>4. ASSUME NEW i \in DOMAIN calls, NEW y \in Emulated, CoversOf(needed, calls[i], y)
        PROVE  calls'[i].me = calls[i].me /\ CoversOf(needed', calls'[i], y)
    <3>1. CASE i = Len(calls)
      BY <1>4, <2>1, <2>4, <3>1 DEF Top1
    <3>2. CASE calls'[i] = calls[i]
      BY <1>4, <2>4, <3>2
    <3> QED  BY <2>2, <3>1, <3>2
  <2> QED  BY <1>0, <1>4, <2>1, <2>3, <2>4, CompleteMoves
<1>5. ASSUME NEW l \in Libs, InitNative(l) PROVE Complete'
  <2>1. /\ Replaced(Rest(Top1)) /\ Taken(Rest(Top1), Top1, l) /\ Top1.phase = "init" /\ l \in Native
        /\ UNCHANGED <<maplib, local_maplib, needed, finalized>>
    BY <1>5, <1>t, InitNativeEffect DEF InitNative, lists
  <2>2. PICK d \in CallSet : d = Rest(Top1)
    BY <2>1 DEF Replaced
  <2>3. \A y \in Emulated : CoversOf(needed, Top1, y) => CoversOf(needed, d, y)
    BY <2>1, <2>2, CoverTaken, EmulatedFacts
  <2> QED  BY <1>4, <2>1, <2>2, <2>3 DEF Taken
<1>6. ASSUME StartInits PROVE Complete'
  <2>1. PICK c \in CallSet : Replaced(c) /\ Started(c, Top1)
    BY <1>6, <1>t, StartInitsEffect
  <2>2. UNCHANGED <<maplib, local_maplib, needed, finalized>>
    BY <1>6 DEF StartInits, lists
  <2>3. \A y \in Emulated : CoversOf(needed, Top1, y) => CoversOf(needed, c, y)
    BY <2>1 DEF CoversOf, Started
  <2> QED  BY <1>4, <2>1, <2>2, <2>3 DEF Started
<1>7. ASSUME NeededReturns PROVE Complete'
  <2>1. /\ Popped(Rest(Top2)) /\ Taken(Rest(Top2), Top2, Top1.me) /\ Top2.phase = "init" /\ Finalize(Top1.me)
        /\ Top1.phase = "init" /\ Top1.todo = << >> /\ Top1.me \in Libs
        /\ UNCHANGED <<maplib, local_maplib, needed>>
    BY <1>7, <1>t, NeededReturnsEffect DEF NeededReturns, lists
  <2>2. PICK l \in Libs : l = Top1.me
    BY <2>1
  <2>3. finalized' = [finalized EXCEPT ![l] = TRUE]
    BY <2>1, <2>2 DEF Finalize
  <2>4. PICK d \in CallSet : d = Rest(Top2)
    BY <2>1 DEF Popped
  <2>a. Len(calls) \in Nat /\ Len(calls) > 1
    BY <2>1 DEF Popped, CallsIndexed
  <2>5. PICK n \in Nat : n = Len(calls) /\ n > 1
    BY <2>a
  <2>6. /\ DOMAIN calls = 1 .. n /\ DOMAIN calls' = 1 .. n - 1 /\ n \in 1 .. n /\ n - 1 \in 1 .. n - 1
        /\ calls'[n - 1] = d /\ \A i \in 1 .. n - 2 : calls'[i] = calls[i]
        /\ Top1 = calls[n] /\ Top2 = calls[n - 1] /\ Taken(d, Top2, l)
    BY <2>1, <2>2, <2>4, <2>5 DEF Popped, CallsIndexed, Top1, Top2
  <2>7. \A x \in Libs : finalized'[x] <=> finalized[x] \/ x = l
    BY <1>t, <2>3 DEF TypeOK
  <2>8. ASSUME NEW i \in 1 .. n, NEW y \in Emulated, CoversOf(needed, calls[i], y)
        PROVE  finalized'[y] \/ (i \in 1 .. n - 1 /\ calls'[i].me = calls[i].me /\ CoversOf(needed', calls'[i], y))
    <3>1. CASE i = n
      BY <2>1, <2>6, <2>8, <3>1, EmptyRange DEF CoversOf
    <3>2. CASE i = n - 1
      <4>1. CASE y = l
        BY <2>7, <4>1
      <4>2. CASE y # l
        <5>1. CoversOf(needed, d, y) /\ d.me = Top2.me
          BY <2>6, <2>8, <3>2, <4>2, CoverTaken DEF Taken
        <5> QED  BY <2>1, <2>6, <3>2, <5>1
      <4> QED  BY <4>1, <4>2
    <3>3. CASE i # n /\ i # n - 1
      <4>1. i \in 1 .. n - 2 /\ i \in 1 .. n - 1
        BY <3>3
      <4> QED  BY <2>1, <2>6, <2>8, <4>1
    <3> QED  BY <3>1, <3>2, <3>3
  <2>9. ASSUME NEW i \in 1 .. n - 1 PROVE calls'[i].phase # "fail"
    <3>1. CASE i = n - 1
      BY <2>1, <2>6, <3>1 DEF Taken
    <3>2. CASE i # n - 1
      <4>1. i \in 1 .. n - 2 /\ i \in 1 .. n
        BY <3>2
      <4> QED  BY <1>0, <2>6, <4>1 DEF Complete
    <3> QED  BY <3>1, <3>2
  <2>10. Range(Needs[l]) \subseteq Range(needed[l])
    <3>1. CallBody(needed, Top.lib, calls[n], n)
      BY <1>t, <2>6, BodyOf
    <3>2. PathsOf(Top.lib, l) = Range(Needs[l])
      BY EmulatedFacts DEF PathsOf
    <3> QED  BY <2>1, <2>2, <2>6, <3>1, <3>2 DEF CallBody
  <2> QED  BY <1>0, <2>1, <2>6, <2>7, <2>8, <2>9, <2>10, CompleteMoves
<1>8. ASSUME LoadReturns PROVE Complete'
  <2>1. Len(calls) = 1 /\ calls # << >> /\ Cur.phase = "init" /\ Cur.todo = << >> /\ calls' = << >>
        /\ UNCHANGED <<maplib, local_maplib, needed, finalized>>
    BY <1>8 DEF LoadReturns, At, lists
  <2>2. DOMAIN calls = 1 .. 1 /\ Cur = calls[1]
    BY <1>t, <2>1, CurFacts DEF TypeOK
  <2>3. \A i \in DOMAIN calls : \A y : ~CoversOf(needed, calls[i], y)
    BY <2>1, <2>2, EmptyRange DEF CoversOf
  <2>4. \A i \in DOMAIN calls' : FALSE
    BY <2>1
  <2> QED  BY <1>0, <2>1, <2>3, <2>4, CompleteMoves
<1>9. ASSUME NEW l \in Libs, NEW local \in BOOLEAN, Dlopen(l, local) PROVE Complete'
  <2>1. /\ calls = << >> /\ DOMAIN calls' = 1 .. 1 /\ calls'[1].phase = "add"
        /\ needed'[None] = << >> /\ \A u \in User : u # None => needed'[u] = needed[u]
        /\ UNCHANGED <<maplib, local_maplib, finalized>>
    BY <1>9, <1>t, DlopenEffect DEF Dlopen
  <2>2. \A i \in DOMAIN calls : FALSE
    BY <2>1
  <2>3. \A i \in DOMAIN calls' : calls'[i].phase # "fail"
    BY <2>1
  <2>4. \A u \in User : needed'[u] = needed[u] \/ (needed'[u] = << >> /\ u \notin Libs)
    BY <2>1, EmulatedFacts
  <2> QED  BY <1>0, <2>1, <2>2, <2>3, <2>4, CompleteMoves
<1>10. ASSUME Quiet \/ UNCHANGED vars PROVE Complete'
  <2>1. UNCHANGED <<maplib, local_maplib, needed, finalized, calls>>
    BY <1>10, QuietKeeps
  <2> QED  BY <1>0, <2>1, CompleteMoves DEF Complete
<1>11. ASSUME NEW l \in Libs, AddFails(l) PROVE Complete'
  BY <1>11 DEF AddFails, Complete
<1> QED  BY <1>0, <1>1, <1>2, <1>3, <1>5, <1>6, <1>7, <1>8, <1>9, <1>10, <1>11, NoFailure DEF Next, Loading, Quiet

-----------------------------------------------------------------------------
(* What waits for its init functions, and in which order.                  *)

(* What the frames 1 .. j have still to initialise depends on them only.   *)
LEMMA OutKept ==
  ASSUME NEW j \in Nat, \A i \in 1 .. j : stack'[i] = stack[i]
  PROVE  Out(j)' = Out(j)
BY DEF Out

(* The frames 1 .. n are the frames 1 .. n - 1 and the last one.           *)
LEMMA OutLast ==
  ASSUME NEW n \in Nat, n > 0
  PROVE  Out(n) = Out(n - 1) \cup Pend(stack[n]) /\ Out(n)' = Out(n - 1)' \cup Pend(stack'[n])
<1>1. 1 .. n = (1 .. n - 1) \cup {n}
  OBVIOUS
<1>2. Pend(stack[n]) \subseteq Libs /\ Pend(stack'[n]) \subseteq Libs
  BY DEF Pend
<1>3. Out(n) = Out(n - 1) \cup Pend(stack[n])
  BY <1>1, <1>2 DEF Out
<1>4. Out(n)' = Out(n - 1)' \cup Pend(stack'[n])
  BY <1>1, <1>2 DEF Out
<1> QED  BY <1>3, <1>4

(* An ordered list is ordered for a larger set.                            *)
LEMMA OrderedMore ==
  ASSUME NEW s, NEW T, NEW U, T \cap Libs \subseteq U, Ordered(s, T)
  PROVE  Ordered(s, U)
BY EmulatedFacts DEF Ordered

(* The empty list is ordered.                                              *)
LEMMA OrderedEmpty ==
  ASSUME NEW T
  PROVE  Ordered(<< >>, T)
BY DEF Ordered

(* A list of one library, with all it needs initialised, is ordered.       *)
LEMMA OrderedOne ==
  ASSUME NEW l \in Libs, NEW T, l \notin Reach[l] => Reach[l] \cap Emulated \subseteq T
  PROVE  Ordered(<<l>>, T)
<1>1. DOMAIN <<l>> = {1} /\ <<l>>[1] = l
  OBVIOUS
<1> QED  BY <1>1 DEF Ordered

(* The rest of an ordered list is ordered once its head runs.              *)
LEMMA OrderedTail ==
  ASSUME NEW s \in Seq(Libs), s # << >>, NEW T, Ordered(s, T)
  PROVE  Ordered(Tail(s), T \cup {Head(s)})
<1>1. PICK t \in Seq(Libs) : t = Tail(s)
  BY TailFacts
<1>2. /\ Head(s) = s[1] /\ \A i \in DOMAIN t : i + 1 \in DOMAIN s /\ t[i] = s[i + 1]
      /\ DOMAIN t = 1 .. Len(t) /\ Len(t) \in Nat
  BY <1>1, TailFacts
<1>3. ASSUME NEW k \in DOMAIN t, t[k] \notin Reach[t[k]], NEW x \in Reach[t[k]] \cap Emulated
      PROVE  x \in T \cup {Head(s)} \/ \E j \in 1 .. k - 1 : t[j] = x
  <2>1. k \in Nat /\ k + 1 \in DOMAIN s /\ t[k] = s[k + 1] /\ k \in 1 .. Len(t)
    BY <1>2
  <2>2. x \in T \/ \E j \in 1 .. (k + 1) - 1 : s[j] = x
    BY <1>3, <2>1 DEF Ordered
  <2>3. ASSUME NEW j \in 1 .. (k + 1) - 1, s[j] = x, j # 1
        PROVE  \E i \in 1 .. k - 1 : t[i] = x
    <3>1. j - 1 \in 1 .. k - 1 /\ j - 1 \in DOMAIN t
      BY <1>2, <2>1, <2>3
    <3>2. t[j - 1] = s[(j - 1) + 1]
      BY <1>2, <3>1
    <3>3. (j - 1) + 1 = j
      BY <2>1
    <3> QED  BY <2>3, <3>1, <3>2, <3>3
  <2> QED  BY <1>2, <2>2, <2>3
<1>4. Ordered(t, T \cup {Head(s)})
  BY <1>3 DEF Ordered
<1> QED  BY <1>1, <1>4

(* A library is deferred behind all it needs.                              *)
LEMMA OrderedAppend ==
  ASSUME NEW s \in Seq(Libs), NEW l \in Libs, NEW T, Ordered(s, T),
         l \notin Reach[l] => Reach[l] \cap Emulated \subseteq T \cup Range(s)
  PROVE  Ordered(Append(s, l), T)
<1>1. PICK t \in Seq(Libs) : t = Append(s, l)
  BY AppendFacts
<1>2. /\ DOMAIN t = 1 .. Len(s) + 1 /\ t[Len(s) + 1] = l /\ \A i \in 1 .. Len(s) : t[i] = s[i]
      /\ DOMAIN s = 1 .. Len(s) /\ Len(s) \in Nat
  BY <1>1, AppendFacts
<1>3. ASSUME NEW k \in DOMAIN t, t[k] \notin Reach[t[k]], NEW x \in Reach[t[k]] \cap Emulated
      PROVE  x \in T \/ \E j \in 1 .. k - 1 : t[j] = x
  <2>1. CASE k = Len(s) + 1
    <3>1. x \in T \cup Range(s)
      BY <1>2, <1>3, <2>1
    <3>2. ASSUME x \in Range(s) PROVE \E j \in 1 .. k - 1 : t[j] = x
      <4>1. PICK j \in 1 .. Len(s) : s[j] = x
        BY <1>2, <3>2 DEF Range
      <4>2. j \in 1 .. k - 1
        BY <1>2, <2>1
      <4> QED  BY <1>2, <4>1, <4>2
    <3> QED  BY <3>1, <3>2
  <2>2. CASE k # Len(s) + 1
    <3>1. k \in DOMAIN s /\ k \in 1 .. Len(s) /\ t[k] = s[k]
      BY <1>2, <2>2
    <3>2. x \in T \/ \E j \in 1 .. k - 1 : s[j] = x
      BY <1>3, <3>1 DEF Ordered
    <3>3. \A j \in 1 .. k - 1 : t[j] = s[j]
      BY <1>2, <3>1
    <3> QED  BY <3>2, <3>3
  <2> QED  BY <2>1, <2>2
<1>4. Ordered(t, T)
  BY <1>3 DEF Ordered
<1> QED  BY <1>1, <1>4

(* When no call has anything left to initialise for l and for what it      *)
(* needs, all of that is relocated.                                        *)
LEMMA ReachFinal ==
  ASSUME Structure, Complete, ~failed, NEW l \in Libs, Range(Needs[l]) \subseteq Range(needed[l]),
         \A y \in Reach[l] \cup {l}, i \in DOMAIN calls, z \in Emulated :
            calls[i].me = y => ~CoversOf(needed, calls[i], z)
  PROVE  Reach[l] \cap Emulated \subseteq Final
<1> DEFINE D == {y \in Reach[l] : y \in Owned /\ (y \in Native \/ finalized[y])}
<1>1. ASSUME NEW y \in Reach[l] \cup {l}, Range(Needs[y]) \subseteq Range(needed[y])
      PROVE  Range(Needs[y]) \subseteq D
  <2>1. y \in Libs /\ y \in User /\ Range(Needs[y]) \subseteq Libs
    BY NeedsFacts, EmulatedFacts
  <2>2. Range(Needs[y]) \subseteq Reach[l]
    BY <2>1, NeedsFacts
  <2>3. Range(needed[y]) \subseteq Owned
    BY <2>1 DEF Structure, OwnedOnce
  <2>4. ASSUME NEW z \in Range(Needs[y]), z \notin Native PROVE finalized[z]
    <3>1. z \in Emulated /\ z \in Range(needed[y])
      BY <1>1, <2>1, <2>4, EmulatedFacts
    <3>2. finalized[z] \/ \E i \in DOMAIN calls : calls[i].me = y /\ Covers(i, z)
      BY <2>1, <3>1 DEF Complete
    <3> QED  BY <3>1, <3>2, CoversSplit
  <2> QED  BY <1>1, <2>2, <2>3, <2>4
<1>2. \A y \in D : Range(Needs[y]) \subseteq D
  <2>1. ASSUME NEW y \in D PROVE Range(Needs[y]) \subseteq Range(needed[y]) /\ y \in Reach[l]
    BY DEF Complete
  <2> HIDE DEF D
  <2> QED  BY <1>1, <2>1
<1>3. Range(Needs[l]) \subseteq D
  BY <1>1
<1>4. D \in SUBSET Libs /\ D \cap Emulated \subseteq Final
  BY NeedsFacts, EmulatedFacts DEF Final
<1> HIDE DEF D
<1>5. ReachIn(Needs, l) \subseteq D
  BY <1>2, <1>3, <1>4, ReachLeast
<1> QED  BY <1>4, <1>5, NeedsFacts

(* The stack and the list of deferred inits are left alone.                *)
LEMMA InitsSame ==
  ASSUME Structure, InitsOK, ~failed, UNCHANGED <<stack, defered, finalized>>, Done \subseteq Done',
         \A x \in Libs : initDone'[x] => finalized[x],
         calls' = << >> => ~deferedInit' /\ defered' = << >>
  PROVE  InitsOK'
<1>1. Final' = Final /\ Len(stack') = Len(stack) /\ Out(Len(stack))' = Out(Len(stack)) /\ \A j : Out(j)' = Out(j)
  BY DEF Final, Out
<1>2. \A j \in DOMAIN stack' : Ordered(stack'[j].todo, Done' \cup {stack'[j].running} \cup Out(j - 1)')
  <2>1. ASSUME NEW j \in DOMAIN stack
        PROVE  Ordered(stack[j].todo, Done' \cup {stack[j].running} \cup Out(j - 1))
    <3>1. Ordered(stack[j].todo, Done \cup {stack[j].running} \cup Out(j - 1))
      BY DEF InitsOK
    <3> QED  BY <3>1, OrderedMore
  <2> QED  BY <1>1, <2>1
<1>3. Ordered(defered', Done' \cup Out(Len(stack))')
  <2>1. Ordered(defered, Done \cup Out(Len(stack)))
    BY DEF InitsOK
  <2>2. Ordered(defered, Done' \cup Out(Len(stack)))
    BY <2>1, OrderedMore
  <2> QED  BY <1>1, <2>2
<1>4. /\ Final' \subseteq Done' \cup Range(defered') \cup Out(Len(stack))
      /\ Range(defered') \cup Out(Len(stack)) \subseteq Final'
      /\ \A x \in Libs : initDone'[x] => finalized'[x]
  BY <1>1 DEF InitsOK
<1> QED  BY <1>1, <1>2, <1>3, <1>4 DEF InitsOK

(* The frames below the innermost one keep their order.                    *)
LEMMA InitsBelow ==
  ASSUME InitsOK, ~failed, Done \subseteq Done', NEW j \in DOMAIN stack, j \in Nat, j > 0,
         \A i \in 1 .. j : stack'[i] = stack[i]
  PROVE  Ordered(stack'[j].todo, Done' \cup {stack'[j].running} \cup Out(j - 1)')
<1>1. j - 1 \in Nat /\ j \in 1 .. j /\ \A i \in 1 .. j - 1 : i \in 1 .. j
  OBVIOUS
<1>2. Out(j - 1)' = Out(j - 1)
  BY <1>1, OutKept
<1>3. Ordered(stack[j].todo, Done \cup {stack[j].running} \cup Out(j - 1))
  BY DEF InitsOK
<1>4. Ordered(stack[j].todo, Done' \cup {stack[j].running} \cup Out(j - 1))
  BY <1>3, OrderedMore
<1> QED  BY <1>1, <1>2, <1>4

(* The innermost frame becomes f, and nothing is deferred.                 *)
LEMMA InitsTop ==
  ASSUME Structure, InitsOK, ~failed, NEW f \in FrameSet, TopIs(f), UNCHANGED finalized, Done \subseteq Done',
         \A x \in Libs : initDone'[x] => finalized[x],
         ~deferedInit', defered' = << >>,
         Range(defered) \cup Pend(Frame1) \subseteq Done' \cup Pend(f), Pend(f) \subseteq Final,
         Ordered(f.todo, Done' \cup {f.running} \cup Out(Len(stack) - 1))
  PROVE  InitsOK'
<1>a. Len(stack) \in Nat /\ Len(stack) > 0
  BY DEF TopIs, StackIndexed
<1>1. PICK n \in Nat : n = Len(stack) /\ n > 0
  BY <1>a
<1>2. /\ DOMAIN stack = 1 .. n /\ DOMAIN stack' = 1 .. n /\ stack'[n] = f /\ Frame1 = stack[n] /\ Len(stack') = n
      /\ \A i \in 1 .. n - 1 : stack'[i] = stack[i]
  BY <1>1 DEF TopIs, StackIndexed, Frame1
<1>3. n - 1 \in Nat
  BY <1>1
<1>4. Out(n - 1)' = Out(n - 1)
  BY <1>2, <1>3, OutKept
<1>5. Out(n) = Out(n - 1) \cup Pend(Frame1) /\ Out(n)' = Out(n - 1) \cup Pend(f)
  BY <1>1, <1>2, <1>4, OutLast
<1>6. Out(Len(stack))' = Out(n)'
  BY <1>2
<1>7. \A j \in DOMAIN stack' : Ordered(stack'[j].todo, Done' \cup {stack'[j].running} \cup Out(j - 1)')
  <2>1. ASSUME NEW j \in 1 .. n
        PROVE  Ordered(stack'[j].todo, Done' \cup {stack'[j].running} \cup Out(j - 1)')
    <3>1. CASE j = n
      BY <1>1, <1>2, <1>4, <3>1
    <3>2. CASE j # n
      <4>1. j \in DOMAIN stack /\ j \in Nat /\ j > 0 /\ \A i \in 1 .. j : i \in 1 .. n - 1
        BY <1>2, <3>2
      <4> QED  BY <1>2, <4>1, InitsBelow
    <3> QED  BY <3>1, <3>2
  <2> QED  BY <1>2, <2>1 DEF Out
<1>8. Final' = Final
  BY DEF Final
<1>9. Final \subseteq Done \cup Range(defered) \cup Out(n) /\ Out(n) \subseteq Final
  BY <1>1 DEF InitsOK
<1>10. /\ Final' \subseteq Done' \cup Range(defered') \cup Out(Len(stack))'
       /\ Range(defered') \cup Out(Len(stack))' \subseteq Final'
  BY <1>5, <1>6, <1>8, <1>9, EmptyRange
<1>11. Ordered(defered', Done' \cup Out(Len(stack))')
  BY OrderedEmpty
<1> QED  BY <1>7, <1>10, <1>11 DEF InitsOK

(* The innermost frame has nothing left, and goes.                         *)
LEMMA InitsPop ==
  ASSUME Structure, InitsOK, ~failed, TopGone, Frame1.running = None, Frame1.todo = << >>,
         UNCHANGED <<finalized, initDone, finiDone, defered, deferedInit, calls>>
  PROVE  InitsOK'
<1>a. Len(stack) \in Nat /\ Len(stack) > 0
  BY DEF TopGone, StackIndexed
<1>1. PICK n \in Nat : n = Len(stack) /\ n > 0
  BY <1>a
<1>2. /\ DOMAIN stack = 1 .. n /\ DOMAIN stack' = 1 .. n - 1 /\ Frame1 = stack[n] /\ Len(stack') = n - 1
      /\ \A i \in 1 .. n - 1 : stack'[i] = stack[i]
  BY <1>1 DEF TopGone, StackIndexed, Frame1
<1>3. n - 1 \in Nat
  BY <1>1
<1>4. Out(n - 1)' = Out(n - 1)
  BY <1>2, <1>3, OutKept
<1>5. Pend(Frame1) = {}
  BY EmptyRange, EmulatedFacts DEF Pend
<1>6. Out(n) = Out(n - 1)
  BY <1>1, <1>2, <1>5, OutLast
<1>7. Out(Len(stack))' = Out(n)
  BY <1>2, <1>4, <1>6
<1>8. Done' = Done /\ Final' = Final
  BY DEF Done, Final
<1>9. \A j \in DOMAIN stack' : Ordered(stack'[j].todo, Done' \cup {stack'[j].running} \cup Out(j - 1)')
  <2>1. ASSUME NEW j \in 1 .. n - 1
        PROVE  Ordered(stack'[j].todo, Done' \cup {stack'[j].running} \cup Out(j - 1)')
    <3>1. j \in DOMAIN stack /\ j \in Nat /\ j > 0 /\ \A i \in 1 .. j : i \in 1 .. n - 1
      BY <1>2
    <3> QED  BY <1>2, <1>8, <3>1, InitsBelow
  <2> QED  BY <1>2, <2>1 DEF Out
<1> QED  BY <1>1, <1>7, <1>8, <1>9 DEF InitsOK

(* A frame f is new.                                                       *)
LEMMA InitsPush ==
  ASSUME Structure, InitsOK, ~failed, NEW f \in FrameSet, TopNew(f), Pend(f) \subseteq Final,
         Ordered(f.todo, Done \cup {f.running} \cup Out(Len(stack))),
         UNCHANGED <<finalized, initDone, finiDone, defered>>,
         calls' = << >> => ~deferedInit' /\ defered' = << >>
  PROVE  InitsOK'
<1>a. Len(stack) \in Nat
  BY DEF TopNew
<1>1. PICK n \in Nat : n = Len(stack)
  BY <1>a
<1>2. /\ DOMAIN stack = 1 .. n /\ DOMAIN stack' = 1 .. n + 1 /\ stack'[n + 1] = f /\ Len(stack') = n + 1
      /\ \A i \in 1 .. n : stack'[i] = stack[i]
  BY <1>1 DEF TopNew
<1>3. Out(n)' = Out(n)
  BY <1>2, OutKept
<1>4. Out(n + 1)' = Out(n) \cup Pend(f)
  <2>1. n + 1 \in Nat /\ n + 1 > 0 /\ (n + 1) - 1 = n
    OBVIOUS
  <2>2. PICK m \in Nat : m = n + 1 /\ m > 0 /\ m - 1 = n
    BY <2>1
  <2>3. Out(m)' = Out(m - 1)' \cup Pend(stack'[m])
    BY <2>2, OutLast
  <2> QED  BY <1>2, <1>3, <2>2, <2>3
<1>5. Out(Len(stack))' = Out(n) \cup Pend(f)
  BY <1>2, <1>4
<1>6. Done' = Done /\ Final' = Final
  BY DEF Done, Final
<1>7. \A j \in DOMAIN stack' : Ordered(stack'[j].todo, Done' \cup {stack'[j].running} \cup Out(j - 1)')
  <2>1. ASSUME NEW j \in 1 .. n + 1
        PROVE  Ordered(stack'[j].todo, Done' \cup {stack'[j].running} \cup Out(j - 1)')
    <3>1. CASE j = n + 1
      <4>1. j - 1 = n
        BY <3>1
      <4> QED  BY <1>1, <1>2, <1>3, <1>6, <3>1, <4>1
    <3>2. CASE j # n + 1
      <4>1. j \in DOMAIN stack /\ j \in Nat /\ j > 0 /\ \A i \in 1 .. j : i \in 1 .. n
        BY <1>2, <3>2
      <4> QED  BY <1>2, <1>6, <4>1, InitsBelow
    <3> QED  BY <3>1, <3>2
  <2> QED  BY <1>2, <2>1 DEF Out
<1>8. /\ Final \subseteq Done \cup Range(defered) \cup Out(n) /\ Range(defered) \cup Out(n) \subseteq Final
      /\ Ordered(defered, Done \cup Out(n))
  BY <1>1 DEF InitsOK
<1>9. Ordered(defered', Done' \cup Out(Len(stack))')
  BY <1>5, <1>6, <1>8, OrderedMore
<1>10. /\ Final' \subseteq Done' \cup Range(defered') \cup Out(Len(stack))'
       /\ Range(defered') \cup Out(Len(stack))' \subseteq Final'
  BY <1>5, <1>6, <1>8
<1>11. \A x \in Libs : initDone'[x] => finalized'[x]
  BY DEF InitsOK
<1> QED  BY <1>7, <1>9, <1>10, <1>11 DEF InitsOK

(* AddNeededLib goes on.                                                   *)
LoadsOn == \/ \E l \in Libs : \/ AddLoaded(l) \/ AddEmulated(l) \/ NewNative(l) \/ InitNative(l) \/ InitEmulated(l)
           \/ NativeReturns \/ StartInits

(* While AddNeededLib goes on nothing is initialised and no handle         *)
(* changes.                                                                *)
LEMMA LoadsOnKeeps ==
  ASSUME Structure, LoadsOn
  PROVE  /\ UNCHANGED <<finalized, initDone, finiDone, deferedInit, defered, dl, stack, exiting, reentered, failed>>
         /\ calls # << >> /\ calls' # << >>
<1>1. UNCHANGED <<finalized, initDone, finiDone, deferedInit, defered, dl, stack, exiting, reentered, failed>>
  BY DEF LoadsOn, AddLoaded, AddEmulated, NewNative, InitNative, InitEmulated, NativeReturns, StartInits, inits,
         exitVars, bounds
<1>2. TypeOK /\ OwnedOnce /\ CallsOK
  BY DEF Structure
<1>3. calls' # << >>
  <2>1. ASSUME NEW l \in Libs, AddLoaded(l) \/ AddEmulated(l) \/ NewNative(l) \/ InitNative(l) \/ InitEmulated(l)
        PROVE  calls' # << >>
    BY <1>2, <2>1, AddLoadedEffect, AddEmulatedEffect, NewNativeEffect, InitNativeEffect, InitEmulatedEffect
       DEF Replaced, Pushed
  <2>2. CASE NativeReturns \/ StartInits
    BY <1>2, <2>2, NativeReturnsEffect, StartInitsEffect DEF Replaced, Popped
  <2> QED  BY <2>1, <2>2 DEF LoadsOn
<1>4. calls # << >>
  BY <1>2, BelowFacts DEF LoadsOn, AddLoaded, AddEmulated, NewNative, InitNative, InitEmulated, NativeReturns,
     StartInits, Adds, Inits, At, CallsIndexed
<1> QED  BY <1>1, <1>3, <1>4

(* AddNeededLib is done with l.                                            *)
LEMMA InitsFinalize ==
  ASSUME Structure, Complete, InitsOK, ~failed, NeededReturns
  PROVE  InitsOK'
<1>t. TypeOK /\ OwnedOnce /\ CallsOK /\ EmulatedOnly
  BY DEF Structure
<1>1. /\ Popped(Rest(Top2)) /\ Finalize(Top1.me) /\ Top1.phase = "init" /\ Top1.todo = << >> /\ Top1.me \in Libs
      /\ UNCHANGED <<initDone, finiDone, stack>> /\ calls' # << >> /\ Top1.me \in Emulated
  BY <1>t, NeededReturnsEffect DEF NeededReturns, Popped
<1>2. PICK l \in Libs : l = Top1.me
  BY <1>1
<1>3. /\ finalized' = [finalized EXCEPT ![l] = TRUE]
      /\ defered' = IF finalized[l] \/ initDone[l] THEN defered ELSE Append(defered, l)
  BY <1>1, <1>2 DEF Finalize
<1>4. Final' = Final \cup {l} /\ Done' = Done /\ \A x \in Libs : finalized[x] => finalized'[x]
  BY <1>1, <1>3, <1>t DEF TypeOK, Final, Done
<1>5. Out(Len(stack))' = Out(Len(stack)) /\ \A j : Out(j)' = Out(j)
  BY <1>1 DEF Out
<1>6. defered \in Seq(Libs) /\ (l \in Final <=> finalized[l])
  BY <1>t DEF TypeOK, LibSeqs, Final
<1>7. /\ Final \subseteq Done \cup Range(defered) \cup Out(Len(stack))
      /\ \A x \in Libs : initDone[x] => finalized[x]
      /\ Range(defered) \cup Out(Len(stack)) \subseteq Final
      /\ Ordered(defered, Done \cup Out(Len(stack)))
      /\ \A j \in DOMAIN stack : Ordered(stack[j].todo, Done \cup {stack[j].running} \cup Out(j - 1))
  BY DEF InitsOK
<1>8. \A j \in DOMAIN stack' : Ordered(stack'[j].todo, Done' \cup {stack'[j].running} \cup Out(j - 1)')
  BY <1>1, <1>4, <1>5, <1>7
<1>9. CASE finalized[l]
  <2>1. defered' = defered /\ Final' = Final
    BY <1>3, <1>4, <1>6, <1>9
  <2> QED  BY <1>1, <1>4, <1>5, <1>7, <1>8, <2>1 DEF InitsOK
<1>10. CASE ~finalized[l]
  <2>1. defered' = Append(defered, l)
    BY <1>3, <1>7, <1>10
  <2>2. Range(defered') = Range(defered) \cup {l}
    BY <1>6, <2>1, AppendFacts
  <2>a. Len(calls) \in Nat /\ Len(calls) > 1
    BY <1>1 DEF Popped, CallsIndexed
  <2>3. PICK n \in Nat : n = Len(calls) /\ n > 1
    BY <2>a
  <2>4. DOMAIN calls = 1 .. n /\ n \in 1 .. n /\ calls[n] = Top1 /\ calls[n].me = l
    BY <1>1, <1>2, <2>3 DEF Popped, CallsIndexed, Top1
  <2>5. Range(Needs[l]) \subseteq Range(needed[l])
    <3>1. CallBody(needed, Top.lib, calls[n], n)
      BY <1>t, <2>4, BodyOf
    <3>2. PathsOf(Top.lib, l) = Range(Needs[l])
      BY EmulatedFacts DEF PathsOf
    <3> QED  BY <1>1, <1>2, <2>4, <3>1, <3>2 DEF CallBody
  <2>6. ASSUME l \notin Reach[l], NEW y \in Reach[l] \cup {l}, NEW i \in DOMAIN calls, NEW z \in Emulated,
               calls[i].me = y
        PROVE  ~CoversOf(needed, calls[i], z)
    <3>1. y \in Libs /\ y \notin {Main, None} /\ Reach[y] \subseteq Reach[l]
      BY <2>6, NeedsFacts, EmulatedFacts
    <3>2. CallBody(needed, Top.lib, calls[i], i) /\ i \in 1 .. n
      BY <1>t, <2>4, BodyOf
    <3>3. i # 1
      BY <2>6, <3>1, <3>2 DEF CallBody
    <3>4. CASE i = n
      BY <1>1, <2>4, <3>4, EmptyRange DEF CoversOf
    <3>5. CASE i # n
      <4>1. 1 < i /\ i < n
        BY <3>2, <3>3, <3>5
      <4>2. l \in Reach[y]
        BY <1>t, <2>4, <2>6, <4>1 DEF CallsOK
      <4> QED  BY <2>6, <3>1, <4>2
    <3> QED  BY <3>4, <3>5
  <2>7. l \notin Reach[l] => Reach[l] \cap Emulated \subseteq Final
    BY <2>5, <2>6, ReachFinal
  <2>8. Ordered(defered', Done \cup Out(Len(stack)))
    <3>1. l \notin Reach[l] => Reach[l] \cap Emulated \subseteq Done \cup Out(Len(stack)) \cup Range(defered)
      BY <1>7, <2>7
    <3> QED  BY <1>6, <1>7, <2>1, <3>1, OrderedAppend
  <2>9. /\ Final' \subseteq Done' \cup Range(defered') \cup Out(Len(stack))'
        /\ Range(defered') \cup Out(Len(stack))' \subseteq Final'
    BY <1>4, <1>5, <1>7, <2>2
  <2>10. \A x \in Libs : initDone'[x] => finalized'[x]
    BY <1>1, <1>4, <1>7
  <2> QED  BY <1>1, <1>4, <1>5, <1>8, <2>8, <2>9, <2>10 DEF InitsOK
<1> QED  BY <1>9, <1>10

(* Fini functions leave a library done.                                    *)
LEMMA FiniDone ==
  ASSUME TypeOK, NEW l \in Libs, Fini(l)
  PROVE  Done \subseteq Done' /\ \A x \in Libs : initDone'[x] => initDone[x]
BY DEF TypeOK, Fini, Done

(* Every step keeps InitsOK: the order of the deferred inits and what they *)
(* wait for.                                                               *)
LEMMA InitsStep ==
  ASSUME Structure, Complete, ExitOK, InitsOK, [Next]_vars
  PROVE  InitsOK'
<1>0. SUFFICES ASSUME ~failed PROVE InitsOK'
  BY FailedStays DEF InitsOK
<1>t. TypeOK /\ OwnedOnce /\ CallsOK /\ EmulatedOnly
  BY DEF Structure
<1>i. /\ calls = << >> => ~deferedInit /\ defered = << >>
      /\ \A x \in Libs : initDone[x] => finalized[x]
  BY <1>0 DEF InitsOK
<1>1. ASSUME LoadsOn PROVE InitsOK'
  <2>1. Done' = Done
    BY <1>1, LoadsOnKeeps DEF Done
  <2> QED  BY <1>0, <1>1, <1>i, <2>1, LoadsOnKeeps, InitsSame
<1>2. ASSUME NeededReturns PROVE InitsOK'
  BY <1>0, <1>2, InitsFinalize
<1>3. ASSUME LoadReturns PROVE InitsOK'
  <2>1. PICK f \in FrameSet : /\ TopIs(f) /\ f.todo = defered /\ f.running = None
    BY <1>3, <1>t, LoadReturnsEffect
  <2>2. /\ calls # << >> /\ defered' = << >> /\ deferedInit' = FALSE
        /\ UNCHANGED <<finalized, initDone, finiDone>>
    BY <1>3 DEF LoadReturns, At
  <2>3. Done' = Done
    BY <2>2 DEF Done
  <2>4. Frame1.running = None /\ Frame1.todo = << >>
    BY <1>t, <2>1, <2>2, StackFacts DEF CallsOK
  <2>5. Pend(Frame1) = {} /\ Pend(f) = Range(defered)
    <3>1. Range(defered) \subseteq Libs
      BY <1>t, RangeFacts DEF TypeOK, LibSeqs
    <3> QED  BY <2>1, <2>4, <3>1, EmptyRange, EmulatedFacts DEF Pend
  <2>6. Range(defered) \subseteq Final
    BY <1>0 DEF InitsOK
  <2>7. Out(Len(stack)) = Out(Len(stack) - 1)
    <3>1. Len(stack) \in Nat /\ Len(stack) > 0
      BY <2>1 DEF TopIs, StackIndexed
    <3>2. PICK n \in Nat : n = Len(stack) /\ n > 0
      BY <3>1
    <3> QED  BY <2>5, <3>2, OutLast DEF Frame1
  <2>8. Ordered(f.todo, Done' \cup {f.running} \cup Out(Len(stack) - 1))
    <3>1. Ordered(defered, Done \cup Out(Len(stack)))
      BY <1>0 DEF InitsOK
    <3> QED  BY <2>1, <2>3, <2>7, <3>1, OrderedMore
  <2> QED  BY <1>0, <1>i, <2>1, <2>2, <2>3, <2>5, <2>6, <2>8, InitsTop
<1>4. ASSUME RunElfInit PROVE InitsOK'
  <2>1. calls = << >> /\ ~deferedInit /\ defered = << >> /\ UNCHANGED <<finalized, initDone, finiDone, deferedInit>>
    BY <1>4, <1>i DEF RunElfInit
  <2>2. PICK f \in FrameSet, h \in Emulated :
            /\ TopIs(f) /\ SameFrame(f, Frame1) /\ Frame1.todo # << >> /\ Frame1.running = None
            /\ Frame1.todo \in Seq(Libs)
            /\ h = Head(Frame1.todo) /\ f.todo = Tail(Frame1.todo) /\ h \in Libs
            /\ f.running = IF ~initDone[h] /\ ~deferedInit THEN h ELSE None
            /\ defered' = IF ~initDone[h] /\ deferedInit THEN Append(defered, h) ELSE defered
    BY <1>4, <1>t, RunElfInitEffect
  <2>3. f.running = (IF ~initDone[h] THEN h ELSE None) /\ defered' = << >>
    BY <2>1, <2>2
  <2>4. PICK s \in Seq(Libs) : s = Frame1.todo
    BY <2>2
  <2>5. Range(s) = Range(f.todo) \cup {h} /\ f.todo = Tail(s) /\ h = Head(s) /\ s # << >>
    BY <2>2, <2>4, TailFacts
  <2>6. Done' = Done /\ (initDone[h] => h \in Done)
    BY <2>1, <2>2 DEF Done
  <2>7. Pend(Frame1) \subseteq Range(s) /\ Range(s) \cap Libs \subseteq Pend(Frame1)
    BY <2>2, <2>4, EmulatedFacts DEF Pend
  <2>8. Pend(Frame1) \subseteq Final
    <3>1. Len(stack) \in Nat /\ Len(stack) > 0
      BY <2>2 DEF TopIs, StackIndexed
    <3>2. PICK n \in Nat : n = Len(stack) /\ n > 0
      BY <3>1
    <3>3. Out(n) \subseteq Final
      BY <1>0, <3>2 DEF InitsOK
    <3> QED  BY <3>2, <3>3, OutLast DEF Frame1
  <2>9. Pend(f) \subseteq Pend(Frame1)
    BY <2>2, <2>3, <2>5, <2>7, EmulatedFacts DEF Pend
  <2>10. Pend(Frame1) \subseteq Done \cup Pend(f)
    <3>1. Pend(Frame1) \subseteq Libs /\ Range(f.todo) \cap Libs \subseteq Pend(f)
      BY DEF Pend
    <3>2. h \in Done \cup Pend(f)
      BY <2>2, <2>3, <2>6 DEF Pend
    <3> QED  BY <2>5, <2>7, <3>1, <3>2
  <2>11. Ordered(f.todo, Done' \cup {f.running} \cup Out(Len(stack) - 1))
    <3>1. Len(stack) \in DOMAIN stack
      BY <2>2 DEF TopIs, StackIndexed
    <3>2. Ordered(s, Done \cup {None} \cup Out(Len(stack) - 1))
      BY <1>0, <2>2, <2>4, <3>1 DEF InitsOK, Frame1
    <3>3. Ordered(f.todo, (Done \cup {None} \cup Out(Len(stack) - 1)) \cup {h})
      BY <2>5, <3>2, OrderedTail
    <3> QED  BY <2>2, <2>3, <2>6, <3>3, OrderedMore, EmulatedFacts
  <2> QED  BY <1>0, <1>i, <2>1, <2>2, <2>3, <2>6, <2>8, <2>9, <2>10, <2>11, EmptyRange, InitsTop
<1>5. ASSUME InitReturns PROVE InitsOK'
  <2>1. calls = << >> /\ ~deferedInit /\ defered = << >> /\ UNCHANGED <<finalized, deferedInit, defered>>
    BY <1>5, <1>i DEF InitReturns, Guest
  <2>2. PICK f \in FrameSet, r \in Emulated :
            /\ TopIs(f) /\ SameFrame(f, Frame1) /\ f.todo = Frame1.todo /\ f.running = None
            /\ Frame1.running = r /\ r \in Libs /\ r # None
            /\ initDone' = [initDone EXCEPT ![r] = TRUE]
            /\ finiDone' = [finiDone EXCEPT ![r] = FALSE]
    BY <1>5, <1>t, InitReturnsEffect
  <2>3. Done' = Done \cup {r} /\ \A x \in Libs : initDone'[x] => initDone[x] \/ x = r
    BY <1>t, <2>2 DEF TypeOK, Done
  <2>4. Pend(Frame1) = Pend(f) \cup {r}
    BY <2>2, EmulatedFacts DEF Pend
  <2>5. Pend(Frame1) \subseteq Final
    <3>1. Len(stack) \in Nat /\ Len(stack) > 0
      BY <2>2 DEF TopIs, StackIndexed
    <3>2. PICK n \in Nat : n = Len(stack) /\ n > 0
      BY <3>1
    <3>3. Out(n) \subseteq Final
      BY <1>0, <3>2 DEF InitsOK
    <3> QED  BY <3>2, <3>3, OutLast DEF Frame1
  <2>6. Ordered(f.todo, Done' \cup {f.running} \cup Out(Len(stack) - 1))
    <3>1. Len(stack) \in DOMAIN stack
      BY <2>2 DEF TopIs, StackIndexed
    <3>2. Ordered(f.todo, Done \cup {r} \cup Out(Len(stack) - 1))
      BY <1>0, <2>2, <3>1 DEF InitsOK, Frame1
    <3> QED  BY <2>3, <3>2, OrderedMore
  <2>7. \A x \in Libs : initDone'[x] => finalized[x]
    BY <1>i, <2>3, <2>4, <2>5 DEF Final
  <2> QED  BY <1>0, <2>1, <2>2, <2>3, <2>4, <2>5, <2>6, <2>7, EmptyRange, InitsTop
<1>6. ASSUME OpenReturns PROVE InitsOK'
  <2>1. TopGone /\ Frame1.running = None /\ Frame1.todo = << >>
    BY <1>6, <1>t, OpenReturnsEffect
  <2>2. UNCHANGED <<finalized, initDone, finiDone, defered, deferedInit, calls>>
    BY <1>6 DEF OpenReturns, inits
  <2> QED  BY <1>0, <2>1, <2>2, InitsPop
<1>7. ASSUME NEW l \in Libs, Reopen(l) PROVE InitsOK'
  <2>1. /\ calls = << >> /\ UNCHANGED <<finalized, initDone, finiDone, defered, deferedInit, calls>>
    BY <1>7 DEF Reopen, Guest, inits
  <2>2. CASE ReopenReloads(l)
    <3>1. PICK i \in DOMAIN dl, f \in FrameSet :
            /\ dl[i].lib = l /\ l \in Emulated /\ TopNew(f) /\ f.todo = <<l>> /\ f.running = None
      BY <2>2 DEF ReopenReloads
    <3>2. l \in Owned
      BY <1>t, <3>1 DEF OwnedOnce
    <3>3. \A k \in DOMAIN calls : FALSE
      BY <2>1
    <3>4. finalized[l] /\ Range(Needs[l]) \subseteq Range(needed[l])
      BY <1>0, <3>1, <3>2, <3>3 DEF Complete
    <3>5. Reach[l] \cap Emulated \subseteq Final
      BY <1>0, <3>3, <3>4, ReachFinal
    <3>6. Final \subseteq Done \cup Out(Len(stack))
      BY <1>0, <1>i, <2>1, EmptyRange DEF InitsOK
    <3>7. Pend(f) \subseteq Final
      <4>1. Range(<<l>>) = {l}
        BY DEF Range
      <4> QED  BY <3>1, <3>4, <4>1, EmulatedFacts DEF Pend, Final
    <3>8. Ordered(f.todo, Done \cup {f.running} \cup Out(Len(stack)))
      BY <3>1, <3>5, <3>6, OrderedOne
    <3> QED  BY <1>0, <1>i, <2>1, <3>1, <3>7, <3>8, InitsPush
  <2>3. CASE ReopenCounts(l)
    <3>1. Done' = Done /\ UNCHANGED stack
      BY <2>1, <2>3 DEF Done, ReopenCounts
    <3> QED  BY <1>0, <1>i, <2>1, <3>1, InitsSame
  <2> QED  BY <1>7, <1>t, <2>2, <2>3, ReopenEffect
<1>8. ASSUME NEW l \in Libs, NEW local \in BOOLEAN, Dlopen(l, local) PROVE InitsOK'
  <2>1. /\ TopNew(Frame(l, << >>, l \notin Owned, 0))
        /\ LET f == Frame(l, << >>, l \notin Owned, 0) IN f.todo = << >> /\ f.running = None
    BY <1>8, <1>t, DlopenEffect
  <2>2. PICK f \in FrameSet : TopNew(f) /\ f.todo = << >> /\ f.running = None
    BY <2>1 DEF TopNew
  <2>3. calls' # << >> /\ UNCHANGED <<finalized, initDone, finiDone, defered>>
    BY <1>8 DEF Dlopen
  <2>4. Pend(f) = {}
    BY <2>2, EmptyRange, EmulatedFacts DEF Pend
  <2>5. Ordered(f.todo, Done \cup {f.running} \cup Out(Len(stack)))
    BY <2>2, OrderedEmpty
  <2> QED  BY <1>0, <2>2, <2>3, <2>4, <2>5, InitsPush
<1>9. ASSUME NEW i \in DOMAIN dl, Dlclose(i) PROVE InitsOK'
  <2>1. dl[i].lib \in Libs
    BY <1>t, DlFacts
  <2>2. PICK l \in Libs : l = dl[i].lib
    BY <2>1
  <2>3. Fini(l) \/ UNCHANGED <<initDone, finiDone>>
    BY <1>9, <2>2 DEF Dlclose
  <2>4. Done \subseteq Done' /\ \A x \in Libs : initDone'[x] => initDone[x]
    BY <1>t, <2>3, FiniDone DEF Done
  <2>5. UNCHANGED <<stack, defered, finalized, calls, deferedInit>>
    BY <1>9 DEF Dlclose
  <2> QED  BY <1>0, <1>i, <2>4, <2>5, InitsSame
<1>10. ASSUME Free1Library PROVE InitsOK'
  <2>1. Last(frees).lib \in Libs
    BY <1>10, LastFree DEF Free1Library
  <2>2. PICK l \in Libs : l = Last(frees).lib
    BY <2>1
  <2>3. Fini(l) \/ UNCHANGED <<initDone, finiDone>>
    BY <1>10, <2>2 DEF Free1Library
  <2>4. Done \subseteq Done' /\ \A x \in Libs : initDone'[x] => initDone[x]
    BY <1>t, <2>3, FiniDone DEF Done
  <2>5. UNCHANGED <<stack, defered, finalized, calls, deferedInit>>
    BY <1>10 DEF Free1Library, freeing
  <2> QED  BY <1>0, <1>i, <2>4, <2>5, InitsSame
<1>11. ASSUME Exit \/ FreeNext \/ FreeMapDone \/ FreeDepended \/ UNCHANGED vars PROVE InitsOK'
  <2>1. UNCHANGED <<stack, defered, finalized, calls, deferedInit, initDone, finiDone>>
    BY <1>11 DEF Exit, FreeNext, FreeMapDone, FreeDepended, freeing, inits, vars
  <2>2. Done' = Done
    BY <2>1 DEF Done
  <2> QED  BY <1>0, <1>i, <2>1, <2>2, InitsSame
<1>12. ASSUME NEW l \in Libs, AddFails(l) PROVE InitsOK'
  BY <1>12 DEF AddFails, InitsOK
<1> QED  BY <1>0, <1>1, <1>2, <1>3, <1>4, <1>5, <1>6, <1>7, <1>8, <1>9, <1>10, <1>11, <1>12, NoFailure
         DEF Next, Loading, LoadsOn

-----------------------------------------------------------------------------
(* A dlopen begins while an init function, or the program, runs.           *)

(* A step changes the innermost dlopen, ends it, or begins another one     *)
(* from guest code.                                                        *)
LEMMA StackChange ==
  ASSUME Structure, [Next]_vars
  PROVE  \/ UNCHANGED stack
         \/ \E f \in FrameSet : TopIs(f) /\ SameFrame(f, Frame1)
         \/ TopGone
         \/ Guest /\ \E f \in FrameSet : TopNew(f)
<1>t. TypeOK /\ OwnedOnce /\ CallsOK /\ EmulatedOnly
  BY DEF Structure
<1>1. CASE LoadReturns \/ RunElfInit \/ InitReturns
  BY <1>1, <1>t, LoadReturnsEffect, RunElfInitEffect, InitReturnsEffect
<1>2. CASE LoadFails \/ OpenReturns
  BY <1>2, <1>t, PopEffect, OpenReturnsEffect DEF LoadFails, At, CallsOK
<1>3. ASSUME NEW l \in Libs, Reopen(l)
      PROVE  UNCHANGED stack \/ (Guest /\ \E f \in FrameSet : TopNew(f))
  BY <1>3, <1>t, ReopenEffect DEF ReopenReloads, ReopenCounts, Reopen
<1>4. ASSUME NEW l \in Libs, NEW local \in BOOLEAN, Dlopen(l, local)
      PROVE  Guest /\ \E f \in FrameSet : TopNew(f)
  BY <1>4, <1>t, DlopenEffect DEF Dlopen, TopNew
<1>5. ASSUME \/ LoadsOn \/ (\E l \in Libs : AddFails(l)) \/ NeededReturns \/ NeededFails
             \/ (\E i \in DOMAIN dl : Dlclose(i)) \/ Exit \/ FreeNext \/ FreeMapDone \/ FreeDepended \/ Free1Library
             \/ UNCHANGED vars
      PROVE  UNCHANGED stack
  BY <1>5, LoadsOnKeeps DEF AddFails, NeededReturns, NeededFails, Dlclose, Exit, FreeNext, FreeMapDone, FreeDepended,
     Free1Library, freeing, vars
<1> QED  BY <1>1, <1>2, <1>3, <1>4, <1>5 DEF Next, Loading, LoadsOn

(* Every step keeps Waiting: a dlopen begins only in a running init        *)
(* function.                                                               *)
LEMMA WaitingStep ==
  ASSUME Structure, Waiting, [Next]_vars
  PROVE  Waiting'
<1>t. TypeOK
  BY DEF Structure
<1>1. CASE UNCHANGED stack
  BY <1>1 DEF Waiting
<1>2. ASSUME NEW f \in FrameSet, TopIs(f) PROVE Waiting'
  <2>1. ASSUME NEW j \in DOMAIN stack', j < Len(stack') PROVE stack'[j].running # None
    <3>1. j \in DOMAIN stack /\ j < Len(stack) /\ stack'[j] = stack[j]
      BY <1>2, <2>1 DEF TopIs, StackIndexed
    <3> QED  BY <3>1 DEF Waiting
  <2> QED  BY <2>1 DEF Waiting
<1>3. ASSUME TopGone PROVE Waiting'
  <2>1. ASSUME NEW j \in DOMAIN stack', j < Len(stack') PROVE stack'[j].running # None
    <3>1. j \in DOMAIN stack /\ j < Len(stack) /\ stack'[j] = stack[j]
      BY <1>3, <2>1 DEF TopGone, StackIndexed
    <3> QED  BY <3>1 DEF Waiting
  <2> QED  BY <2>1 DEF Waiting
<1>4. ASSUME NEW f \in FrameSet, TopNew(f), Guest PROVE Waiting'
  <2>1. ASSUME NEW j \in DOMAIN stack', j < Len(stack') PROVE stack'[j].running # None
    <3>1. j \in DOMAIN stack /\ stack'[j] = stack[j] /\ (j < Len(stack) \/ j = Len(stack))
      BY <1>4, <2>1 DEF TopNew
    <3>2. CASE j < Len(stack)
      BY <3>1, <3>2 DEF Waiting
    <3>3. CASE j = Len(stack)
      <4>1. stack # << >>
        BY <3>1
      <4>2. Top = stack[j]
        BY <1>t, <3>3, <4>1, TopFacts DEF TypeOK
      <4> QED  BY <1>4, <3>1, <4>1, <4>2 DEF Guest
    <3> QED  BY <3>1, <3>2, <3>3
  <2> QED  BY <2>1 DEF Waiting
<1> QED  BY <1>1, <1>2, <1>3, <1>4, StackChange

(* A library has one handle of the dlopen that loaded it.                  *)
SameHandles == /\ DOMAIN dl' = DOMAIN dl
               /\ \A i \in DOMAIN dl : dl'[i].lib = dl[i].lib /\ dl'[i].dlopened = dl[i].dlopened

(* OneDlopened when neither the handles nor the frames change.             *)
LEMMA OneDlopenedSame ==
  ASSUME OneDlopened, SameHandles, UNCHANGED stack
  PROVE  OneDlopened'
BY DEF OneDlopened, SameHandles, NewFrame

(* Every step keeps OneDlopened: dlopen marks a library as dlopened only   *)
(* if it was in no list before.                                            *)
LEMMA OneDlopenedStep ==
  ASSUME Structure, OneDlopened, [Next]_vars
  PROVE  OneDlopened'
<1>t. TypeOK /\ OwnedOnce /\ CallsOK /\ EmulatedOnly
  BY DEF Structure
<1>1. ASSUME NEW f \in FrameSet, TopIs(f), SameFrame(f, Frame1), UNCHANGED dl PROVE OneDlopened'
  <2>1. DOMAIN stack' = DOMAIN stack
    BY <1>1 DEF TopIs, StackIndexed
  <2>2. ASSUME NEW j \in DOMAIN stack
        PROVE  /\ stack'[j].lib = stack[j].lib /\ stack'[j].handle = stack[j].handle
               /\ stack'[j].dlopened = stack[j].dlopened
    <3>1. CASE j = Len(stack)
      BY <1>1, <3>1 DEF TopIs, SameFrame, Frame1
    <3>2. CASE j # Len(stack)
      <4>1. stack'[j] = stack[j]
        BY <1>1, <3>2 DEF TopIs, StackIndexed
      <4> QED  BY <4>1
    <3> QED  BY <3>1, <3>2
  <2>3. \A j \in DOMAIN stack' : (NewFrame(j)' <=> NewFrame(j)) /\ stack'[j].lib = stack[j].lib
    BY <2>1, <2>2 DEF NewFrame
  <2> QED  BY <1>1, <2>1, <2>3 DEF OneDlopened
<1>2. ASSUME LoadReturns \/ RunElfInit \/ InitReturns PROVE OneDlopened'
  <2>1. UNCHANGED dl
    BY <1>2 DEF LoadReturns, RunElfInit, InitReturns
  <2> QED  BY <1>1, <1>2, <1>t, <2>1, LoadReturnsEffect, RunElfInitEffect, InitReturnsEffect
<1>3. ASSUME TopGone, SameHandles PROVE OneDlopened'
  <2>1. \A j \in DOMAIN stack' : j \in DOMAIN stack /\ stack'[j] = stack[j]
    BY <1>3 DEF TopGone, StackIndexed
  <2>2. \A j \in DOMAIN stack' : j \in DOMAIN stack /\ (NewFrame(j)' <=> NewFrame(j)) /\ stack'[j].lib = stack[j].lib
    BY <2>1 DEF NewFrame
  <2> QED  BY <1>3, <2>2 DEF OneDlopened, SameHandles
<1>4. ASSUME LoadFails PROVE OneDlopened'
  <2>1. TopGone
    BY <1>4, <1>t, PopEffect DEF LoadFails, At, CallsOK
  <2>2. SameHandles
    BY <1>4 DEF LoadFails, SameHandles
  <2> QED  BY <1>3, <2>1, <2>2
<1>5. ASSUME OpenReturns PROVE OneDlopened'
  <2>1. TopGone /\ (OpenCounts \/ OpenAdds \/ OpenMain)
    BY <1>5, <1>t, OpenReturnsEffect
  <2>2. CASE OpenCounts \/ OpenMain
    <3>1. SameHandles
      BY <2>2 DEF OpenCounts, OpenMain, Counted, SameHandles
    <3> QED  BY <1>3, <2>1, <3>1
  <2>3. CASE OpenAdds
    <3>a. Len(dl) \in Nat
      BY <2>3 DEF OpenAdds
    <3>1. PICK m : m = Len(dl) + 1
      OBVIOUS
    <3>2. /\ DOMAIN dl' = DOMAIN dl \cup {m} /\ m \notin DOMAIN dl
      BY <2>3, <3>a, <3>1 DEF OpenAdds
    <3>3. /\ \A i \in DOMAIN dl : dl'[i] = dl[i]
          /\ dl'[m].lib = Frame1.lib /\ dl'[m].dlopened = Frame1.dlopened /\ Frame1.handle = 0
      BY <2>3, <3>1 DEF OpenAdds
    <3>4. Len(stack) \in DOMAIN stack /\ (Frame1.dlopened => NewFrame(Len(stack)))
      BY <2>1, <3>3 DEF TopGone, StackIndexed, NewFrame, Frame1
    <3>5. \A i \in DOMAIN dl : dl[i].dlopened /\ Frame1.dlopened => dl[i].lib # Frame1.lib
      BY <3>4 DEF OneDlopened, Frame1
    <3>6. \A j \in DOMAIN stack' : /\ j \in DOMAIN stack /\ (NewFrame(j)' <=> NewFrame(j)) /\ stack'[j].lib = stack[j].lib
                                   /\ j # Len(stack)
      <4>1. \A j \in DOMAIN stack' : j \in DOMAIN stack /\ stack'[j] = stack[j] /\ j # Len(stack)
        BY <2>1 DEF TopGone, StackIndexed
      <4> QED  BY <4>1 DEF NewFrame
    <3>7. \A j \in DOMAIN stack' : NewFrame(j)' /\ Frame1.dlopened => stack'[j].lib # Frame1.lib
      BY <3>4, <3>6 DEF OneDlopened, Frame1
    <3>8. \A i, j \in DOMAIN dl' : dl'[i].dlopened /\ dl'[j].dlopened /\ dl'[i].lib = dl'[j].lib => i = j
      BY <3>2, <3>3, <3>5 DEF OneDlopened
    <3>9. \A i \in DOMAIN dl', j \in DOMAIN stack' : dl'[i].dlopened /\ NewFrame(j)' => dl'[i].lib # stack'[j].lib
      BY <3>2, <3>3, <3>6, <3>7 DEF OneDlopened
    <3>10. \A i, j \in DOMAIN stack' : NewFrame(i)' /\ NewFrame(j)' /\ stack'[i].lib = stack'[j].lib => i = j
      BY <3>6 DEF OneDlopened
    <3> QED  BY <3>8, <3>9, <3>10 DEF OneDlopened
  <2> QED  BY <2>1, <2>2, <2>3
<1>6. ASSUME NEW f \in FrameSet, TopNew(f), UNCHANGED dl,
             f.handle = 0 /\ f.dlopened =>
               /\ \A i \in DOMAIN dl : dl[i].lib # f.lib
               /\ \A j \in DOMAIN stack : stack[j].lib # f.lib
      PROVE  OneDlopened'
  <2>1. PICK m : m = Len(stack) + 1
    OBVIOUS
  <2>2. /\ DOMAIN stack' = DOMAIN stack \cup {m} /\ m \notin DOMAIN stack /\ stack'[m] = f
        /\ \A i \in DOMAIN stack : stack'[i] = stack[i]
    BY <1>6, <2>1 DEF TopNew
  <2>3. /\ \A j \in DOMAIN stack : (NewFrame(j)' <=> NewFrame(j)) /\ stack'[j].lib = stack[j].lib
        /\ NewFrame(m)' => f.handle = 0 /\ f.dlopened
    BY <2>2 DEF NewFrame
  <2>4. \A i \in DOMAIN dl', j \in DOMAIN stack' : dl'[i].dlopened /\ NewFrame(j)' => dl'[i].lib # stack'[j].lib
    BY <1>6, <2>2, <2>3 DEF OneDlopened
  <2>5. \A i, j \in DOMAIN stack' : NewFrame(i)' /\ NewFrame(j)' /\ stack'[i].lib = stack'[j].lib => i = j
    BY <1>6, <2>2, <2>3 DEF OneDlopened
  <2> QED  BY <1>6, <2>4, <2>5 DEF OneDlopened
<1>7. ASSUME NEW l \in Libs, Reopen(l) PROVE OneDlopened'
  <2>1. CASE ReopenReloads(l)
    <3>1. PICK f \in FrameSet : TopNew(f) /\ f.handle \in Nat /\ f.handle > 0 /\ UNCHANGED dl
      BY <2>1 DEF ReopenReloads
    <3>2. f.handle # 0
      BY <3>1
    <3> QED  BY <1>6, <3>1, <3>2
  <2>2. CASE ReopenCounts(l)
    <3>1. SameHandles /\ UNCHANGED stack
      BY <2>2 DEF ReopenCounts, Counted, SameHandles
    <3> QED  BY <3>1, OneDlopenedSame
  <2> QED  BY <1>7, <1>t, <2>1, <2>2, ReopenEffect
<1>8. ASSUME NEW l \in Libs, NEW local \in BOOLEAN, Dlopen(l, local) PROVE OneDlopened'
  <2> DEFINE f == Frame(l, << >>, l \notin Owned, 0)
  <2>1. TopNew(f) /\ f.lib = l /\ f.dlopened = (l \notin Owned) /\ f.handle = 0 /\ calls = << >> /\ UNCHANGED dl
    BY <1>8, <1>t, DlopenEffect DEF Dlopen
  <2> HIDE DEF f
  <2>2. l \notin Owned => /\ \A i \in DOMAIN dl : dl[i].lib # l
                          /\ \A j \in DOMAIN stack : stack[j].lib # l
    <3>1. \A i \in DOMAIN dl : dl[i].lib \in Owned
      BY <1>t DEF OwnedOnce
    <3>2. \A j \in DOMAIN stack : stack[j].lib \in Owned \cup {Main}
      BY <2>1 DEF Structure, FramesOK
    <3> QED  BY <3>1, <3>2, EmulatedFacts
  <2> QED  BY <1>6, <2>1, <2>2 DEF TopNew
<1>9. ASSUME NEW i \in DOMAIN dl, Dlclose(i) PROVE OneDlopened'
  <2>1. SameHandles /\ UNCHANGED stack
    BY <1>9, <1>t, DlcloseEffect DEF Counted, SameHandles, Dlclose
  <2> QED  BY <2>1, OneDlopenedSame
<1>10. ASSUME \/ LoadsOn \/ (\E l \in Libs : AddFails(l)) \/ NeededReturns \/ NeededFails
              \/ Exit \/ FreeNext \/ FreeMapDone \/ FreeDepended \/ Free1Library \/ UNCHANGED vars
       PROVE  OneDlopened'
  <2>1. UNCHANGED <<dl, stack>>
    BY <1>10, LoadsOnKeeps DEF AddFails, NeededReturns, NeededFails, Exit, FreeNext, FreeMapDone, FreeDepended,
       Free1Library, freeing, vars
  <2>2. SameHandles
    BY <2>1 DEF SameHandles
  <2> QED  BY <2>1, <2>2, OneDlopenedSame
<1> QED  BY <1>2, <1>4, <1>5, <1>7, <1>8, <1>9, <1>10 DEF Next, Loading, LoadsOn

-----------------------------------------------------------------------------
(* Fini functions run when the last handle is closed, and at exit.         *)

(* The exit is not taken back.                                             *)
LEMMA ExitingStays ==
  ASSUME Structure, ExitOK, [Next]_vars
  PROVE  /\ exiting => exiting'
         /\ Exit \/ FreeNext \/ FreeMapDone \/ FreeDepended \/ Free1Library => exiting'
<1>1. exiting => exiting'
  BY DEF Next, Loading, AddLoaded, AddEmulated, NewNative, AddFails, InitNative, InitEmulated, NativeReturns,
       StartInits, NeededReturns, NeededFails, LoadReturns, LoadFails, RunElfInit, InitReturns, OpenReturns,
       Reopen, Dlopen, Dlclose, Exit, FreeNext, FreeMapDone, FreeDepended, Free1Library, freeing, exitVars, vars
<1>2. ASSUME FreeDepended \/ Free1Library PROVE exiting
  BY <1>2, LastFree DEF FreeDepended, Free1Library
<1>3. ASSUME Exit \/ FreeNext \/ FreeMapDone PROVE exiting'
  BY <1>3 DEF Exit, FreeNext, FreeMapDone, freeing
<1> QED  BY <1>1, <1>2, <1>3

(* RunElfFini takes the init of the library back.                          *)
LEMMA FiniUndone ==
  ASSUME TypeOK, FiniUndoes, NEW l \in Emulated, Fini(l)
  PROVE  FiniUndoes'
BY EmulatedFacts DEF TypeOK, Fini, FiniUndoes

(* The init and fini functions run in no other step.                       *)
LEMMA InitsKept ==
  ASSUME Structure, [Next]_vars, ~InitReturns, ~(\E i \in DOMAIN dl : Dlclose(i)), ~Free1Library
  PROVE  UNCHANGED <<initDone, finiDone>>
BY LoadsOnKeeps DEF Next, Loading, LoadsOn, AddFails, NeededReturns, NeededFails, LoadReturns, LoadFails, RunElfInit,
     OpenReturns, Reopen, Dlopen, Exit, FreeNext, FreeMapDone, FreeDepended, inits, vars

(* Every step keeps FiniUndoes.                                            *)
LEMMA FiniUndoesStep ==
  ASSUME Structure, ExitOK, FiniUndoes, [Next]_vars
  PROVE  FiniUndoes'
<1>t. TypeOK
  BY DEF Structure
<1>1. ASSUME UNCHANGED <<initDone, finiDone>> PROVE FiniUndoes'
  BY <1>1 DEF FiniUndoes
<1>2. ASSUME InitReturns PROVE FiniUndoes'
  <2>1. PICK r \in Emulated : /\ initDone' = [initDone EXCEPT ![r] = TRUE]
                              /\ finiDone' = [finiDone EXCEPT ![r] = FALSE]
    BY <1>2, <1>t, InitReturnsEffect
  <2> QED  BY <1>t, <2>1, EmulatedFacts DEF TypeOK, FiniUndoes
<1>3. ASSUME NEW i \in DOMAIN dl, Dlclose(i) PROVE FiniUndoes'
  <2>1. CASE dl[i].lib \in Emulated /\ Fini(dl[i].lib)
    BY <1>t, <2>1, FiniUndone
  <2> QED  BY <1>1, <1>3, <2>1 DEF Dlclose
<1>4. ASSUME Free1Library PROVE FiniUndoes'
  <2>1. CASE Last(frees).lib \in Emulated /\ Fini(Last(frees).lib)
    BY <1>t, <2>1, FiniUndone
  <2> QED  BY <1>1, <1>4, <2>1 DEF Free1Library
<1> QED  BY <1>1, <1>2, <1>3, <1>4, InitsKept

(* The handles change in these steps only.                                 *)
LEMMA HandlesKept ==
  ASSUME Structure, [Next]_vars, ~OpenReturns, ~(\E l \in Libs : Reopen(l)), ~(\E i \in DOMAIN dl : Dlclose(i))
  PROVE  UNCHANGED dl
BY LoadsOnKeeps DEF Next, Loading, LoadsOn, AddFails, NeededReturns, NeededFails, LoadReturns, LoadFails, RunElfInit,
     InitReturns, Dlopen, Exit, FreeNext, FreeMapDone, FreeDepended, Free1Library, freeing, vars

(* The library of a dlopen that returns has been initialised.              *)
LEMMA ReturnsInited ==
  ASSUME Structure, FiniOK, ~failed, OpenReturns, Frame1.dlopened \/ Frame1.handle > 0, Frame1.lib \in Emulated
  PROVE  initDone[Frame1.lib] /\ ~finiDone[Frame1.lib]
<1>t. TypeOK
  BY DEF Structure
<1>1. TopGone /\ Frame1.running = None /\ Frame1.todo = << >> /\ calls = << >>
  BY <1>t, OpenReturnsEffect DEF OpenReturns
<1>2. Len(stack) \in DOMAIN stack
  BY <1>1 DEF TopGone, StackIndexed
<1>3. Pend(Frame1) = {}
  BY <1>1, EmptyRange, EmulatedFacts DEF Pend
<1>4. initDone[Frame1.lib]
  BY <1>1, <1>2, <1>3 DEF FiniOK, FramesInited, Frame1
<1> QED  BY <1>4, EmulatedFacts DEF FiniOK, FiniUndoes

(* A closed library stays closed unless its handle is counted.             *)
LEMMA ClosedKept ==
  ASSUME NEW x, Closed(x), DOMAIN dl \subseteq DOMAIN dl',
         \A i \in DOMAIN dl : dl[i].lib = x /\ dl[i].dlopened /\ dl[i].count = 0 => dl'[i] = dl[i]
  PROVE  Closed(x)'
BY DEF Closed

(* Every step keeps FiniCloses: before exit, only dlclose of the last      *)
(* count runs fini functions.                                              *)
LEMMA FiniClosesStep ==
  ASSUME Structure, ExitOK, FiniOK, [Next]_vars
  PROVE  FiniCloses'
<1>t. TypeOK /\ EmulatedOnly
  BY DEF Structure
<1>0. SUFFICES ASSUME ~failed, ~failed', ~exiting' PROVE \A x \in Libs : finiDone'[x] => Closed(x)'
  BY FailedStays DEF FiniCloses
<1>1. ~exiting /\ ~(Exit \/ FreeNext \/ FreeMapDone \/ FreeDepended \/ Free1Library)
  BY <1>0, ExitingStays
<1>2. \A x \in Libs : finiDone[x] => Closed(x) /\ x \in Emulated
  BY <1>0, <1>1 DEF FiniOK, FiniCloses, FiniUndoes
<1>3. ASSUME ~OpenReturns, ~(\E l \in Libs : Reopen(l)), ~(\E i \in DOMAIN dl : Dlclose(i))
      PROVE  \A x \in Libs : finiDone'[x] => Closed(x)'
  <2>1. UNCHANGED dl
    BY <1>3, HandlesKept
  <2>2. \A x \in Libs : finiDone'[x] => finiDone[x]
    <3>1. CASE InitReturns
      BY <1>t, <3>1, InitReturnsEffect DEF TypeOK
    <3>2. CASE ~InitReturns
      BY <1>1, <1>3, <3>2, InitsKept
    <3> QED  BY <3>1, <3>2
  <2> QED  BY <1>2, <2>1, <2>2 DEF Closed
<1>4. ASSUME OpenReturns PROVE \A x \in Libs : finiDone'[x] => Closed(x)'
  <2>1. UNCHANGED finiDone /\ (OpenCounts \/ OpenAdds \/ OpenMain) /\ TopGone
    BY <1>4, <1>t, OpenReturnsEffect DEF OpenReturns, inits
  <2>2. CASE OpenCounts
    <3>1. Len(stack) \in DOMAIN stack
      BY <2>1 DEF TopGone, StackIndexed
    <3>2. Frame1.lib \in Emulated /\ dl[Frame1.handle].lib = Frame1.lib /\ Frame1.handle > 0
      BY <2>2, <3>1 DEF Structure, FramesOK, Frame1, OpenCounts
    <3>3. ~finiDone[Frame1.lib]
      BY <1>0, <1>4, <3>2, ReturnsInited
    <3>4. ASSUME NEW x \in Libs, finiDone'[x] PROVE Closed(x)'
      <4>1. Closed(x) /\ x # Frame1.lib
        BY <1>2, <2>1, <3>3, <3>4
      <4>2. DOMAIN dl' = DOMAIN dl /\ \A i \in DOMAIN dl : dl[i].lib = x => dl'[i] = dl[i]
        BY <2>2, <3>2, <4>1 DEF OpenCounts, Counted
      <4> QED  BY <4>1, <4>2, ClosedKept
    <3> QED  BY <3>4
  <2>3. CASE OpenAdds
    <3>1. DOMAIN dl \subseteq DOMAIN dl' /\ \A i \in DOMAIN dl : dl'[i] = dl[i]
      BY <2>3 DEF OpenAdds
    <3> QED  BY <1>2, <2>1, <3>1, ClosedKept
  <2>4. CASE OpenMain
    BY <1>2, <2>1, <2>4 DEF OpenMain, Closed
  <2> QED  BY <2>1, <2>2, <2>3, <2>4
<1>5. ASSUME NEW l \in Libs, Reopen(l) PROVE \A x \in Libs : finiDone'[x] => Closed(x)'
  <2>1. UNCHANGED finiDone
    BY <1>5 DEF Reopen, inits
  <2>2. CASE ReopenReloads(l)
    BY <1>2, <2>1, <2>2 DEF ReopenReloads, Closed
  <2>3. CASE ReopenCounts(l)
    <3>1. PICK i \in DOMAIN dl : /\ dl[i].lib = l /\ ~(dl[i].count = 0 /\ dl[i].dlopened /\ l \in Emulated)
                                 /\ Counted(i, dl[i].count + 1)
      BY <1>0, <2>3 DEF ReopenCounts
    <3>2. ASSUME NEW x \in Libs, finiDone'[x] PROVE Closed(x)'
      <4>1. Closed(x) /\ x \in Emulated
        BY <1>2, <2>1, <3>2
      <4>2. \A k \in DOMAIN dl : dl[k].lib = x /\ dl[k].dlopened /\ dl[k].count = 0 => dl'[k] = dl[k]
        BY <3>1, <4>1 DEF Counted
      <4> QED  BY <3>1, <4>1, <4>2, ClosedKept DEF Counted
    <3> QED  BY <3>2
  <2> QED  BY <1>5, <1>t, <2>2, <2>3, ReopenEffect
<1>6. ASSUME NEW i \in DOMAIN dl, Dlclose(i) PROVE \A x \in Libs : finiDone'[x] => Closed(x)'
  <2>1. Counted(i, dl[i].count - 1) /\ dl[i].count > 0 /\ dl[i].lib \in Libs /\ dl[i].count \in Nat
    BY <1>6, <1>t, DlcloseEffect, DlFacts
  <2>2. ASSUME NEW x \in Libs, finiDone[x] PROVE Closed(x)'
    <3>1. \A k \in DOMAIN dl : dl[k].count = 0 => dl'[k] = dl[k]
      BY <2>1 DEF Counted
    <3> QED  BY <1>2, <2>1, <2>2, <3>1, ClosedKept DEF Counted
  <2>3. CASE LastClose(i) /\ dl[i].lib \in Emulated
    <3>1. Fini(dl[i].lib)
      BY <1>6, <2>3 DEF Dlclose
    <3>2. \A x \in Libs : finiDone'[x] => finiDone[x] \/ x = dl[i].lib
      BY <1>t, <2>1, <3>1 DEF Fini, TypeOK
    <3>3. dl[i].count = 1 /\ dl[i].dlopened
      BY <2>3 DEF LastClose
    <3>4. dl'[i].count = 0 /\ dl'[i].lib = dl[i].lib /\ dl'[i].dlopened /\ i \in DOMAIN dl'
      BY <2>1, <3>3 DEF Counted
    <3>5. PICK l \in Libs : l = dl[i].lib
      BY <2>1
    <3>6. Closed(l)'
      BY <3>4, <3>5 DEF Closed
    <3> QED  BY <2>2, <3>2, <3>5, <3>6
  <2>4. CASE ~(LastClose(i) /\ dl[i].lib \in Emulated)
    <3>1. UNCHANGED finiDone
      BY <1>6, <2>4 DEF Dlclose
    <3> QED  BY <2>2, <3>1
  <2> QED  BY <2>3, <2>4
<1> QED  BY <1>3, <1>4, <1>5, <1>6

(* Every step keeps OpenInited: no other handle that loaded the library is *)
(* open when its fini functions run.                                       *)
LEMMA OpenInitedStep ==
  ASSUME Structure, ExitOK, FiniOK, OneDlopened, [Next]_vars
  PROVE  OpenInited'
<1>t. TypeOK /\ EmulatedOnly
  BY DEF Structure
<1>0. SUFFICES ASSUME ~failed, ~failed', ~exiting',
                      NEW k \in DOMAIN dl', dl'[k].dlopened, dl'[k].count > 0, dl'[k].lib \in Emulated
               PROVE  initDone'[dl'[k].lib]
  BY FailedStays DEF OpenInited
<1>1. ~exiting /\ ~(Exit \/ FreeNext \/ FreeMapDone \/ FreeDepended \/ Free1Library)
  BY <1>0, ExitingStays
<1>2. \A i \in DOMAIN dl : dl[i].dlopened /\ dl[i].count > 0 /\ dl[i].lib \in Emulated => initDone[dl[i].lib]
  BY <1>0, <1>1 DEF FiniOK, OpenInited
<1>3. ASSUME ~OpenReturns, ~(\E l \in Libs : Reopen(l)), ~(\E i \in DOMAIN dl : Dlclose(i))
      PROVE  initDone'[dl'[k].lib]
  <2>1. UNCHANGED dl
    BY <1>3, HandlesKept
  <2>2. \A x \in Libs : initDone[x] => initDone'[x]
    <3>1. CASE InitReturns
      BY <1>t, <3>1, InitReturnsEffect DEF TypeOK
    <3>2. CASE ~InitReturns
      BY <1>1, <1>3, <3>2, InitsKept
    <3> QED  BY <3>1, <3>2
  <2> QED  BY <1>0, <1>2, <2>1, <2>2, EmulatedFacts
<1>4. ASSUME OpenReturns PROVE initDone'[dl'[k].lib]
  <2>1. UNCHANGED initDone /\ (OpenCounts \/ OpenAdds \/ OpenMain) /\ TopGone
    BY <1>4, <1>t, OpenReturnsEffect DEF OpenReturns, inits
  <2>2. CASE OpenCounts
    <3>1. Len(stack) \in DOMAIN stack
      BY <2>1 DEF TopGone, StackIndexed
    <3>2. Frame1.lib \in Emulated /\ dl[Frame1.handle].lib = Frame1.lib /\ Frame1.handle > 0
      BY <2>2, <3>1 DEF Structure, FramesOK, Frame1, OpenCounts
    <3>3. initDone[Frame1.lib]
      BY <1>0, <1>4, <3>2, ReturnsInited
    <3>4. CASE k = Frame1.handle
      BY <2>1, <2>2, <3>2, <3>3, <3>4 DEF OpenCounts, Counted
    <3>5. CASE k # Frame1.handle
      BY <1>0, <1>2, <2>1, <2>2, <3>5 DEF OpenCounts, Counted
    <3> QED  BY <3>4, <3>5
  <2>3. CASE OpenAdds
    <3>1. CASE k \in DOMAIN dl
      BY <1>0, <1>2, <2>1, <2>3, <3>1 DEF OpenAdds
    <3>2. CASE k \notin DOMAIN dl
      <4>1. k = Len(dl) + 1
        BY <1>0, <2>3, <3>2 DEF OpenAdds
      <4>2. dl'[k].lib = Frame1.lib /\ dl'[k].dlopened = Frame1.dlopened
        BY <2>3, <4>1 DEF OpenAdds
      <4> QED  BY <1>0, <1>4, <2>1, <4>2, ReturnsInited
    <3> QED  BY <3>1, <3>2
  <2>4. CASE OpenMain
    BY <1>0, <1>2, <2>1, <2>4 DEF OpenMain
  <2> QED  BY <2>1, <2>2, <2>3, <2>4
<1>5. ASSUME NEW l \in Libs, Reopen(l) PROVE initDone'[dl'[k].lib]
  <2>1. UNCHANGED initDone
    BY <1>5 DEF Reopen, inits
  <2>2. CASE ReopenReloads(l)
    BY <1>0, <1>2, <2>1, <2>2 DEF ReopenReloads
  <2>3. CASE ReopenCounts(l)
    <3>1. PICK i \in DOMAIN dl : /\ dl[i].lib = l /\ ~(dl[i].count = 0 /\ dl[i].dlopened /\ l \in Emulated)
                                 /\ Counted(i, dl[i].count + 1)
      BY <1>0, <2>3 DEF ReopenCounts
    <3>2. CASE k = i
      <4>1. dl[i].count \in Nat
        BY <1>t, DlFacts
      <4>2. dl'[k].lib = dl[i].lib /\ dl[i].dlopened /\ dl[i].lib \in Emulated
        BY <1>0, <3>1, <3>2 DEF Counted
      <4>3. dl[i].count > 0
        BY <3>1, <4>1, <4>2
      <4> QED  BY <1>2, <2>1, <4>2, <4>3
    <3>3. CASE k # i
      BY <1>0, <1>2, <2>1, <3>1, <3>3 DEF Counted
    <3> QED  BY <3>2, <3>3
  <2> QED  BY <1>5, <1>t, <2>2, <2>3, ReopenEffect
<1>6. ASSUME NEW i \in DOMAIN dl, Dlclose(i) PROVE initDone'[dl'[k].lib]
  <2>1. Counted(i, dl[i].count - 1) /\ dl[i].count > 0 /\ dl[i].lib \in Libs /\ dl[i].count \in Nat
    BY <1>6, <1>t, DlcloseEffect, DlFacts
  <2>2. /\ k \in DOMAIN dl /\ dl'[k].lib = dl[k].lib /\ dl'[k].dlopened = dl[k].dlopened
        /\ (k # i => dl'[k] = dl[k])
    BY <2>1 DEF Counted
  <2>3. initDone[dl[k].lib]
    <3>1. dl[k].count > 0
      BY <1>0, <2>1, <2>2
    <3> QED  BY <1>0, <1>2, <2>2, <3>1
  <2>4. CASE LastClose(i) /\ dl[i].lib \in Emulated
    <3>1. Fini(dl[i].lib) /\ dl[i].count = 1 /\ dl[i].dlopened
      BY <1>6, <2>4 DEF Dlclose, LastClose
    <3>2. dl'[i].count = 0
      BY <2>1, <3>1 DEF Counted
    <3>3. ~(dl'[i].count > 0)
      BY <3>2
    <3>4. k # i
      BY <1>0, <3>3
    <3>5. dl[k].lib # dl[i].lib
      BY <1>0, <2>2, <3>1, <3>4 DEF OneDlopened
    <3>6. \A x \in Libs : x # dl[i].lib => initDone'[x] = initDone[x]
      BY <1>t, <2>1, <3>1 DEF Fini, TypeOK
    <3> QED  BY <1>0, <2>2, <2>3, <3>5, <3>6, EmulatedFacts
  <2>5. CASE ~(LastClose(i) /\ dl[i].lib \in Emulated)
    <3>1. UNCHANGED initDone
      BY <1>6, <2>5 DEF Dlclose
    <3> QED  BY <2>2, <2>3, <3>1
  <2> QED  BY <2>4, <2>5
<1> QED  BY <1>3, <1>4, <1>5, <1>6

(* A frame of a dlopen that loads or reloads l: l was initialised, or will *)
(* be by this frame.                                                       *)
Inited(f) == f.dlopened \/ f.handle > 0 => (f.lib \in Emulated => initDone[f.lib] \/ f.lib \in Pend(f))

(* Every step keeps FramesInited: a dlopen does not return before its      *)
(* library is initialised.                                                 *)
LEMMA FramesInitedStep ==
  ASSUME Structure, Complete, ExitOK, InitsOK, Waiting, FiniOK, OneDlopened, [Next]_vars
  PROVE  FramesInited'
<1>t. TypeOK /\ OwnedOnce /\ CallsOK /\ EmulatedOnly
  BY DEF Structure
<1>0. SUFFICES ASSUME ~failed
               PROVE  \A j \in DOMAIN stack' : calls' = << >> \/ j # Len(stack') =>
                        (stack'[j].dlopened \/ stack'[j].handle > 0 => (stack'[j].lib \in Emulated =>
                           initDone'[stack'[j].lib] \/ stack'[j].lib \in Pend(stack'[j])))
  BY FailedStays DEF FramesInited
<1> DEFINE Good(f) == f.dlopened \/ f.handle > 0 => (f.lib \in Emulated => initDone'[f.lib] \/ f.lib \in Pend(f))
<1>1. \A j \in DOMAIN stack : calls = << >> \/ j # Len(stack) => Inited(stack[j])
  BY <1>0 DEF FiniOK, FramesInited, Inited
<1>2. ASSUME NEW f, Inited(f), \A x \in Libs : initDone[x] => initDone'[x] PROVE Good(f)
  BY <1>2, EmulatedFacts DEF Inited
<1>3. SUFFICES \A j \in DOMAIN stack' : calls' = << >> \/ j # Len(stack') => Good(stack'[j])
  OBVIOUS
<1> HIDE DEF Good
<1>4. ASSUME UNCHANGED <<initDone, stack>>, calls' = << >> => calls = << >>
      PROVE  \A j \in DOMAIN stack' : calls' = << >> \/ j # Len(stack') => Good(stack'[j])
  BY <1>1, <1>2, <1>4
<1>5. ASSUME NEW f \in FrameSet, TopIs(f), Good(f), \A x \in Libs : initDone[x] => initDone'[x]
      PROVE  \A j \in DOMAIN stack' : Good(stack'[j])
  <2>1. ASSUME NEW j \in DOMAIN stack', j # Len(stack) PROVE Good(stack'[j])
    <3>1. j \in DOMAIN stack /\ stack'[j] = stack[j]
      BY <1>5, <2>1 DEF TopIs, StackIndexed
    <3>2. Inited(stack[j])
      BY <1>1, <2>1, <3>1
    <3> QED  BY <1>2, <1>5, <3>1, <3>2
  <2> QED  BY <1>5, <2>1 DEF TopIs
<1>6. ASSUME LoadsOn
      PROVE  \A j \in DOMAIN stack' : calls' = << >> \/ j # Len(stack') => Good(stack'[j])
  BY <1>4, <1>6, LoadsOnKeeps
<1>7. ASSUME \/ NeededReturns \/ Exit \/ FreeNext \/ FreeMapDone \/ FreeDepended \/ UNCHANGED vars
      PROVE  \A j \in DOMAIN stack' : calls' = << >> \/ j # Len(stack') => Good(stack'[j])
  <2>1. UNCHANGED <<initDone, stack>>
    BY <1>7 DEF NeededReturns, Exit, FreeNext, FreeMapDone, FreeDepended, freeing, inits, vars
  <2>2. calls' = << >> => calls = << >>
    BY <1>7, <1>t, NeededReturnsEffect DEF Popped, Exit, FreeNext, FreeMapDone, FreeDepended, freeing, vars
  <2> QED  BY <1>4, <2>1, <2>2
<1>8. ASSUME Free1Library PROVE \A j \in DOMAIN stack' : FALSE
  <2>1. stack = << >> /\ UNCHANGED stack
    BY <1>8, LastFree DEF Free1Library, freeing, ExitOK
  <2> QED  BY <2>1
<1>9. ASSUME LoadReturns PROVE \A j \in DOMAIN stack' : Good(stack'[j])
  <2>1. PICK f \in FrameSet : /\ TopIs(f) /\ SameFrame(f, Frame1) /\ f.todo = defered /\ f.running = None
    BY <1>9, <1>t, LoadReturnsEffect
  <2>2. /\ Len(calls) = 1 /\ calls # << >> /\ Cur.phase = "init" /\ Cur.todo = << >> /\ UNCHANGED initDone
    BY <1>9 DEF LoadReturns, At
  <2>3. DOMAIN calls = 1 .. 1 /\ Cur = calls[1] /\ Cur \in CallSet
    BY <1>t, <2>2, CurFacts DEF TypeOK
  <2>4. CallBody(needed, Top.lib, calls[1], 1)
    BY <1>t, <2>3, BodyOf
  <2>5. Top = Frame1 /\ Top.handle = 0
    BY <1>t, <2>2, StackFacts DEF CallsOK
  <2>6. ASSUME f.dlopened, f.lib \in Emulated PROVE f.lib \in Range(defered)
    <3>1. Top.lib = f.lib /\ Top.lib \in Libs /\ Top.dlopened
      BY <2>1, <2>5, <2>6, EmulatedFacts DEF SameFrame
    <3>2. calls[1].me = None
      BY <1>t, <2>2, <2>4, <3>1, EmulatedFacts DEF CallBody, CallsOK
    <3>3. Top.lib \in Range(needed[None])
      <4>1. PathsOf(Top.lib, None) = {Top.lib}
        BY DEF PathsOf
      <4> QED  BY <2>2, <2>3, <2>4, <3>2, <4>1 DEF CallBody
    <3>4. finalized[Top.lib]
      <4>1. \A i \in DOMAIN calls : \A y : ~CoversOf(needed, calls[i], y)
        BY <2>2, <2>3, EmptyRange DEF CoversOf
      <4>2. finalized[Top.lib] \/ \E i \in DOMAIN calls : calls[i].me = None /\ Covers(i, Top.lib)
        BY <1>0, <2>6, <3>1, <3>3, EmulatedFacts DEF Complete
      <4> QED  BY <4>1, <4>2, CoversSplit
    <3> QED  BY <1>0, <2>2, <3>1, <3>4 DEF FiniOK, TopDefered
  <2>7. f.handle = 0
    BY <2>1, <2>5 DEF SameFrame
  <2>8. ~(f.handle > 0)
    BY <2>7
  <2>9. Good(f)
    BY <2>1, <2>6, <2>8, EmulatedFacts DEF Good, Pend
  <2> QED  BY <1>5, <2>1, <2>2, <2>9
<1>10. ASSUME RunElfInit PROVE \A j \in DOMAIN stack' : Good(stack'[j])
  <2>1. calls = << >> /\ ~deferedInit /\ UNCHANGED initDone
    BY <1>0, <1>10 DEF RunElfInit, InitsOK
  <2>2. PICK f \in FrameSet, h \in Emulated :
            /\ TopIs(f) /\ SameFrame(f, Frame1) /\ Frame1.todo # << >> /\ Frame1.running = None
            /\ Frame1.todo \in Seq(Libs)
            /\ h = Head(Frame1.todo) /\ f.todo = Tail(Frame1.todo) /\ h \in Libs
            /\ f.running = IF ~initDone[h] /\ ~deferedInit THEN h ELSE None
    BY <1>10, <1>t, RunElfInitEffect
  <2>3. PICK s \in Seq(Libs) : s = Frame1.todo
    BY <2>2
  <2>4. Range(s) = Range(f.todo) \cup {h}
    BY <2>2, <2>3, TailFacts
  <2>5. Inited(Frame1)
    BY <1>1, <2>1, <2>2 DEF TopIs, StackIndexed, Frame1
  <2>6. \A x \in Libs : x \in Pend(Frame1) => initDone[x] \/ x \in Pend(f)
    BY <2>1, <2>2, <2>3, <2>4, EmulatedFacts DEF Pend
  <2>7. Good(f)
    BY <2>1, <2>2, <2>5, <2>6, EmulatedFacts DEF Good, Inited, SameFrame
  <2> QED  BY <1>5, <2>1, <2>2, <2>7
<1>11. ASSUME InitReturns PROVE \A j \in DOMAIN stack' : Good(stack'[j])
  <2>1. calls = << >>
    BY <1>11 DEF InitReturns, Guest
  <2>2. PICK f \in FrameSet, r \in Emulated :
            /\ TopIs(f) /\ SameFrame(f, Frame1) /\ f.todo = Frame1.todo /\ f.running = None
            /\ Frame1.running = r /\ r \in Libs /\ r # None
            /\ initDone' = [initDone EXCEPT ![r] = TRUE]
    BY <1>11, <1>t, InitReturnsEffect
  <2>3. \A x \in Libs : initDone'[x] <=> initDone[x] \/ x = r
    BY <1>t, <2>2 DEF TypeOK
  <2>4. Inited(Frame1)
    BY <1>1, <2>1, <2>2 DEF TopIs, StackIndexed, Frame1
  <2>5. \A x \in Libs : x \in Pend(Frame1) => initDone'[x] \/ x \in Pend(f)
    BY <2>2, <2>3, EmulatedFacts DEF Pend
  <2>6. Good(f)
    BY <2>2, <2>3, <2>4, <2>5, EmulatedFacts DEF Good, Inited, SameFrame
  <2> QED  BY <1>5, <2>2, <2>3, <2>6
<1>12. ASSUME OpenReturns PROVE \A j \in DOMAIN stack' : Good(stack'[j])
  <2>1. TopGone /\ UNCHANGED initDone
    BY <1>12, <1>t, OpenReturnsEffect DEF OpenReturns, inits
  <2>2. ASSUME NEW j \in DOMAIN stack' PROVE Good(stack'[j])
    <3>1. j \in DOMAIN stack /\ stack'[j] = stack[j] /\ j # Len(stack)
      BY <2>1 DEF TopGone, StackIndexed
    <3> QED  BY <1>1, <1>2, <2>1, <3>1
  <2> QED  BY <2>2
<1>13. ASSUME NEW f \in FrameSet, TopNew(f), calls = << >>, UNCHANGED initDone, calls' # << >> \/ Good(f)
       PROVE  \A j \in DOMAIN stack' : calls' = << >> \/ j # Len(stack') => Good(stack'[j])
  <2>1. ASSUME NEW j \in DOMAIN stack', j # Len(stack') PROVE Good(stack'[j])
    <3>1. j \in DOMAIN stack /\ stack'[j] = stack[j]
      BY <1>13, <2>1 DEF TopNew
    <3> QED  BY <1>1, <1>2, <1>13, <3>1
  <2>2. ASSUME NEW j \in DOMAIN stack', j = Len(stack') PROVE stack'[j] = f
    BY <1>13, <2>2 DEF TopNew
  <2> QED  BY <1>13, <2>1, <2>2
<1>14. ASSUME NEW l \in Libs, Reopen(l)
       PROVE  \A j \in DOMAIN stack' : calls' = << >> \/ j # Len(stack') => Good(stack'[j])
  <2>1. calls = << >> /\ UNCHANGED <<initDone, calls>>
    BY <1>14 DEF Reopen, Guest, inits
  <2>2. CASE ReopenReloads(l)
    <3>1. PICK f \in FrameSet : TopNew(f) /\ f.lib = l /\ f.todo = <<l>>
      BY <2>2 DEF ReopenReloads
    <3>2. Range(<<l>>) = {l}
      BY DEF Range
    <3>3. Good(f)
      BY <3>1, <3>2 DEF Good, Pend
    <3> QED  BY <1>13, <2>1, <3>1, <3>3
  <2>3. CASE ReopenCounts(l)
    BY <1>4, <2>1, <2>3 DEF ReopenCounts
  <2> QED  BY <1>14, <1>t, <2>2, <2>3, ReopenEffect
<1>15. ASSUME NEW l \in Libs, NEW local \in BOOLEAN, Dlopen(l, local)
       PROVE  \A j \in DOMAIN stack' : calls' = << >> \/ j # Len(stack') => Good(stack'[j])
  <2>1. TopNew(Frame(l, << >>, l \notin Owned, 0)) /\ calls = << >>
    BY <1>15, <1>t, DlopenEffect
  <2>2. PICK f \in FrameSet : TopNew(f)
    BY <2>1 DEF TopNew
  <2>3. calls' # << >> /\ UNCHANGED initDone
    BY <1>15 DEF Dlopen
  <2> QED  BY <1>13, <2>1, <2>2, <2>3
<1>16. ASSUME NEW i \in DOMAIN dl, Dlclose(i) PROVE \A j \in DOMAIN stack' : Good(stack'[j])
  <2>1. Guest /\ calls = << >> /\ UNCHANGED stack
    BY <1>16 DEF Dlclose, Guest
  <2>2. CASE LastClose(i) /\ dl[i].lib \in Emulated
    <3>1. Fini(dl[i].lib) /\ dl[i].dlopened /\ dl[i].lib \in Libs
      BY <1>16, <2>2, EmulatedFacts DEF Dlclose, LastClose
    <3>2. \A x \in Libs : x # dl[i].lib => initDone'[x] = initDone[x]
      BY <1>t, <3>1 DEF Fini, TypeOK
    <3>3. ASSUME NEW j \in DOMAIN stack PROVE Good(stack[j])
      <4>1. Inited(stack[j])
        BY <1>1, <2>1
      <4>2. CASE stack[j].lib # dl[i].lib
        BY <3>2, <4>1, <4>2, EmulatedFacts DEF Inited, Good
      <4>3. CASE stack[j].lib = dl[i].lib
        <5>1. stack[j].handle \in Nat /\ DOMAIN stack = 1 .. Len(stack) /\ Len(stack) \in Nat
          BY <1>t, HandleBound
        <5>2. CASE stack[j].handle = 0
          <6>1. ~stack[j].dlopened
            BY <3>1, <4>3, <5>2 DEF OneDlopened, NewFrame
          <6>2. ~(stack[j].handle > 0)
            BY <5>2
          <6> QED  BY <6>1, <6>2 DEF Good
        <5>3. CASE stack[j].handle > 0
          <6>1. \/ stack[j].todo = <<stack[j].lib>>
                \/ stack[j].running \in {None, stack[j].lib}
            BY <5>3 DEF Structure, FramesOK
          <6>2. stack[j].running # None
            <7>1. CASE j = Len(stack)
              <8>1. stack # << >>
                BY <5>1
              <8>2. Top = stack[j]
                BY <1>t, <7>1, <8>1, TopFacts DEF TypeOK
              <8> QED  BY <2>1, <8>1, <8>2 DEF Guest
            <7>2. CASE j # Len(stack)
              BY <5>1, <7>2 DEF Waiting
            <7> QED  BY <7>1, <7>2
          <6>3. \A x : Range(<<x>>) = {x}
            BY DEF Range
          <6>4. stack[j].lib \in Libs => stack[j].lib \in Pend(stack[j])
            BY <6>1, <6>2, <6>3 DEF Pend
          <6> QED  BY <3>1, <4>3, <6>4 DEF Good
        <5> QED  BY <5>1, <5>2, <5>3
      <4> QED  BY <4>2, <4>3
    <3> QED  BY <2>1, <3>3
  <2>3. CASE ~(LastClose(i) /\ dl[i].lib \in Emulated)
    <3>1. UNCHANGED initDone
      BY <1>16, <2>3 DEF Dlclose
    <3> QED  BY <1>1, <1>2, <2>1, <3>1
  <2> QED  BY <2>2, <2>3
<1>17. ASSUME NEW l \in Libs, AddFails(l)
       PROVE  \A j \in DOMAIN stack' : calls' = << >> \/ j # Len(stack') => Good(stack'[j])
  <2>1. UNCHANGED <<initDone, stack>>
    BY <1>17 DEF AddFails, inits
  <2>2. calls' # << >>
    BY <1>17, <1>t, AddFailsEffect DEF Replaced
  <2> QED  BY <1>4, <2>1, <2>2
<1> QED  BY <1>0, <1>6, <1>7, <1>8, <1>9, <1>10, <1>11, <1>12, <1>14, <1>15, <1>16, <1>17, NoFailure
         DEF Next, Loading, LoadsOn

(* The library that a dlopen loads is deferred as soon as it is relocated. *)
LEMMA TopDeferedStep ==
  ASSUME Structure, Complete, ExitOK, InitsOK, FiniOK, [Next]_vars
  PROVE  TopDefered'
<1>t. TypeOK /\ OwnedOnce /\ CallsOK /\ EmulatedOnly
  BY DEF Structure
<1>0. SUFFICES ASSUME ~failed, ~failed', calls' # << >> PROVE TopDefered'
  BY FailedStays DEF TopDefered
<1>1. ASSUME calls # << >>, UNCHANGED <<stack, finalized, defered>> PROVE TopDefered'
  BY <1>0, <1>1 DEF FiniOK, TopDefered, Top
<1>2. ASSUME LoadsOn PROVE TopDefered'
  BY <1>1, <1>2, LoadsOnKeeps
<1>3. ASSUME NeededReturns PROVE TopDefered'
  <2>1. calls # << >> /\ Top1.me \in Emulated /\ Top1.me \in Libs /\ Finalize(Top1.me) /\ UNCHANGED stack
    BY <1>3, <1>t, NeededReturnsEffect DEF NeededReturns, At
  <2>2. PICK m \in Libs : m = Top1.me /\ Finalize(m)
    BY <2>1
  <2>3. initDone[m] => finalized[m]
    BY <1>0 DEF InitsOK
  <2>a. Range(Append(defered, m)) = Range(defered) \cup {m}
    BY <1>t, AppendFacts DEF TypeOK, LibSeqs
  <2>4. Range(defered) \subseteq Range(defered')
    BY <2>a, <2>2 DEF Finalize
  <2>5. ~finalized[m] => m \in Range(defered')
    BY <2>a, <2>2, <2>3 DEF Finalize
  <2>6. \A x : x # m => finalized'[x] = finalized[x]
    BY <1>t, <2>2 DEF Finalize, TypeOK
  <2>7. Top' = Top
    BY <2>1 DEF Top
  <2>8. Top.dlopened /\ finalized[Top.lib] => Top.lib \in Range(defered)
    BY <1>0, <2>1 DEF FiniOK, TopDefered
  <2> QED  BY <2>4, <2>5, <2>6, <2>7, <2>8 DEF TopDefered
<1>4. ASSUME NEW l \in Libs, NEW local \in BOOLEAN, Dlopen(l, local) PROVE TopDefered'
  <2> DEFINE f == Frame(l, << >>, l \notin Owned, 0)
  <2>1. TopNew(f) /\ f.lib = l /\ f.dlopened = (l \notin Owned) /\ UNCHANGED finalized
    BY <1>4, <1>t, DlopenEffect DEF Dlopen
  <2> HIDE DEF f
  <2>2. stack' \in Seq(FrameSet) /\ stack' # << >> /\ stack'[Len(stack')] = f
    BY <2>1 DEF TopNew
  <2>3. Top' = f
    BY <2>2 DEF Top, Last
  <2>4. finalized[l] => l \in Owned
    BY <1>t DEF EmulatedOnly
  <2> QED  BY <2>1, <2>3, <2>4 DEF TopDefered
<1>5. ASSUME \/ LoadReturns \/ Exit \/ FreeNext \/ FreeMapDone \/ FreeDepended \/ Free1Library
             \/ RunElfInit \/ InitReturns \/ OpenReturns \/ (\E l \in Libs : Reopen(l)) \/ (\E i \in DOMAIN dl : Dlclose(i))
      PROVE  FALSE
  <2>1. ASSUME NEW l \in Libs, Reopen(l) PROVE calls = << >>
    BY <2>1 DEF Reopen, Guest
  <2>2. ASSUME NEW i \in DOMAIN dl, Dlclose(i) PROVE calls = << >>
    BY <2>2 DEF Dlclose, Guest
  <2>3. RunElfInit \/ InitReturns \/ OpenReturns \/ Exit => calls = << >>
    BY DEF RunElfInit, InitReturns, OpenReturns, Exit, Guest
  <2>4. FreeNext \/ FreeMapDone \/ FreeDepended \/ Free1Library => calls = << >>
    <3>1. FreeNext \/ FreeMapDone \/ FreeDepended \/ Free1Library => exiting
      BY LastFree DEF FreeNext, FreeMapDone, FreeDepended, Free1Library
    <3> QED  BY <3>1 DEF ExitOK
  <2>5. LoadReturns => calls' = << >>
    BY DEF LoadReturns
  <2>6. CASE Quiet
    <3>1. calls = << >>
      BY <2>1, <2>2, <2>3, <2>4, <2>6 DEF Quiet
    <3> QED  BY <1>0, <2>6, <3>1, QuietKeeps
  <2> QED  BY <1>0, <1>5, <2>5, <2>6 DEF Quiet
<1>6. ASSUME UNCHANGED vars PROVE TopDefered'
  <2>1. UNCHANGED <<calls, stack, finalized, defered>>
    BY <1>6 DEF vars, inits
  <2> QED  BY <1>0, <1>1, <2>1
<1>7. ASSUME NEW l \in Libs, AddFails(l) PROVE FALSE
  BY <1>0, <1>7 DEF AddFails
<1> QED  BY <1>0, <1>2, <1>3, <1>4, <1>5, <1>6, <1>7, NoFailure DEF Next, Loading, LoadsOn

-----------------------------------------------------------------------------
(* The parts together are kept by every step.                              *)

(* What holds while the program loads, opens and closes libraries.         *)
Running == Complete /\ InitsOK /\ Waiting /\ OneDlopened /\ FiniOK

(* What holds when LoadNeededLibs of the program begins.                   *)
LEMMA InitFacts ==
  ASSUME Init
  PROVE  /\ DOMAIN calls = 1 .. 1 /\ calls[1].phase = "add" /\ calls # << >>
         /\ DOMAIN stack = 1 .. 1 /\ Len(stack) = 1 /\ Top = stack[1]
         /\ stack[1].lib = Main /\ stack[1].todo = << >> /\ stack[1].running = None
         /\ stack[1].handle = 0 /\ stack[1].dlopened = FALSE
         /\ DOMAIN dl = {} /\ dl = << >> /\ defered = << >> /\ Owned = {}
         /\ \A u \in User : Range(needed[u]) = {}
         /\ \A l \in Libs : ~finalized[l] /\ ~initDone[l] /\ ~finiDone[l]
<1> DEFINE c == Call(Main, FALSE, 0, Needs[Main])
           f == Frame(Main, << >>, FALSE, 0)
<1>1. /\ calls = <<c>> /\ stack = <<f>> /\ DOMAIN calls = 1 .. 1 /\ DOMAIN stack = 1 .. 1
      /\ calls[1] = c /\ stack[1] = f /\ Len(stack) = 1 /\ calls # << >> /\ stack # << >>
  BY DEF Init
<1>2. /\ c.phase = "add" /\ f.lib = Main /\ f.todo = << >> /\ f.running = None
      /\ f.handle = 0 /\ f.dlopened = FALSE
  BY DEF Call, Frame
<1> HIDE DEF c, f
<1>3. Top = stack[1]
  BY <1>1, StructureInit, TopFacts DEF Structure, TypeOK
<1>4. /\ \A u \in User : needed[u] = << >>
      /\ maplib = << >> /\ local_maplib = << >> /\ dl = << >> /\ defered = << >>
      /\ \A l \in Libs : ~finalized[l] /\ ~initDone[l] /\ ~finiDone[l]
  BY DEF Init
<1>5. Owned = {} /\ \A u \in User : Range(needed[u]) = {}
  BY <1>4, EmptyRange DEF Owned
<1>6. DOMAIN dl = {}
  BY <1>4
<1> QED  BY <1>1, <1>2, <1>3, <1>4, <1>5, <1>6

(* The parts hold at the start.                                            *)
LEMMA RunningInit ==
  ASSUME Init
  PROVE  Running
<1>0. \A j \in DOMAIN stack : j = 1
  <2>1. DOMAIN stack = 1 .. 1
    BY InitFacts
  <2> QED  BY <2>1
<1>1. Complete
  BY InitFacts DEF Complete
<1>2. InitsOK
  <2>1. Final = {}
    BY InitFacts DEF Final
  <2>2. Out(1) = {}
    BY InitFacts, EmptyRange, EmulatedFacts DEF Out, Pend
  <2>3. \A T : Ordered(<< >>, T)
    BY OrderedEmpty
  <2>4. \A j \in DOMAIN stack : stack[j].todo = << >>
    BY <1>0, InitFacts
  <2>5. Range(defered) \cup Out(Len(stack)) = {}
    BY <2>2, InitFacts, EmptyRange
  <2> QED  BY <2>1, <2>3, <2>4, <2>5, InitFacts DEF InitsOK
<1>3. Waiting
  <2>1. Len(stack) = 1
    BY InitFacts
  <2> QED  BY <1>0, <2>1 DEF Waiting
<1>4. OneDlopened
  BY InitFacts DEF OneDlopened, NewFrame
<1>5. FiniOK
  <2>1. FramesInited
    <3>1. \A j \in DOMAIN stack : ~stack[j].dlopened /\ stack[j].handle = 0
      BY <1>0, InitFacts
    <3>2. ~(0 > 0)
      OBVIOUS
    <3> QED  BY <3>1, <3>2 DEF FramesInited
  <2>2. FiniUndoes /\ FiniCloses /\ OpenInited /\ TopDefered
    BY InitFacts DEF FiniUndoes, FiniCloses, OpenInited, TopDefered
  <2> QED  BY <2>1, <2>2 DEF FiniOK
<1> QED  BY <1>1, <1>2, <1>3, <1>4, <1>5 DEF Running

(* Every step keeps the parts.                                             *)
LEMMA RunningStep ==
  ASSUME Structure, ExitOK, Running, [Next]_vars
  PROVE  Running'
<1>1. Complete /\ InitsOK /\ Waiting /\ OneDlopened /\ FiniOK /\ FiniUndoes
  BY DEF Running, FiniOK
<1>2. Complete' /\ InitsOK' /\ Waiting' /\ OneDlopened'
  BY <1>1, CompleteStep, InitsStep, WaitingStep, OneDlopenedStep
<1>3. FiniUndoes' /\ FiniCloses' /\ OpenInited' /\ FramesInited' /\ TopDefered'
  BY <1>1, FiniUndoesStep, FiniClosesStep, OpenInitedStep, FramesInitedStep, TopDeferedStep
<1> QED  BY <1>2, <1>3 DEF Running, FiniOK

(* The parts hold throughout.                                              *)
THEOREM RunningAlways == Spec => []Running
BY RunningInit, RunningStep, StructureAlways, ExitAlways, PTL DEF Spec

(* Fini functions run at dlclose and at exit only, of a library that was   *)
(* initialised.                                                            *)
LEMMA FiniAfterInitStep ==
  ASSUME Structure, ExitOK, Running, [Next]_vars,
         NEW l \in Emulated, finiDone'[l], ~finiDone[l], ~failed
  PROVE  initDone[l]
<1>t. TypeOK /\ EmulatedOnly /\ l \in Libs
  BY EmulatedFacts DEF Structure
<1>0. Complete /\ InitsOK /\ FiniOK
  BY DEF Running
<1>1. ~InitReturns
  BY <1>t, InitReturnsEffect DEF TypeOK
<1>2. ASSUME NEW i \in DOMAIN dl, Dlclose(i) PROVE initDone[l]
  <2>1. LastClose(i) /\ dl[i].lib \in Emulated /\ Fini(dl[i].lib) /\ ~exiting
    BY <1>2 DEF Dlclose, Guest
  <2>2. dl[i].lib = l
    BY <1>t, <2>1, EmulatedFacts DEF Fini, TypeOK
  <2>3. dl[i].count = 1 /\ dl[i].dlopened
    BY <2>1 DEF LastClose
  <2>4. dl[i].count > 0
    BY <2>3
  <2> QED  BY <1>0, <2>1, <2>2, <2>3, <2>4 DEF FiniOK, OpenInited
<1>3. ASSUME Free1Library PROVE initDone[l]
  <2>1. frees # << >> /\ Last(frees).lib \in Emulated /\ Fini(Last(frees).lib)
    BY <1>3 DEF Free1Library
  <2>2. Last(frees).lib = l
    BY <1>t, <2>1, EmulatedFacts DEF Fini, TypeOK
  <2>3. exiting /\ maps # << >> /\ FreeOK(Len(frees)) /\ frees[Len(frees)] = Last(frees)
    BY <2>1, LastFree
  <2>4. l \in Range(Head(maps))
    BY <2>2, <2>3 DEF FreeOK
  <2>5. l \in Owned /\ calls = << >> /\ stack = << >>
    BY <1>t, <2>3, <2>4, MapsFacts DEF ExitOK
  <2>6. finalized[l]
    BY <1>0, <1>t, <2>5 DEF Complete
  <2>7. defered = << >> /\ Len(stack) = 0
    BY <1>0, <2>5 DEF InitsOK
  <2>8. Out(0) = {} /\ Range(defered) = {}
    BY <2>7, EmptyRange DEF Out
  <2>9. l \in Final
    BY <1>t, <2>6 DEF Final
  <2>10. l \in Done
    BY <1>0, <2>7, <2>8, <2>9 DEF InitsOK
  <2> QED  BY <2>10 DEF Done
<1> QED  BY <1>1, <1>2, <1>3, InitsKept

(* RunElfFini runs, at dlclose of the last count and in Free1Library at    *)
(* exit, only for a library whose init functions ran since, unless some    *)
(* library was not found.                                                  *)
THEOREM FiniAfterInitTheorem == Spec => FiniAfterInit
<1>1. ASSUME Structure, ExitOK, Running, [Next]_vars
      PROVE  [\A l \in Emulated : finiDone'[l] /\ ~finiDone[l] /\ ~failed => initDone[l]]_vars
  BY <1>1, FiniAfterInitStep
<1> QED  BY <1>1, ExitAlways, StructureAlways, RunningAlways, PTL DEF Spec, FiniAfterInit

(* The init functions of a library begin in RunElfInit only.               *)
LEMMA BeginsInRunElfInit ==
  ASSUME Structure, Complete, ~failed, [Next]_vars, NEW l \in Emulated, InitBegins(l)
  PROVE  RunElfInit
<1>t. TypeOK /\ OwnedOnce /\ CallsOK /\ EmulatedOnly /\ l # None
  BY EmulatedFacts DEF Structure
<1>1. /\ stack # << >> /\ Len(stack') = Len(stack) /\ StackIndexed
      /\ Frame1.running = None /\ stack'[Len(stack)].running = l
  BY <1>t, StackFacts DEF InitBegins
<1>2. ~UNCHANGED stack /\ ~TopGone
  BY <1>t, <1>1 DEF Frame1, TopGone, StackIndexed
<1>3. ASSUME NEW f, TopNew(f) PROVE FALSE
  BY <1>1, <1>3 DEF TopNew
<1>4. ASSUME NEW f, TopIs(f), f.running = None PROVE FALSE
  BY <1>t, <1>1, <1>4 DEF TopIs
<1>5. ~OpenReturns
  BY <1>t, <1>2, OpenReturnsEffect
<1>6. ~LoadReturns
  BY <1>t, <1>4, LoadReturnsEffect
<1>7. ~InitReturns
  BY <1>t, <1>4, InitReturnsEffect
<1>8. ASSUME NEW k \in Libs, Reopen(k) PROVE FALSE
  BY <1>8, <1>t, <1>2, <1>3, ReopenEffect DEF ReopenReloads, ReopenCounts
<1>9. ASSUME NEW k \in Libs, NEW local \in BOOLEAN, Dlopen(k, local) PROVE FALSE
  BY <1>9, <1>t, <1>3, DlopenEffect
<1>10. ASSUME NEW i \in DOMAIN dl, Dlclose(i) PROVE FALSE
  BY <1>2, <1>10 DEF Dlclose
<1>11. ~(LoadsOn \/ (\E k \in Libs : AddFails(k)) \/ NeededReturns \/ Exit \/ FreeNext \/ FreeMapDone \/ FreeDepended
         \/ Free1Library \/ UNCHANGED vars)
  BY <1>2, LoadsOnKeeps DEF AddFails, NeededReturns, Exit, FreeNext, FreeMapDone, FreeDepended, Free1Library, freeing, vars
<1> QED  BY <1>5, <1>6, <1>7, <1>8, <1>9, <1>10, <1>11, NoFailure DEF Next, Loading, LoadsOn

(* The init functions that begin in this step come after those of what the *)
(* library needs.                                                          *)
LEMMA DepsFirstStep ==
  ASSUME Structure, ExitOK, Running, [Next]_vars, NEW l \in Emulated, InitBegins(l), ~failed, l \notin Reach[l],
         NEW x \in Reach[l] \cap Emulated
  PROVE  initDone[x] \/ Closed(x) \/ \E i \in 1 .. Len(stack) - 1 : Pending(x, i)
<1>t. TypeOK /\ CallsOK /\ EmulatedOnly /\ l \in Libs /\ x \in Libs
  BY EmulatedFacts DEF Structure
<1>0. Complete /\ InitsOK /\ FiniOK
  BY DEF Running
<1>1. RunElfInit
  BY <1>0, BeginsInRunElfInit
<1>2. PICK f \in FrameSet, h \in Emulated :
          /\ TopIs(f) /\ SameFrame(f, Frame1) /\ Frame1.todo # << >> /\ Frame1.running = None
          /\ Frame1.todo \in Seq(Libs)
          /\ h = Head(Frame1.todo) /\ f.todo = Tail(Frame1.todo) /\ h \in Libs
          /\ f.running = IF ~initDone[h] /\ ~deferedInit THEN h ELSE None
  BY <1>1, <1>t, RunElfInitEffect
<1>3. h = l
  BY <1>2, EmulatedFacts DEF InitBegins, TopIs
<1>4. PICK s \in Seq(Libs) : s = Frame1.todo
  BY <1>2
<1>5. 1 \in DOMAIN s /\ s[1] = l
  BY <1>2, <1>3, <1>4, TailFacts
<1>6. Len(stack) \in DOMAIN stack /\ Len(stack) \in Nat /\ Len(stack) > 0
  BY <1>2 DEF TopIs, StackIndexed
<1>7. Ordered(s, Done \cup {None} \cup Out(Len(stack) - 1))
  BY <1>0, <1>2, <1>4, <1>6 DEF InitsOK, Frame1
<1>8. x \in Done \cup {None} \cup Out(Len(stack) - 1)
  <2>1. ~(\E j \in 1 .. 1 - 1 : s[j] = x)
    OBVIOUS
  <2> QED  BY <1>5, <1>7, <2>1 DEF Ordered
<1>9. CASE x \in Done
  <2>1. ~exiting
    BY <1>1 DEF RunElfInit, ExitOK
  <2> QED  BY <1>0, <1>9, <1>t, <2>1 DEF Done, FiniOK, FiniCloses
<1>10. CASE x \in Out(Len(stack) - 1)
  BY <1>10 DEF Out, Pend, Pending
<1> QED  BY <1>8, <1>9, <1>10, <1>t, EmulatedFacts

(* RunDeferedElfInit begins the init functions of a library only after     *)
(* those of everything it needs, but for what dlclose closed and what the  *)
(* dlopens around this one have still to initialise, unless it needs       *)
(* itself or some library was not found.                                   *)
THEOREM DepsFirstTheorem == Spec => DepsFirst
<1>1. ASSUME Structure, ExitOK, Running, [Next]_vars
      PROVE  [\A l \in Emulated :
                InitBegins(l) /\ ~failed /\ l \notin Reach[l] =>
                  \A x \in Reach[l] \cap Emulated :
                    initDone[x] \/ Closed(x) \/ \E i \in 1 .. Len(stack) - 1 : Pending(x, i)]_vars
  BY <1>1, DepsFirstStep
<1> QED  BY <1>1, ExitAlways, StructureAlways, RunningAlways, PTL DEF Spec, DepsFirst

-----------------------------------------------------------------------------
(* One handle for each library that no init function opened again.         *)

(* A step that leaves the handles alone keeps OneHandle, if it begins no   *)
(* dlopen and makes no library inactive.                                   *)
LEMMA OneHandleKept ==
  ASSUME OneHandle, UNCHANGED <<dl, reentered>>,
         \A j \in DOMAIN stack' : /\ j \in DOMAIN stack /\ stack'[j].lib = stack[j].lib
                                  /\ stack'[j].handle = stack[j].handle,
         \A l \in Owned' : active'[l] \/ (l \in Owned /\ ~active[l])
  PROVE  OneHandle'
<1>1. HandlesApart'
  BY DEF OneHandle, HandlesApart
<1>2. FrameHandle'
  BY DEF OneHandle, FrameHandle
<1>3. FramesApart'
  BY DEF OneHandle, FramesApart
<1>4. InactiveClosed'
  BY DEF OneHandle, InactiveClosed, Closed
<1> QED  BY <1>1, <1>2, <1>3, <1>4 DEF OneHandle

(* OneHandle when dlopen returns.                                          *)
LEMMA OneHandleReturns ==
  ASSUME Structure, OneHandle, OpenReturns
  PROVE  OneHandle'
<1>t. TypeOK
  BY DEF Structure
<1>1. TopGone /\ (OpenCounts \/ OpenAdds \/ OpenMain)
  BY <1>t, OpenReturnsEffect
<1>2. UNCHANGED <<active, reentered>> /\ Owned' = Owned
  BY DEF OpenReturns, bounds, lists, Owned
<1>3. /\ \A j \in DOMAIN stack' : j \in DOMAIN stack /\ stack'[j] = stack[j] /\ j # Len(stack)
      /\ Len(stack) \in DOMAIN stack
  BY <1>1 DEF TopGone, StackIndexed
<1>4. FramesApart'
  BY <1>2, <1>3 DEF OneHandle, FramesApart
<1>5. Frame1.lib \in Owned \ reentered => active[Frame1.lib]
  BY <1>3 DEF OneHandle, InactiveClosed, Frame1
<1>6. \A j \in DOMAIN stack' : stack'[j].lib = Frame1.lib /\ Frame1.lib \in Libs => Frame1.lib \in reentered
  BY <1>3 DEF OneHandle, FramesApart, Frame1
<1>7. CASE OpenCounts
  <2>1. PICK i \in DOMAIN dl : i = Frame1.handle /\ Counted(i, dl[i].count + 1)
    BY <1>7 DEF OpenCounts, Counted
  <2>2. Frame1.lib = dl[i].lib /\ Frame1.lib \in Libs
    BY <1>3, <1>7, <2>1, EmulatedFacts DEF Structure, FramesOK, Frame1, OpenCounts
  <2>3. HandlesApart'
    BY <1>2, <2>1 DEF OneHandle, HandlesApart, Counted
  <2>4. FrameHandle'
    <3>1. ASSUME NEW k \in DOMAIN dl', NEW j \in DOMAIN stack', dl'[k].lib = stack'[j].lib, dl'[k].lib \notin reentered'
          PROVE  stack'[j].handle = k /\ dl'[k].count = 0
      <4>1. k \in DOMAIN dl /\ dl[k].lib = dl'[k].lib /\ (k # i => dl'[k] = dl[k])
        BY <2>1 DEF Counted
      <4>2. k # i
        BY <1>2, <1>6, <2>2, <3>1, <4>1
      <4> QED  BY <1>2, <1>3, <3>1, <4>1, <4>2 DEF OneHandle, FrameHandle
    <3> QED  BY <3>1 DEF FrameHandle
  <2>5. InactiveClosed'
    <3>1. ASSUME NEW l \in Owned' \ reentered', ~active'[l]
          PROVE  l \in Emulated /\ Closed(l)' /\ \A j \in DOMAIN stack' : stack'[j].lib # l
      <4>1. l \in Emulated /\ Closed(l) /\ \A j \in DOMAIN stack : stack[j].lib # l
        BY <1>2, <3>1 DEF OneHandle, InactiveClosed
      <4>2. l # dl[i].lib
        BY <1>2, <1>5, <2>2, <3>1
      <4>3. DOMAIN dl \subseteq DOMAIN dl' /\ \A k \in DOMAIN dl : dl[k].lib = l => dl'[k] = dl[k]
        BY <2>1, <4>2 DEF Counted
      <4> QED  BY <1>3, <4>1, <4>3, ClosedKept
    <3> QED  BY <3>1 DEF InactiveClosed
  <2> QED  BY <1>4, <2>3, <2>4, <2>5 DEF OneHandle
<1>8. CASE OpenAdds
  <2>1. \A i \in DOMAIN dl : dl[i].lib = Frame1.lib => Frame1.lib \in reentered
    <3>1. ASSUME NEW i \in DOMAIN dl, dl[i].lib = Frame1.lib, Frame1.lib \notin reentered PROVE FALSE
      <4>1. Frame1.handle = i
        BY <1>3, <3>1 DEF OneHandle, FrameHandle, Frame1
      <4> QED  BY <1>8, <4>1 DEF OpenAdds
    <3> QED  BY <3>1
  <2>2. ASSUME NEW k \in DOMAIN dl'
        PROVE  \/ k \in DOMAIN dl /\ dl'[k] = dl[k]
               \/ k = Len(dl) + 1 /\ dl'[k].lib = Frame1.lib
    <3>1. k \in DOMAIN dl \/ k = Len(dl) + 1
      BY <1>8 DEF OpenAdds
    <3> QED  BY <1>8, <3>1 DEF OpenAdds
  <2>3. HandlesApart'
    <3>1. ASSUME NEW i \in DOMAIN dl', NEW j \in DOMAIN dl', dl'[i].lib = dl'[j].lib, dl'[i].lib \notin reentered'
          PROVE  i = j
      <4>1. CASE i \in DOMAIN dl /\ dl'[i] = dl[i] /\ j \in DOMAIN dl /\ dl'[j] = dl[j]
        BY <1>2, <3>1, <4>1 DEF OneHandle, HandlesApart
      <4> QED  BY <1>2, <2>1, <2>2, <3>1, <4>1
    <3> QED  BY <3>1 DEF HandlesApart
  <2>4. FrameHandle'
    <3>1. ASSUME NEW k \in DOMAIN dl', NEW j \in DOMAIN stack', dl'[k].lib = stack'[j].lib, dl'[k].lib \notin reentered'
          PROVE  stack'[j].handle = k /\ dl'[k].count = 0
      <4>1. k \in DOMAIN dl /\ dl'[k] = dl[k]
        BY <1>2, <1>6, <1>8, <2>2, <3>1 DEF OpenAdds
      <4> QED  BY <1>2, <1>3, <3>1, <4>1 DEF OneHandle, FrameHandle
    <3> QED  BY <3>1 DEF FrameHandle
  <2>5. InactiveClosed'
    <3>1. ASSUME NEW l \in Owned' \ reentered', ~active'[l]
          PROVE  l \in Emulated /\ Closed(l)' /\ \A j \in DOMAIN stack' : stack'[j].lib # l
      <4>1. l \in Emulated /\ Closed(l) /\ \A j \in DOMAIN stack : stack[j].lib # l
        BY <1>2, <3>1 DEF OneHandle, InactiveClosed
      <4>2. DOMAIN dl \subseteq DOMAIN dl' /\ \A k \in DOMAIN dl : dl'[k] = dl[k]
        BY <1>8 DEF OpenAdds
      <4> QED  BY <1>3, <4>1, <4>2, ClosedKept
    <3> QED  BY <3>1 DEF InactiveClosed
  <2> QED  BY <1>4, <2>3, <2>4, <2>5 DEF OneHandle
<1>9. CASE OpenMain
  <2>1. \A l \in Owned' : active'[l] \/ (l \in Owned /\ ~active[l])
    BY <1>2
  <2> QED  BY <1>2, <1>3, <1>9, <2>1, OneHandleKept DEF OpenMain
<1> QED  BY <1>1, <1>7, <1>8, <1>9

(* A dlopen of l begins: no other one of l is under way, or l is           *)
(* reentered.                                                              *)
LEMMA OneHandlePush ==
  ASSUME OneHandle, NEW l \in Libs, NEW f \in FrameSet, TopNew(f), f.lib = l, UNCHANGED dl, Owned' = Owned,
         NoteReentered(l),
         \A i \in DOMAIN dl : dl[i].lib = l => l \in reentered \/ (f.handle = i /\ dl[i].count = 0),
         \A x \in Owned : active[x] => active'[x],
         l \in Owned \ reentered => active'[l]
  PROVE  OneHandle'
<1>1. /\ \A j \in DOMAIN stack' : (j \in DOMAIN stack /\ stack'[j] = stack[j]) \/ (j = Len(stack) + 1 /\ stack'[j] = f)
      /\ \A j \in DOMAIN stack : j # Len(stack) + 1
  BY DEF TopNew
<1>2. reentered \subseteq reentered' /\ \A j \in DOMAIN stack : stack[j].lib = l => l \in reentered'
  BY DEF NoteReentered, Opening
<1>3. HandlesApart'
  BY <1>2 DEF OneHandle, HandlesApart
<1>4. FrameHandle'
  <2>1. ASSUME NEW k \in DOMAIN dl', NEW j \in DOMAIN stack', dl'[k].lib = stack'[j].lib, dl'[k].lib \notin reentered'
        PROVE  stack'[j].handle = k /\ dl'[k].count = 0
    <3>1. CASE j \in DOMAIN stack /\ stack'[j] = stack[j]
      BY <1>2, <2>1, <3>1 DEF OneHandle, FrameHandle
    <3>2. CASE stack'[j] = f
      BY <1>2, <2>1, <3>2
    <3> QED  BY <1>1, <3>1, <3>2
  <2> QED  BY <2>1 DEF FrameHandle
<1>5. FramesApart'
  <2>1. ASSUME NEW i \in DOMAIN stack', NEW j \in DOMAIN stack', stack'[i].lib = stack'[j].lib,
               stack'[i].lib \in Libs \ reentered'
        PROVE  i = j
    <3>1. CASE i \in DOMAIN stack /\ stack'[i] = stack[i] /\ j \in DOMAIN stack /\ stack'[j] = stack[j]
      BY <1>2, <2>1, <3>1 DEF OneHandle, FramesApart
    <3> QED  BY <1>1, <1>2, <2>1, <3>1
  <2> QED  BY <2>1 DEF FramesApart
<1>6. InactiveClosed'
  <2>1. ASSUME NEW x \in Owned' \ reentered', ~active'[x]
        PROVE  x \in Emulated /\ Closed(x)' /\ \A j \in DOMAIN stack' : stack'[j].lib # x
    <3>1. x \in Owned \ reentered /\ ~active[x] /\ x # l
      BY <1>2, <2>1
    <3>2. x \in Emulated /\ Closed(x) /\ \A j \in DOMAIN stack : stack[j].lib # x
      BY <3>1 DEF OneHandle, InactiveClosed
    <3> QED  BY <1>1, <3>1, <3>2 DEF Closed
  <2> QED  BY <2>1 DEF InactiveClosed
<1> QED  BY <1>3, <1>4, <1>5, <1>6 DEF OneHandle

(* OneHandle when dlopen finds a handle.                                   *)
LEMMA OneHandleReopen ==
  ASSUME Structure, OneHandle, NEW l \in Libs, Reopen(l)
  PROVE  OneHandle'
<1>t. TypeOK
  BY DEF Structure
<1>1. NoteReentered(l) /\ Owned' = Owned
  BY DEF Reopen, lists, Owned
<1>2. reentered \subseteq reentered' /\ \A j \in DOMAIN stack : stack[j].lib = l => l \in reentered'
  BY <1>1 DEF NoteReentered, Opening
<1>3. CASE ReopenReloads(l)
  <2>1. PICK i \in DOMAIN dl, f \in FrameSet : dl[i].lib = l /\ dl[i].count = 0 /\ TopNew(f) /\ f.lib = l /\ f.handle = i
    BY <1>3 DEF ReopenReloads
  <2>2. UNCHANGED dl /\ active' = [active EXCEPT ![l] = TRUE]
    BY <1>3 DEF ReopenReloads
  <2>3. \A k \in DOMAIN dl : dl[k].lib = l => l \in reentered \/ (f.handle = k /\ dl[k].count = 0)
    BY <2>1 DEF OneHandle, HandlesApart
  <2>4. \A x \in Owned : active[x] => active'[x]
    BY <1>t, <2>2 DEF TypeOK, Owned
  <2>5. active'[l]
    BY <1>t, <2>2 DEF TypeOK
  <2> QED  BY <1>1, <2>1, <2>2, <2>3, <2>4, <2>5, OneHandlePush
<1>4. CASE ReopenCounts(l)
  <2>1. PICK i \in DOMAIN dl :
          /\ dl[i].lib = l /\ Counted(i, dl[i].count + 1)
          /\ \/ ~(dl[i].count = 0 /\ dl[i].dlopened /\ l \in Emulated) /\ active' = active
             \/ active' = [active EXCEPT ![l] = TRUE]
    BY <1>4 DEF ReopenCounts
  <2>2. UNCHANGED stack
    BY <1>4 DEF ReopenCounts
  <2>a. \A x \in Owned : ~active'[x] => ~active[x] /\ (x = l => ~(dl[i].count = 0 /\ dl[i].dlopened /\ l \in Emulated))
    <3>0. active \in [Libs -> BOOLEAN] /\ Owned \subseteq Libs
      BY <1>t DEF TypeOK, Owned, Range, LibSeqs
    <3>1. CASE ~(dl[i].count = 0 /\ dl[i].dlopened /\ l \in Emulated) /\ active' = active
      BY <3>1
    <3>2. CASE active' = [active EXCEPT ![l] = TRUE]
      BY <3>0, <3>2
    <3> QED  BY <2>1, <3>1, <3>2
  <2>3. HandlesApart'
    BY <1>2, <2>1 DEF OneHandle, HandlesApart, Counted
  <2>4. FrameHandle'
    <3>1. ASSUME NEW k \in DOMAIN dl', NEW j \in DOMAIN stack', dl'[k].lib = stack'[j].lib, dl'[k].lib \notin reentered'
          PROVE  stack'[j].handle = k /\ dl'[k].count = 0
      <4>1. k \in DOMAIN dl /\ dl[k].lib = dl'[k].lib /\ (k # i => dl'[k] = dl[k])
        BY <2>1 DEF Counted
      <4>2. k # i
        BY <1>2, <2>1, <2>2, <3>1, <4>1
      <4> QED  BY <1>2, <2>2, <3>1, <4>1, <4>2 DEF OneHandle, FrameHandle
    <3> QED  BY <3>1 DEF FrameHandle
  <2>5. FramesApart'
    BY <1>2, <2>2 DEF OneHandle, FramesApart
  <2>6. InactiveClosed'
    <3>1. ASSUME NEW x \in Owned' \ reentered', ~active'[x]
          PROVE  x \in Emulated /\ Closed(x)' /\ \A j \in DOMAIN stack' : stack'[j].lib # x
      <4>1. x \in Owned \ reentered /\ ~active[x]
        BY <1>1, <1>2, <2>a, <3>1
      <4>2. x \in Emulated /\ Closed(x) /\ \A j \in DOMAIN stack : stack[j].lib # x
        BY <4>1 DEF OneHandle, InactiveClosed
      <4>3. x # l
        <5>1. ASSUME x = l PROVE FALSE
          <6>1. PICK k \in DOMAIN dl : dl[k].lib = x /\ dl[k].dlopened /\ dl[k].count = 0
            BY <4>2 DEF Closed
          <6>2. k = i
            BY <2>1, <4>1, <5>1, <6>1 DEF OneHandle, HandlesApart
          <6> QED  BY <2>a, <3>1, <4>1, <4>2, <5>1, <6>1, <6>2
        <5> QED  BY <5>1
      <4>4. DOMAIN dl \subseteq DOMAIN dl' /\ \A k \in DOMAIN dl : dl[k].lib = x => dl'[k] = dl[k]
        BY <2>1, <4>3 DEF Counted
      <4> QED  BY <2>2, <4>2, <4>4, ClosedKept
    <3> QED  BY <3>1 DEF InactiveClosed
  <2> QED  BY <2>3, <2>4, <2>5, <2>6 DEF OneHandle
<1> QED  BY <1>t, <1>3, <1>4, ReopenEffect

(* OneHandle when dlopen loads a library.                                  *)
LEMMA OneHandleDlopen ==
  ASSUME Structure, OneHandle, NEW l \in Libs, NEW local \in BOOLEAN, Dlopen(l, local)
  PROVE  OneHandle'
<1>t. TypeOK
  BY DEF Structure
<1>1. NoteReentered(l) /\ Owned' = Owned /\ UNCHANGED <<dl, active>> /\ ~Known(l)
  BY DEF Dlopen, Owned
<1>2. TopNew(Frame(l, << >>, l \notin Owned, 0)) /\ Frame(l, << >>, l \notin Owned, 0).lib = l
  BY <1>t, DlopenEffect
<1>3. PICK f \in FrameSet : TopNew(f) /\ f.lib = l
  BY <1>2 DEF TopNew
<1>4. \A i \in DOMAIN dl : dl[i].lib # l
  BY <1>1 DEF Known
<1>5. l \in Owned \ reentered => active[l]
  BY <1>4 DEF OneHandle, InactiveClosed, Closed
<1> QED  BY <1>1, <1>3, <1>4, <1>5, OneHandlePush

(* OneHandle when a handle is closed.                                      *)
LEMMA OneHandleDlclose ==
  ASSUME Structure, OneHandle, NEW i \in DOMAIN dl, Dlclose(i)
  PROVE  OneHandle'
<1>t. TypeOK
  BY DEF Structure
<1>1. UNCHANGED <<stack, reentered>> /\ Owned' = Owned
  BY DEF Dlclose, lists, bounds, Owned
<1>2. Counted(i, dl[i].count - 1) /\ dl[i].count > 0 /\ dl[i].count \in Nat
  BY <1>t, DlcloseEffect, DlFacts
<1>3. dl[i].lib \notin reentered => \A j \in DOMAIN stack : stack[j].lib # dl[i].lib
  <2>1. dl[i].count # 0
    BY <1>2
  <2> QED  BY <2>1 DEF OneHandle, FrameHandle
<1>4. HandlesApart'
  BY <1>1, <1>2 DEF OneHandle, HandlesApart, Counted
<1>5. FrameHandle'
  <2>1. ASSUME NEW k \in DOMAIN dl', NEW j \in DOMAIN stack', dl'[k].lib = stack'[j].lib, dl'[k].lib \notin reentered'
        PROVE  stack'[j].handle = k /\ dl'[k].count = 0
    <3>1. k \in DOMAIN dl /\ dl[k].lib = dl'[k].lib /\ (k # i => dl'[k] = dl[k])
      BY <1>2 DEF Counted
    <3>2. k # i
      BY <1>1, <1>3, <2>1, <3>1
    <3> QED  BY <1>1, <2>1, <3>1, <3>2 DEF OneHandle, FrameHandle
  <2> QED  BY <2>1 DEF FrameHandle
<1>6. FramesApart'
  BY <1>1 DEF OneHandle, FramesApart
<1>7. InactiveClosed'
  <2>1. ASSUME NEW x \in Owned' \ reentered', ~active'[x]
        PROVE  x \in Emulated /\ Closed(x)' /\ \A j \in DOMAIN stack' : stack'[j].lib # x
    <3>1. x \in Owned \ reentered
      BY <1>1, <2>1
    <3>2. CASE ~active[x]
      <4>1. x \in Emulated /\ Closed(x) /\ \A j \in DOMAIN stack : stack[j].lib # x
        BY <3>1, <3>2 DEF OneHandle, InactiveClosed
      <4>2. \A k \in DOMAIN dl : dl[k].count = 0 => dl'[k] = dl[k]
        BY <1>2 DEF Counted
      <4>3. DOMAIN dl \subseteq DOMAIN dl'
        BY <1>2 DEF Counted
      <4> QED  BY <1>1, <4>1, <4>2, <4>3, ClosedKept
    <3>3. CASE active[x]
      <4>1. LastClose(i) /\ dl[i].lib \in Emulated /\ active' = [active EXCEPT ![dl[i].lib] = FALSE]
        BY <2>1, <3>3 DEF Dlclose
      <4>2. x = dl[i].lib
        <5>1. x \in Libs
          BY <4>1, <1>t, <3>1, RangeFacts DEF TypeOK, Owned, LibSeqs
        <5> QED  BY <1>t, <2>1, <3>3, <4>1, <5>1 DEF TypeOK
      <4>3. dl[i].count = 1 /\ dl[i].dlopened
        BY <4>1 DEF LastClose
      <4>4. dl'[i].count = 0 /\ dl'[i].lib = x /\ dl'[i].dlopened /\ i \in DOMAIN dl'
        BY <1>2, <4>2, <4>3 DEF Counted
      <4>5. Closed(x)'
        BY <4>4 DEF Closed
      <4> QED  BY <1>1, <1>3, <3>1, <4>1, <4>2, <4>5
    <3> QED  BY <3>2, <3>3
  <2> QED  BY <2>1 DEF InactiveClosed
<1> QED  BY <1>4, <1>5, <1>6, <1>7 DEF OneHandle

(* A library that AddNeededLib puts into a list is active.                 *)
LEMMA OneHandleLoads ==
  ASSUME Structure, OneHandle, LoadsOn
  PROVE  OneHandle'
<1>t. TypeOK /\ OwnedOnce /\ CallsOK
  BY DEF Structure
<1>1. UNCHANGED <<dl, reentered, stack>>
  BY LoadsOnKeeps
<1>2. ASSUME UNCHANGED active, Owned' = Owned PROVE OneHandle'
  BY <1>1, <1>2, OneHandleKept
<1>3. ASSUME NEW l \in Libs, Owned' = Owned \cup {l}, active' = [active EXCEPT ![l] = TRUE]
      PROVE  OneHandle'
  <2>1. \A x \in Owned' : active'[x] \/ (x \in Owned /\ ~active[x])
    BY <1>t, <1>3, RangeFacts DEF TypeOK, Owned, LibSeqs
  <2> QED  BY <1>1, <2>1, OneHandleKept
<1>4. ASSUME NEW l \in Libs, AddLoaded(l) PROVE OneHandle'
  <2>1. UNCHANGED active /\ Owned' = Owned
    BY <1>4, <1>t, AddLoadedEffect DEF AddLoaded, Listed
  <2> QED  BY <1>2, <2>1
<1>5. ASSUME NEW l \in Libs, AddEmulated(l) PROVE OneHandle'
  BY <1>5, <1>t, <1>3, AddEmulatedEffect DEF Listed
<1>6. ASSUME NativeReturns PROVE OneHandle'
  <2>1. Top1.me \in Native \ Owned /\ Listed(Top1.me, Top2.local) /\ active' = [active EXCEPT ![Top1.me] = TRUE]
    BY <1>6, <1>t, NativeReturnsEffect
  <2>2. PICK l \in Libs : l = Top1.me
    BY <2>1, EmulatedFacts
  <2> QED  BY <1>3, <2>1, <2>2 DEF Listed
<1>7. ASSUME \/ (\E l \in Libs : NewNative(l) \/ InitNative(l) \/ InitEmulated(l)) \/ StartInits PROVE OneHandle'
  <2>1. UNCHANGED active /\ Owned' = Owned
    BY <1>7 DEF NewNative, InitNative, InitEmulated, StartInits, lists, Owned
  <2> QED  BY <1>2, <2>1
<1> QED  BY <1>4, <1>5, <1>6, <1>7 DEF LoadsOn

(* Every step keeps OneHandle.                                             *)
LEMMA OneHandleStep ==
  ASSUME Structure, OneHandle, [Next]_vars
  PROVE  OneHandle'
<1>t. TypeOK /\ OwnedOnce /\ CallsOK /\ EmulatedOnly
  BY DEF Structure
<1>1. ASSUME UNCHANGED <<dl, reentered, active>>, Owned' = Owned,
             \/ UNCHANGED stack \/ TopGone \/ (\E f \in FrameSet : TopIs(f) /\ SameFrame(f, Frame1))
      PROVE  OneHandle'
  <2>1. CASE UNCHANGED stack
    BY <1>1, <2>1, OneHandleKept
  <2>2. CASE TopGone
    <3>1. \A j \in DOMAIN stack' : j \in DOMAIN stack /\ stack'[j] = stack[j]
      BY <2>2 DEF TopGone, StackIndexed
    <3> QED  BY <1>1, <3>1, OneHandleKept
  <2>3. ASSUME NEW f \in FrameSet, TopIs(f), SameFrame(f, Frame1) PROVE OneHandle'
    <3>1. DOMAIN stack' = DOMAIN stack
      BY <2>3 DEF TopIs, StackIndexed
    <3>2. ASSUME NEW j \in DOMAIN stack
          PROVE  stack'[j].lib = stack[j].lib /\ stack'[j].handle = stack[j].handle
      <4>1. CASE j = Len(stack)
        BY <2>3, <4>1 DEF TopIs, SameFrame, Frame1
      <4>2. CASE j # Len(stack)
        <5>1. stack'[j] = stack[j]
          BY <2>3, <4>2 DEF TopIs, StackIndexed
        <5> QED  BY <5>1
      <4> QED  BY <4>1, <4>2
    <3> QED  BY <1>1, <3>1, <3>2, OneHandleKept
  <2> QED  BY <1>1, <2>1, <2>2, <2>3
<1>2. ASSUME LoadReturns \/ RunElfInit \/ InitReturns \/ LoadFails PROVE OneHandle'
  <2>1. UNCHANGED <<dl, reentered, active>> /\ Owned' = Owned
    BY <1>2 DEF LoadReturns, RunElfInit, InitReturns, LoadFails, lists, bounds, Owned
  <2>2. TopGone \/ \E f \in FrameSet : TopIs(f) /\ SameFrame(f, Frame1)
    <3>1. CASE LoadFails
      BY <3>1, <1>t, PopEffect DEF LoadFails, At, CallsOK
    <3> QED  BY <1>2, <1>t, <3>1, LoadReturnsEffect, RunElfInitEffect, InitReturnsEffect
  <2> QED  BY <1>1, <2>1, <2>2
<1>3. ASSUME \/ (\E l \in Libs : AddFails(l)) \/ NeededReturns \/ NeededFails \/ Exit \/ FreeNext \/ FreeMapDone
             \/ FreeDepended \/ Free1Library \/ UNCHANGED vars
      PROVE  OneHandle'
  <2>1. UNCHANGED <<dl, reentered, active, stack, maplib, local_maplib>>
    BY <1>3 DEF AddFails, NeededReturns, NeededFails, Exit, FreeNext, FreeMapDone, FreeDepended, Free1Library, freeing,
       lists, bounds, vars
  <2> QED  BY <1>1, <2>1 DEF Owned
<1> QED  BY <1>2, <1>3, OneHandleLoads, OneHandleReturns, OneHandleReopen, OneHandleDlopen, OneHandleDlclose
         DEF Next, Loading, LoadsOn

(* OneHandle holds at the start.                                           *)
LEMMA OneHandleInit ==
  ASSUME Init
  PROVE  OneHandle
<1>1. DOMAIN dl = {} /\ Owned = {} /\ DOMAIN stack = 1 .. 1
  BY InitFacts
<1>2. \A j \in DOMAIN stack : j = 1
  BY <1>1
<1>3. HandlesApart /\ FrameHandle /\ FramesApart /\ InactiveClosed
  BY <1>1, <1>2 DEF HandlesApart, FrameHandle, FramesApart, InactiveClosed
<1> QED  BY <1>3 DEF OneHandle

(* The handles when no dlopen is under way.                                *)
LEMMA LiveHandles ==
  ASSUME Structure, ExitOK, Running, OneHandle
  PROVE  OpenIsLive
<1>t. TypeOK /\ OwnedOnce /\ CallsOK /\ EmulatedOnly
  BY DEF Structure
<1>0. Complete /\ InitsOK /\ FiniOK
  BY DEF Running
<1>1. SUFFICES ASSUME stack = << >>, ~exiting, ~failed, NEW i \in DOMAIN dl, dl[i].count > 0, dl[i].lib \notin reentered
               PROVE  /\ active[dl[i].lib]
                      /\ \A x \in (Reach[dl[i].lib] \cup {dl[i].lib}) \cap Emulated :
                            initDone[x] \/ (x # dl[i].lib /\ Closed(x))
  BY DEF OpenIsLive
<1>2. dl[i].lib \in Owned /\ dl[i].lib \in Libs
  BY <1>t, DlFacts DEF OwnedOnce
<1>3. PICK l \in Libs : l = dl[i].lib
  BY <1>2
<1>4. calls = << >>
  BY <1>t, <1>1 DEF CallsOK
<1>5. ~Closed(l)
  <2>1. ASSUME Closed(l) PROVE FALSE
    <3>1. PICK k \in DOMAIN dl : dl[k].lib = l /\ dl[k].count = 0
      BY <2>1 DEF Closed
    <3>2. k = i
      BY <1>1, <1>3, <3>1 DEF OneHandle, HandlesApart
    <3> QED  BY <1>1, <3>1, <3>2
  <2> QED  BY <2>1
<1>6. active[l]
  BY <1>1, <1>2, <1>3, <1>5 DEF OneHandle, InactiveClosed
<1>7. Final \subseteq Done
  <2>1. defered = << >> /\ Len(stack) = 0
    BY <1>0, <1>1, <1>4 DEF InitsOK
  <2>2. Out(0) = {} /\ Range(defered) = {}
    BY <2>1, EmptyRange DEF Out
  <2> QED  BY <1>0, <1>1, <2>1, <2>2 DEF InitsOK
<1>8. \A x \in Libs : x \in Done => initDone[x] \/ Closed(x)
  BY <1>0, <1>1 DEF Done, FiniOK, FiniCloses
<1>9. l \in Emulated => l \in Final
  BY <1>0, <1>1, <1>2, <1>3, <1>4 DEF Complete, Final
<1>10. Reach[l] \cap Emulated \subseteq Final
  <2>1. Range(Needs[l]) \subseteq Range(needed[l])
    <3>1. l \in Native \/ finalized[l]
      BY <1>9 DEF Final, Emulated
    <3> QED  BY <1>0, <1>1, <1>2, <1>3, <3>1 DEF Complete
  <2>2. DOMAIN calls = {}
    BY <1>4
  <2> QED  BY <1>0, <1>1, <2>1, <2>2, ReachFinal
<1>11. ASSUME NEW x \in (Reach[l] \cup {l}) \cap Emulated PROVE initDone[x] \/ (x # l /\ Closed(x))
  <2>1. x \in Libs /\ x \in Final
    BY <1>9, <1>10, <1>11, EmulatedFacts
  <2> QED  BY <1>5, <1>7, <1>8, <2>1
<1> QED  BY <1>3, <1>6, <1>11

(* When no dlopen is under way, the library of an open handle is active    *)
(* and initialised, and so is everything it needs but what dlclose closed  *)
(* by a handle of its own, unless some library was not found or the        *)
(* library was opened by an init that its own dlopen ran.                  *)
THEOREM OpenIsLiveTheorem == Spec => []OpenIsLive
<1>1. Spec => []OneHandle
  BY OneHandleInit, OneHandleStep, StructureAlways, PTL DEF Spec
<1> QED  BY <1>1, LiveHandles, ExitAlways, StructureAlways, RunningAlways, PTL
==============================================================================
