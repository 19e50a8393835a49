--------------------------- MODULE MemProtProofs ---------------------------
(***************************************************************************)
(* What MemProt keeps in step, for any set of pages and protections, as    *)
(* long as one thread makes its calls one after the other.  (With two, a   *)
(* munmap between another thread's mmap and its setProtection already      *)
(* leaves the byte of an unmapped page behind.)                            *)
(***************************************************************************)
EXTENDS MemProt, TLAPS

Arg == [page : Page \cup {None}, prot : SUBSET RWX, to : Page \cup {None}]

(* A call has its arguments.                                               *)
CallHasArguments ==
  /\ arg \in [Thread -> Arg]
  /\ \A t \in Thread : pc[t] # "run" => At(t) \in Page
  /\ \A t \in Thread : pc[t] \in {"moved", "grown"} =>
       arg[t].to \in mapped /\ arg[t].to # At(t)

(* The page whose byte the call of t still has to change.                  *)
Pending(t) ==
  IF pc[t] \in {"mmap", "set", "update", "free"} THEN {At(t)}
  ELSE IF pc[t] = "moved" THEN {At(t), arg[t].to}
  ELSE IF pc[t] = "grown" THEN {arg[t].to}
  ELSE IF pc[t] = "mprotect" THEN {At(t)} \cap mapped ELSE {}

(* Every other page is settled: PROT_DYNAREC means protected, and nothing  *)
(* is remembered of an unmapped page.                                      *)
Settled(p) ==
  /\ "D" \in prot[p] => p \in mapped /\ "W" \notin kern[p]
  /\ p \notin mapped => prot[p] = {} /\ (p \notin cut => db[p] = "none")
PagesSettled == \A p \in Page : (\A t \in Thread : p \notin Pending(t)) => Settled(p)

(* What a call has done to its page so far.                                *)
PageUnderCall == \A t \in Thread :
  /\ pc[t] \in {"mmap", "set", "update"} => At(t) \in mapped
  /\ pc[t] \in {"mprotect", "update"} /\ At(t) \in mapped => kern[At(t)] = arg[t].prot
  /\ pc[t] = "munmap" => db[At(t)] = "none"
  /\ pc[t] = "free" /\ At(t) \notin cut => db[At(t)] = "none"

ProtInv == TypeOK /\ CallHasArguments /\ PagesSettled /\ PageUnderCall

-----------------------------------------------------------------------------
(* PROT_READ added to a set of permissions is one.                         *)
LEMMA ImplicitType == ASSUME NEW q \in Prots PROVE Implicit(q) \in SUBSET RWX
BY MemProtAssumption DEF Implicit, RWX

(* The initial state.                                                      *)
LEMMA InitProt == Init => ProtInv
<1> SUFFICES ASSUME Init PROVE ProtInv
  OBVIOUS
<1>1. TypeOK
  BY DEF Init, TypeOK, RWX
<1>2. CallHasArguments
  BY DEF Init, CallHasArguments, Arg, NoArg, At
<1>3. PagesSettled
  BY DEF Init, PagesSettled, Settled
<1>4. PageUnderCall
  BY DEF Init, PageUnderCall
<1> QED
  BY <1>1, <1>2, <1>3, <1>4 DEF ProtInv

(* A step of the only thread keeps the invariant.                          *)
LEMMA GuestProt ==
  ASSUME NEW t, Thread = {t}, ProtInv, Guest(t) PROVE ProtInv'
<1> USE DEF ProtInv, TypeOK, CallHasArguments, Arg, At, PagesSettled, Settled, Pending,
            PageUnderCall, Start, NoArg
<1>1. ASSUME NEW p \in Page, Translate(t, p) PROVE ProtInv'
  BY <1>1 DEF Translate, ProtectDB, RWX
<1>2. ASSUME NEW p \in Page, Store(t, p) PROVE ProtInv'
  BY <1>2 DEF Store, kernel, blocks
<1>3. ASSUME NEW p \in Page, Munmap(t, p) PROVE ProtInv'
  BY <1>3 DEF Munmap, kernel, FreeBlocks
<1>4. ASSUME NEW p \in Page, NEW q \in Prots, Mmap(t, p, q) PROVE ProtInv'
  <2>1. \/ Start(t, "mmap", [NoArg EXCEPT !.page = p, !.prot = Implicit(q)])
        \/ Start(t, "set", [NoArg EXCEPT !.page = p, !.prot = Implicit(q)])
    BY <1>4 DEF Mmap
  <2>2. TypeOK' /\ CallHasArguments'
    <3>1. TypeOK'
      BY <1>4, <2>1, ImplicitType DEF Mmap, KernelMap, Overwritten
    <3>2. arg' \in [Thread -> Arg]
      <4> DEFINE a == [NoArg EXCEPT !.page = p, !.prot = Implicit(q)]
      <4>1. a \in Arg
        BY ImplicitType
      <4>2. arg' = [arg EXCEPT ![t] = a]
        <5> HIDE DEF NoArg
        <5> QED  BY <2>1
      <4> HIDE DEF Arg, a
      <4> QED
        BY <4>1, <4>2
    <3>3. \A u \in Thread : (pc[u] # "run" => At(u) \in Page)'
      BY <1>4, <2>1 DEF Mmap
    <3>4. \A u \in Thread : pc'[u] \notin {"moved", "grown"}
      BY <1>4, <2>1 DEF Mmap
    <3> QED
      BY <3>1, <3>2, <3>3, <3>4
  <2>3. PagesSettled'
    BY <1>4, <2>1, ImplicitType DEF Mmap, KernelMap, Overwritten
  <2>4. PageUnderCall'
    BY <1>4, <2>1, ImplicitType DEF Mmap, KernelMap, Overwritten
  <2> QED
    BY <2>2, <2>3, <2>4
<1>5. ASSUME NEW p \in Page, NEW q \in Prots, Mprotect(t, p, q) PROVE ProtInv'
  <2>1. CASE p \in mapped
    <3>1. TypeOK'
      BY <1>5, <2>1, ImplicitType DEF Mprotect, KernelMap, blocks
    <3>2. CallHasArguments'
      BY <1>5, <2>1, ImplicitType DEF Mprotect, KernelMap, blocks
    <3>3. PagesSettled'
      BY <1>5, <2>1, ImplicitType DEF Mprotect, KernelMap, blocks
    <3>4. PageUnderCall'
      BY <1>5, <2>1, ImplicitType DEF Mprotect, KernelMap, blocks
    <3> QED
      BY <3>1, <3>2, <3>3, <3>4
  <2>2. CASE p \notin mapped
    BY <1>5, <2>2, ImplicitType DEF Mprotect, kernel, blocks
  <2> QED
    BY <2>1, <2>2
<1>6. ASSUME NEW p \in Page, NEW q \in Page, Mremap(t, p, q) PROVE ProtInv'
  BY <1>6 DEF Mremap, Target
<1>7. ASSUME NEW p \in Page, NEW q \in Page, MremapGrow(t, p, q) PROVE ProtInv'
  <2>1. fresh' \in [Page -> BOOLEAN]
    BY <1>7 DEF MremapGrow
  <2>2. TypeOK' /\ CallHasArguments'
    BY <1>7, <2>1 DEF MremapGrow, Target
  <2>3. PagesSettled'
    BY <1>7 DEF MremapGrow, Target
  <2>4. PageUnderCall'
    BY <1>7 DEF MremapGrow, Target
  <2> QED
    BY <2>2, <2>3, <2>4
<1>8. ASSUME NEW p \in Shrunk, MremapShrink(t, p) PROVE ProtInv'
  BY <1>8, MemProtAssumption DEF MremapShrink, KernelUnmap, Overwritten
<1> QED
  BY <1>1, <1>2, <1>3, <1>4, <1>5, <1>6, <1>7, <1>8, MemProtAssumption DEF Guest

(* So does a step of its store and of the fault handler ...                *)
LEMMA HandlerProt ==
  ASSUME NEW t, Thread = {t}, ProtInv, Handler(t) PROVE ProtInv'
<1> USE DEF ProtInv, TypeOK, CallHasArguments, Arg, At, PagesSettled, Settled, Pending,
            PageUnderCall, Start, NoArg, Faults
<1>1. CASE StoreOk(t)
  BY <1>1 DEF StoreOk, kernel, Overwritten, Return
<1>2. CASE HandleDynarec(t)
  BY <1>2 DEF HandleDynarec, UnprotectDB, MarkBlocks, RWX
<1>3. CASE HandleGlitch(t)
  BY <1>3 DEF HandleGlitch, kernel, blocks
<1>4. CASE HandleAgain(t)
  BY <1>4 DEF HandleAgain, kernel, blocks
<1>5. CASE HandleSignal(t)
  BY <1>5 DEF HandleSignal, kernel, blocks, Return
<1> QED
  BY <1>1, <1>2, <1>3, <1>4, <1>5 DEF Handler

(* ... and a step of its call.                                             *)
LEMMA CallProt ==
  ASSUME NEW t, Thread = {t}, ProtInv, Call(t) PROVE ProtInv'
<1> USE DEF ProtInv, TypeOK, CallHasArguments, Arg, At, PagesSettled, Settled, Pending,
            PageUnderCall, Start, NoArg, Goto, Return
<1>1. CASE MmapBlocks(t)
  BY <1>1 DEF MmapBlocks, kernel, MarkBlocks, FreeBlocks
<1>2. CASE SetProtection(t)
  BY <1>2 DEF SetProtection, kernel, blocks, RWX
<1>3. CASE MprotectBlocks(t)
  <2>0. pc' = [pc EXCEPT ![t] = "update"] \/ pc' = [pc EXCEPT ![t] = "run"]
    BY <1>3 DEF MprotectBlocks
  <2>1. TypeOK'
    <3>1. db' \in [Page -> {"none", "clean", "marked"}] /\ listed' \in BOOLEAN
      BY <1>3 DEF MprotectBlocks, MarkBlocks
    <3>2. /\ mapped' = mapped /\ want' = want /\ kern' = kern
          /\ prot' = prot /\ fresh' = fresh /\ cut' = cut
      BY <1>3 DEF MprotectBlocks, kernel
    <3> QED  BY <2>0, <3>1, <3>2
  <2>2. CallHasArguments'
    BY <1>3 DEF MprotectBlocks, kernel, MarkBlocks
  <2>3. PagesSettled'
    BY <1>3 DEF MprotectBlocks, kernel, MarkBlocks
  <2>4. PageUnderCall'
    BY <1>3 DEF MprotectBlocks, kernel, MarkBlocks
  <2> QED
    BY <2>1, <2>2, <2>3, <2>4
<1>4. CASE UpdateProtection(t)
  BY <1>4 DEF UpdateProtection, blocks, RWX
<1>5. CASE MunmapKernel(t)
  BY <1>5 DEF MunmapKernel, KernelUnmap, Overwritten
<1>6. CASE FreeProtection(t)
  BY <1>6 DEF FreeProtection, kernel, blocks
<1>7. CASE MremapMoved(t)
  BY <1>7 DEF MremapMoved, kernel, FreeBlocks
<1>8. CASE MremapGrown(t)
  BY <1>8 DEF MremapGrown, kernel
<1> QED
  BY <1>1, <1>2, <1>3, <1>4, <1>5, <1>6, <1>7, <1>8 DEF Call

(* The invariant of one thread.                                            *)
LEMMA ProtInvAlways ==
  ASSUME NEW CONSTANT t, Thread = {t} PROVE Spec => []ProtInv
<1>1. Init => ProtInv
  BY InitProt
<1>2. ProtInv /\ [Next]_vars => ProtInv'
  <2> SUFFICES ASSUME ProtInv, [Next]_vars PROVE ProtInv'
    OBVIOUS
  <2>1. CASE UNCHANGED vars
    BY <2>1 DEF ProtInv, TypeOK, CallHasArguments, Arg, At, PagesSettled, Settled, Pending,
                PageUnderCall, vars
  <2>2. CASE Next
    BY <2>2, GuestProt, HandlerProt, CallProt DEF Next
  <2> QED
    BY <2>1, <2>2
<1> QED
  BY <1>1, <1>2, PTL DEF Spec

-----------------------------------------------------------------------------
(* When no call is under way every page is settled.                        *)
LEMMA QuietSettled ==
  ASSUME ProtInv, Quiet, NEW p \in Page PROVE Settled(p)
BY DEF ProtInv, PagesSettled, Pending, Quiet

(* For any pages and protections: whatever mmap, mprotect, munmap and      *)
(* mremap do to a page the dynarec has protected, PROT_DYNAREC in memprot  *)
(* means that the kernel refuses to write to it (custommem.c: protectDB,   *)
(* unprotectDB, updateProtection, setProtection, freeProtection).          *)
THEOREM DynarecAlwaysProtected ==
  ASSUME NEW CONSTANT t, Thread = {t} PROVE Spec => []DynarecMeansProtected
<1>1. ProtInv => DynarecMeansProtected
  BY QuietSettled DEF DynarecMeansProtected, Settled
<1> QED
  BY <1>1, ProtInvAlways, PTL

(* For any pages and protections: no protection of an unmapped page is     *)
(* left, however it was unmapped, and no block either, after munmap and    *)
(* after mremap has moved the page away; a page that mremap cut off keeps  *)
(* its blocks until something frees them (wrappedlibc.c: my_munmap,        *)
(* my_mremap; line 2266).                                                  *)
THEOREM UnmappedAlwaysForgotten ==
  ASSUME NEW CONSTANT t, Thread = {t} PROVE Spec => []UnmappedForgotten
<1>1. ProtInv => UnmappedForgotten
  BY QuietSettled DEF UnmappedForgotten, Settled
<1> QED
  BY <1>1, ProtInvAlways, PTL

-----------------------------------------------------------------------------
(* The kernel refuses a store the program may make only where memprot says *)
(* why: what a call has in hand is as the program asked, and the byte it   *)
(* is about to write need not say anything.                                *)
LegalInv ==
  /\ \A p \in mapped : "W" \in want[p] /\ "W" \notin kern[p] => "D" \in prot[p]
  /\ \A t \in Thread :
       /\ pc[t] \in {"mmap", "set", "mprotect", "update"} /\ At(t) \in mapped =>
            ("W" \in want[At(t)] => "W" \in kern[At(t)])
       /\ pc[t] = "free" => At(t) \notin mapped
       /\ pc[t] \notin {"moved", "grown"}

(* Every step keeps it, as long as mremap neither moves nor grows.         *)
LEMMA LegalStep ==
  ASSUME NEW t, Thread = {t}, Moved = {}, ProtInv, LegalInv, [Next]_vars PROVE LegalInv'
<1> USE DEF LegalInv, ProtInv, TypeOK, CallHasArguments, Arg, At, Start, NoArg, Goto, Return
<1>1. ASSUME NEW p \in Page, Translate(t, p) PROVE LegalInv'
  BY <1>1 DEF Translate, ProtectDB, RWX
<1>2. ASSUME NEW p \in Page, Store(t, p) PROVE LegalInv'
  BY <1>2 DEF Store, kernel
<1>3. ASSUME NEW p \in Page, Munmap(t, p) PROVE LegalInv'
  BY <1>3 DEF Munmap, kernel
<1>4. ASSUME NEW p \in Page, NEW q \in Prots, Mmap(t, p, q) PROVE LegalInv'
  <2>1. \/ Start(t, "mmap", [NoArg EXCEPT !.page = p, !.prot = Implicit(q)])
        \/ Start(t, "set", [NoArg EXCEPT !.page = p, !.prot = Implicit(q)])
    BY <1>4 DEF Mmap
  <2> QED
    BY <1>4, <2>1, ImplicitType DEF Mmap, KernelMap
<1>5. ASSUME NEW p \in Page, NEW q \in Prots, Mprotect(t, p, q) PROVE LegalInv'
  <2>1. CASE p \in mapped
    BY <1>5, <2>1, ImplicitType DEF Mprotect, KernelMap
  <2>2. CASE p \notin mapped
    BY <1>5, <2>2, ImplicitType DEF Mprotect, kernel
  <2> QED  BY <2>1, <2>2
<1>6. ASSUME NEW p \in Shrunk, MremapShrink(t, p) PROVE LegalInv'
  BY <1>6, MemProtAssumption DEF MremapShrink, KernelUnmap
<1>7. CASE Guest(t)
  BY <1>1, <1>2, <1>3, <1>4, <1>5, <1>6, <1>7 DEF Guest
<1>8. CASE StoreOk(t)
  BY <1>8 DEF StoreOk, kernel
<1>9. CASE HandleDynarec(t)
  BY <1>9 DEF HandleDynarec, UnprotectDB, Faults
<1>10. CASE HandleGlitch(t) \/ HandleAgain(t) \/ HandleSignal(t)
  BY <1>10 DEF HandleGlitch, HandleAgain, HandleSignal, Faults, kernel
<1>11. CASE MmapBlocks(t)
  BY <1>11 DEF MmapBlocks, kernel
<1>12. CASE SetProtection(t)
  BY <1>12 DEF SetProtection, kernel
<1>13. CASE MprotectBlocks(t)
  BY <1>13 DEF MprotectBlocks, kernel
<1>14. CASE UpdateProtection(t)
  BY <1>14 DEF UpdateProtection
<1>15. CASE MunmapKernel(t)
  BY <1>15 DEF MunmapKernel, KernelUnmap
<1>16. CASE FreeProtection(t)
  BY <1>16 DEF FreeProtection, kernel
<1>17. CASE MremapMoved(t) \/ MremapGrown(t)
  BY <1>17 DEF MremapMoved, MremapGrown
<1>18. CASE UNCHANGED vars
  BY <1>18 DEF vars
<1> QED
  BY <1>7, <1>8, <1>9, <1>10, <1>11, <1>12, <1>13, <1>14, <1>15, <1>16, <1>17, <1>18
  DEF Next, Handler, Call

(* For any pages and protections, MAP_FIXED and pages cut off included:    *)
(* when the kernel refuses a store the program may make, memprot has       *)
(* PROT_DYNAREC and the handler will give the permission back (custommem.c *)
(* and my_box64signalhandler).  mremap that moves or grows is excluded: it *)
(* drops the bit (my_mremap, README section 5).                            *)
THEOREM LegalStoreAlwaysRecovered ==
  ASSUME NEW CONSTANT t, Thread = {t}, Moved = {} PROVE Spec => []LegalStoreRecovered
<1>1. Init => LegalInv
  BY DEF Init, LegalInv, At
<1>2. ProtInv /\ LegalInv /\ [Next]_vars => LegalInv'
  BY LegalStep
<1>3. LegalInv => LegalStoreRecovered
  BY DEF LegalInv, LegalStoreRecovered
<1> QED
  BY <1>1, <1>2, <1>3, ProtInvAlways, PTL DEF Spec

-----------------------------------------------------------------------------
(* A clean block is of a page whose write permission was taken, and every  *)
(* executable page lets protectDB see that it is writable.                 *)
CleanInv ==
  /\ \A p \in Page : db[p] = "clean" => fresh[p] /\ "D" \in prot[p]
  /\ \A p \in Page : "X" \in want[p] => \/ "W" \in prot[p] \/ "D" \in prot[p]
                                        \/ \E t \in Thread : p \in Pending(t)
  /\ \A p \in Page \ mapped : want[p] = {}
  /\ \A t \in Thread :
       /\ pc[t] \in {"mmap", "set"} => db[At(t)] = "none"
       /\ pc[t] \in {"mmap", "set", "mprotect", "update"} =>
            ("X" \in arg[t].prot => "W" \in arg[t].prot)
       /\ pc[t] \in {"mmap", "set", "update"} \/ (pc[t] = "mprotect" /\ At(t) \in mapped) =>
            want[At(t)] = arg[t].prot
       /\ pc[t] = "free" => At(t) \notin mapped
       /\ pc[t] \notin {"moved", "grown"}

(* Every step keeps it, under the restrictions of the run memprot_writable.*)
LEMMA CleanStep ==
  ASSUME NEW t, Thread = {t}, Fixed = {}, Moved = {}, Shrunk = {},
         \A q \in Prots : "X" \in q => "W" \in q,
         ProtInv, CleanInv, [Next]_vars
  PROVE  CleanInv'
<1> USE DEF CleanInv, ProtInv, TypeOK, CallHasArguments, Arg, At, Pending, Start, NoArg, Goto, Return
<1>0. pc[t] \in {"run", "store"} => \A p \in Page : Settled(p)
  BY DEF PagesSettled
<1>1. ASSUME NEW p \in Page, Translate(t, p) PROVE CleanInv'
  BY <1>1 DEF Translate, ProtectDB, RWX
<1>2. ASSUME NEW p \in Page, Store(t, p) PROVE CleanInv'
  BY <1>2 DEF Store, kernel, blocks
<1>3. ASSUME NEW p \in Page, Munmap(t, p) PROVE CleanInv'
  BY <1>3 DEF Munmap, kernel, FreeBlocks
<1>a. ASSUME NEW q \in Prots PROVE Implicit(q) \in SUBSET RWX /\ ("X" \in Implicit(q) => "W" \in Implicit(q))
  BY ImplicitType DEF Implicit
<1>4. ASSUME NEW p \in Page, NEW q \in Prots, Mmap(t, p, q) PROVE CleanInv'
  <2>1. \/ Start(t, "mmap", [NoArg EXCEPT !.page = p, !.prot = Implicit(q)])
        \/ Start(t, "set", [NoArg EXCEPT !.page = p, !.prot = Implicit(q)])
    BY <1>4 DEF Mmap
  <2> QED
    BY <1>0, <1>4, <1>a, <2>1 DEF Mmap, KernelMap, Overwritten, Settled
<1>5. ASSUME NEW p \in Page, NEW q \in Prots, Mprotect(t, p, q) PROVE CleanInv'
  <2>1. CASE p \in mapped
    BY <1>5, <1>a, <2>1 DEF Mprotect, KernelMap, blocks
  <2>2. CASE p \notin mapped
    BY <1>5, <1>a, <2>2 DEF Mprotect, kernel, blocks
  <2> QED  BY <2>1, <2>2
<1>7. CASE Guest(t)
  BY <1>1, <1>2, <1>3, <1>4, <1>5, <1>7 DEF Guest
<1>8. CASE StoreOk(t)
  BY <1>0, <1>8 DEF StoreOk, kernel, Overwritten, Settled
<1>9. CASE HandleDynarec(t)
  BY <1>9 DEF HandleDynarec, UnprotectDB, Faults, MarkBlocks
<1>10. CASE HandleGlitch(t) \/ HandleAgain(t) \/ HandleSignal(t)
  BY <1>10 DEF HandleGlitch, HandleAgain, HandleSignal, Faults, kernel, blocks
<1>11. CASE MmapBlocks(t)
  BY <1>11 DEF MmapBlocks, kernel, MarkBlocks, FreeBlocks
<1>12. CASE SetProtection(t)
  BY <1>12 DEF SetProtection, kernel, blocks
<1>13. CASE MprotectBlocks(t)
  BY <1>13 DEF MprotectBlocks, kernel, MarkBlocks
<1>14. CASE UpdateProtection(t)
  BY <1>14 DEF UpdateProtection, blocks
<1>15. CASE MunmapKernel(t)
  BY <1>15 DEF MunmapKernel, KernelUnmap, Overwritten, PageUnderCall
<1>16. CASE FreeProtection(t)
  BY <1>16 DEF FreeProtection, kernel, blocks, PageUnderCall
<1>17. CASE MremapMoved(t) \/ MremapGrown(t)
  BY <1>17 DEF MremapMoved, MremapGrown
<1>18. CASE UNCHANGED vars
  BY <1>18 DEF vars
<1> QED
  BY <1>7, <1>8, <1>9, <1>10, <1>11, <1>12, <1>13, <1>14, <1>15, <1>16, <1>17, <1>18
  DEF Next, Handler, Call

(* For any pages: a block that runs without a test matches its page, when  *)
(* the program asks for no page that is executable and not writable, maps  *)
(* over no page and neither moves nor cuts mappings (README section 5 says *)
(* what each of these does otherwise).                                     *)
THEOREM CleanAlwaysFresh ==
  ASSUME NEW CONSTANT t, Thread = {t}, Fixed = {}, Moved = {}, Shrunk = {},
         \A q \in Prots : "X" \in q => "W" \in q
  PROVE  Spec => []CleanIsFresh
<1>1. Init => CleanInv
  BY DEF Init, CleanInv, At, Pending
<1>2. ProtInv /\ CleanInv /\ [Next]_vars => CleanInv'
  BY CleanStep
<1>3. CleanInv => CleanIsFresh
  BY DEF CleanInv, CleanIsFresh
<1> QED
  BY <1>1, <1>2, <1>3, ProtInvAlways, PTL DEF Spec
=============================================================================
