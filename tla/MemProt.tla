------------------------------ MODULE MemProt ------------------------------
(***************************************************************************)
(* Who may write to a page: what the program asked for, what the kernel    *)
(* enforces and what box64 remembers of it.  The dynarec takes the write   *)
(* permission from the pages it translates (protectDB) and gives it back   *)
(* in the SIGSEGV handler (unprotectDB), while the program changes its     *)
(* mappings with mmap, mprotect, munmap and mremap.  Sources:              *)
(* src/custommem.c (memprot), src/wrapped/wrappedlibc.c (my_mmap64,        *)
(* my_mprotect, my_munmap, my_mremap), src/libtools/signals.c              *)
(* (my_box64signalhandler).                                                *)
(*                                                                         *)
(* A call works on one page (a range is a loop over its pages).  The call  *)
(* to the kernel is one step, what box64 does before or after it another.  *)
(* A page's blocks are summed up by their state; how they are made and     *)
(* validated is module Dynablock.  Memory the native malloc took from the  *)
(* kernel is mapped but unknown to memprot.                                *)
(***************************************************************************)
EXTENDS FiniteSets

CONSTANTS
  Thread,
  Page,
  Prots,    \* the protections the program asks for, sets of "R", "W", "X"
  Fixed,    \* pages the program may map over (MAP_FIXED)
  Moved,    \* pages mremap may move a page to, or grow it into
  Shrunk,   \* pages mremap may cut off
  None      \* no fault to compare with

RWX == {"R", "W", "X"}

ASSUME MemProtAssumption ==
  /\ Prots \subseteq SUBSET RWX
  /\ Fixed \subseteq Page /\ Moved \subseteq Page /\ Shrunk \subseteq Page

VARIABLES
  mapped,   \* the pages that are mapped
  want,     \* want[p]: the permissions the program asked for
  kern,     \* kern[p]: the permissions the kernel enforces
  prot,     \* prot[p]: memprot; "D" is PROT_DYNAREC, {} is 0
  db,       \* db[p]: the blocks of the page: none, clean, or marked
  fresh,    \* fresh[p]: the page still holds what was translated
  cut,      \* history: the pages mremap cut off whose blocks nobody freed since
  listed,   \* the dynablock list of these pages exists
  glitch,   \* glitch_pc, glitch_addr and glitch_prot
  pc, arg   \* where a thread is, and the page and protection it works on

vars == <<mapped, want, kern, prot, db, fresh, cut, listed, glitch, pc, arg>>
kernel == <<mapped, want, kern>>
blocks == <<db, fresh, cut, listed>>

NoArg == [page |-> None, prot |-> {}, to |-> None]

(* Pages of the native heap are readable and writable, the others free.    *)
Init ==
  /\ mapped \in SUBSET Page
  /\ want = [p \in Page |-> IF p \in mapped THEN {"R", "W"} ELSE {}]
  /\ kern = want
  /\ prot = [p \in Page |-> {}]
  /\ db = [p \in Page |-> "none"]
  /\ fresh = [p \in Page |-> TRUE]
  /\ cut = {}
  /\ listed = FALSE
  /\ glitch = None
  /\ pc = [t \in Thread |-> "run"]
  /\ arg = [t \in Thread |-> NoArg]

-----------------------------------------------------------------------------
Goto(t, l) == pc' = [pc EXCEPT ![t] = l] /\ UNCHANGED arg
Start(t, l, a) == pc' = [pc EXCEPT ![t] = l] /\ arg' = [arg EXCEPT ![t] = a]
Return(t) == Start(t, "run", NoArg)

(* PROT_READ is implicit with PROT_WRITE.                                  *)
Implicit(q) == IF "W" \in q THEN q \cup {"R"} ELSE q

(* The kernel maps p with q, or unmaps it; what p holds changes.           *)
KernelMap(p, q) ==
  /\ mapped' = mapped \cup {p}
  /\ want' = [want EXCEPT ![p] = q]
  /\ kern' = [kern EXCEPT ![p] = q]
KernelUnmap(p) ==
  /\ mapped' = mapped \ {p}
  /\ want' = [want EXCEPT ![p] = {}]
  /\ kern' = [kern EXCEPT ![p] = {}]
Overwritten(p) == fresh' = [fresh EXCEPT ![p] = db[p] = "none"]

(* Mutant of ProtectDB: PROT_DYNAREC is not recorded.                      *)
ProtectDBForgets(p) ==
  LET q == IF prot[p] = {} THEN RWX ELSE prot[p]
  IN  IF "W" \in q
      THEN /\ kern' = [kern EXCEPT ![p] = IF "D" \in q THEN @ ELSE q \ {"W"}]
           /\ prot' = [prot EXCEPT ![p] = q \ {"W"}]
      ELSE UNCHANGED <<kern, prot>>

(* protectDB: unknown memory counts as RWX.  With PROT_DYNAREC already in  *)
(* the byte the kernel refuses the call (the bit is not one of its own).   *)
ProtectDB(p) ==
  LET q == IF prot[p] = {} THEN RWX ELSE prot[p]
  IN  IF "W" \in q
      THEN /\ kern' = [kern EXCEPT ![p] = IF "D" \in q THEN @ ELSE q \ {"W"}]
           /\ prot' = [prot EXCEPT ![p] = (q \ {"W"}) \cup {"D"}]
      ELSE UNCHANGED <<kern, prot>>

(* cleanDBFromAddressRange, marking or destroying.                         *)
MarkBlocks(p) == db' = [db EXCEPT ![p] = IF @ = "clean" THEN "marked" ELSE @]
FreeBlocks(p) ==
  /\ db' = [db EXCEPT ![p] = "none"]
  /\ fresh' = [fresh EXCEPT ![p] = TRUE]
  /\ cut' = cut \ {p}

(* Mutant of UnprotectDB: the blocks of the page stay clean.               *)
UnprotectDBUnmarked(p) ==
  /\ prot' = [prot EXCEPT ![p] = (@ \ {"D"}) \cup {"W"}]
  /\ kern' = [kern EXCEPT ![p] = (prot[p] \ {"D"}) \cup {"W"}]
  /\ UNCHANGED db

(* unprotectDB on a page with PROT_DYNAREC.                                *)
UnprotectDB(p) ==
  /\ prot' = [prot EXCEPT ![p] = (@ \ {"D"}) \cup {"W"}]
  /\ kern' = [kern EXCEPT ![p] = (prot[p] \ {"D"}) \cup {"W"}]
  /\ MarkBlocks(p)

-----------------------------------------------------------------------------
(* The program runs code of page p that is not translated, or is marked:   *)
(* the page is protected and a block that matches it is made or validated. *)
Translate(t, p) ==
  /\ pc[t] = "run"
  /\ listed
  /\ p \in mapped /\ "R" \in kern[p]
  /\ "X" \in want[p] \/ prot[p] = {}
  /\ db[p] # "clean"
  /\ ProtectDB(p)
  /\ db' = [db EXCEPT ![p] = "clean"]
  /\ fresh' = [fresh EXCEPT ![p] = TRUE]
  /\ UNCHANGED <<mapped, want, cut, listed, glitch, pc, arg>>

(* The program stores to page p; the instruction is tried until it goes    *)
(* through or the signal is given to the program.                          *)
Store(t, p) ==
  /\ pc[t] = "run"
  /\ Start(t, "store", [NoArg EXCEPT !.page = p])
  /\ UNCHANGED <<kernel, prot, blocks, glitch>>

At(t) == arg[t].page

StoreOk(t) ==
  /\ pc[t] = "store"
  /\ "W" \in kern[At(t)]
  /\ Overwritten(At(t))
  /\ Return(t)
  /\ UNCHANGED <<kernel, prot, db, cut, listed, glitch>>

Faults(t) == pc[t] = "store" /\ "W" \notin kern[At(t)]

(* The handler: a page with PROT_DYNAREC is unprotected.                   *)
HandleDynarec(t) ==
  /\ Faults(t)
  /\ At(t) \in mapped
  /\ "D" \in prot[At(t)]
  /\ UnprotectDB(At(t))
  /\ UNCHANGED <<mapped, want, fresh, cut, listed, glitch, pc, arg>>

(* A first fault on a readable page is a glitch: try again.  (The second   *)
(* condition of the handler, "prot & (RW) == (RW)", is prot & 1.)          *)
Glitch(t) == <<t, At(t), prot[At(t)]>>
Glitches(t) == At(t) \in mapped /\ "R" \in prot[At(t)]

(* Mutant of HandleGlitch: the fault is not remembered.                    *)
HandleGlitchForgets(t) ==
  /\ Faults(t)
  /\ "D" \notin prot[At(t)]
  /\ Glitches(t) /\ glitch # Glitch(t)
  /\ UNCHANGED vars

HandleGlitch(t) ==
  /\ Faults(t)
  /\ "D" \notin prot[At(t)]
  /\ Glitches(t) /\ glitch # Glitch(t)
  /\ glitch' = Glitch(t)
  /\ UNCHANGED <<kernel, prot, blocks, pc, arg>>

(* After that a fault on a page that memprot says is RX or RWX is again a  *)
(* glitch ...                                                              *)
Terraria(t) == At(t) \in mapped /\ prot[At(t)] \in {{"R", "X"}, RWX}
HandleAgain(t) ==
  /\ Faults(t)
  /\ "D" \notin prot[At(t)]
  /\ Terraria(t) /\ glitch = Glitch(t)
  /\ glitch' = None
  /\ UNCHANGED <<kernel, prot, blocks, pc, arg>>

(* ... and any other fault is given to the program.  (Whether it has a     *)
(* handler, or box64 exits on a second identical fault, is left out: the   *)
(* store is not tried again.)                                              *)
HandleSignal(t) ==
  /\ Faults(t)
  /\ ~(At(t) \in mapped /\ "D" \in prot[At(t)])
  /\ ~Terraria(t)
  /\ Glitches(t) => glitch = Glitch(t)
  /\ glitch' = IF Glitches(t) THEN None ELSE glitch
  /\ Return(t)
  /\ UNCHANGED <<kernel, prot, blocks>>

-----------------------------------------------------------------------------
(* my_mmap64: the kernel maps the page, the blocks are marked (or freed    *)
(* for PROT_NONE) unless the page is executable, memprot is set.  When the *)
(* kernel, not knowing MAP_FIXED_NOREPLACE, took another page than the one *)
(* asked for, the blocks are skipped.                                      *)
Mmap(t, p, q) ==
  /\ pc[t] = "run"
  /\ p \notin mapped \/ p \in Fixed
  /\ KernelMap(p, Implicit(q))
  /\ Overwritten(p)
  /\ \E l \in IF p \in mapped THEN {"mmap"} ELSE {"mmap", "set"} :
       Start(t, l, [NoArg EXCEPT !.page = p, !.prot = Implicit(q)])
  /\ UNCHANGED <<prot, db, cut, listed, glitch>>

MmapBlocks(t) ==
  /\ pc[t] = "mmap"
  /\ \/ /\ "X" \in arg[t].prot
        /\ listed' = TRUE
        /\ UNCHANGED <<db, fresh, cut>>
     \/ /\ "X" \notin arg[t].prot /\ arg[t].prot # {}
        /\ MarkBlocks(At(t))
        /\ UNCHANGED <<fresh, cut, listed>>
     \/ /\ arg[t].prot = {}
        /\ FreeBlocks(At(t))
        /\ UNCHANGED listed
  /\ Goto(t, "set")
  /\ UNCHANGED <<kernel, prot, glitch>>

(* setProtection                                                           *)
SetProtection(t) ==
  /\ pc[t] = "set"
  /\ prot' = [prot EXCEPT ![At(t)] = arg[t].prot]
  /\ Return(t)
  /\ UNCHANGED <<kernel, blocks, glitch>>

(* my_mprotect: the kernel changes the page, the blocks are marked unless  *)
(* it is executable, memprot is updated if the kernel agreed.              *)
Mprotect(t, p, q) ==
  /\ pc[t] = "run"
  /\ IF p \in mapped THEN KernelMap(p, Implicit(q)) ELSE UNCHANGED kernel
  /\ Start(t, "mprotect", [NoArg EXCEPT !.page = p, !.prot = Implicit(q)])
  /\ UNCHANGED <<prot, blocks, glitch>>

MprotectBlocks(t) ==
  /\ pc[t] = "mprotect"
  /\ IF "X" \in arg[t].prot
     THEN listed' = TRUE /\ UNCHANGED db
     ELSE MarkBlocks(At(t)) /\ UNCHANGED listed
  /\ IF At(t) \in mapped THEN Goto(t, "update") ELSE Return(t)
  /\ UNCHANGED <<kernel, prot, fresh, cut, glitch>>

(* Mutant of UpdateProtection: the page is left writable.                  *)
UpdateProtectionWritable(t) ==
  /\ pc[t] = "update"
  /\ prot' = [prot EXCEPT ![At(t)] = arg[t].prot \cup (@ \cap {"D"})]
  /\ Return(t)
  /\ UNCHANGED <<kernel, blocks, glitch>>

(* updateProtection keeps PROT_DYNAREC, and takes the write permission the *)
(* kernel just gave away again.                                            *)
UpdateProtection(t) ==
  /\ pc[t] = "update"
  /\ kern' = [kern EXCEPT ![At(t)] =
       IF "D" \in prot[At(t)] /\ "W" \in arg[t].prot THEN arg[t].prot \ {"W"} ELSE @]
  /\ prot' = [prot EXCEPT ![At(t)] = arg[t].prot \cup (@ \cap {"D"})]
  /\ Return(t)
  /\ UNCHANGED <<mapped, want, blocks, glitch>>

-----------------------------------------------------------------------------
(* Mutant of Munmap: the blocks are marked, not freed.                     *)
MunmapMarks(t, p) ==
  /\ pc[t] = "run"
  /\ MarkBlocks(p)
  /\ Start(t, "munmap", [NoArg EXCEPT !.page = p])
  /\ UNCHANGED <<kernel, prot, fresh, cut, listed, glitch>>

(* my_munmap: the blocks are freed, the kernel unmaps, memprot forgets.    *)
Munmap(t, p) ==
  /\ pc[t] = "run"
  /\ FreeBlocks(p)
  /\ Start(t, "munmap", [NoArg EXCEPT !.page = p])
  /\ UNCHANGED <<kernel, prot, listed, glitch>>

MunmapKernel(t) ==
  /\ pc[t] = "munmap"
  /\ KernelUnmap(At(t))
  /\ Overwritten(At(t))
  /\ Goto(t, "free")
  /\ UNCHANGED <<prot, db, cut, listed, glitch>>

(* freeProtection                                                          *)
FreeProtection(t) ==
  /\ pc[t] = "free"
  /\ prot' = [prot EXCEPT ![At(t)] = {}]
  /\ Return(t)
  /\ UNCHANGED <<kernel, blocks, glitch>>

(* my_mremap goes to a free page, or with MREMAP_FIXED over a mapped one.  *)
Target(p, q) == q # p /\ (q \notin mapped \/ q \in Fixed)

(* my_mremap moves page p to q, with the protection the kernel has for it. *)
Mremap(t, p, q) ==
  /\ pc[t] = "run"
  /\ p \in mapped /\ Target(p, q)
  /\ mapped' = (mapped \ {p}) \cup {q}
  /\ want' = [want EXCEPT ![p] = {}, ![q] = want[p]]
  /\ kern' = [kern EXCEPT ![p] = {}, ![q] = kern[p]]
  /\ fresh' = [x \in Page |-> IF x \in {p, q} THEN db[x] = "none" ELSE fresh[x]]
  /\ Start(t, "moved", [NoArg EXCEPT !.page = p, !.to = q])
  /\ UNCHANGED <<prot, db, cut, listed, glitch>>

(* memprot follows: the old page is freed, the new one gets the old byte   *)
(* without PROT_DYNAREC.  The blocks of the new page are left.             *)
MremapMoved(t) ==
  /\ pc[t] = "moved"
  /\ prot' = [prot EXCEPT ![At(t)] = {}, ![arg[t].to] = prot[At(t)] \ {"D"}]
  /\ FreeBlocks(At(t))
  /\ listed' = TRUE
  /\ Return(t)
  /\ UNCHANGED <<kernel, glitch>>

(* my_mremap maps q like page p, which stays: a mapping that ends with p   *)
(* grows into q, p is mapped a second time (old_size 0), or its contents   *)
(* move to q and it is left empty (MREMAP_DONTUNMAP).                      *)
MremapGrow(t, p, q) ==
  /\ pc[t] = "run"
  /\ p \in mapped /\ Target(p, q)
  /\ mapped' = mapped \cup {q}
  /\ want' = [want EXCEPT ![q] = want[p]]
  /\ kern' = [kern EXCEPT ![q] = kern[p]]
  /\ \E changed \in {{q}, {p, q}} :
       fresh' = [x \in Page |-> IF x \in changed THEN db[x] = "none" ELSE fresh[x]]
  /\ Start(t, "grown", [NoArg EXCEPT !.page = p, !.to = q])
  /\ UNCHANGED <<prot, db, cut, listed, glitch>>

MremapGrown(t) ==
  /\ pc[t] = "grown"
  /\ prot' = [prot EXCEPT ![arg[t].to] = prot[At(t)] \ {"D"}]
  /\ listed' = TRUE
  /\ Return(t)
  /\ UNCHANGED <<kernel, db, fresh, cut, glitch>>

(* my_mremap cuts page p off: memprot forgets it (FreeProtection).  The    *)
(* size given to cleanDBFromAddressRange is new_size - old_size, which     *)
(* wraps, so that no block is freed.                                       *)
MremapShrink(t, p) ==
  /\ pc[t] = "run"
  /\ p \in mapped
  /\ KernelUnmap(p)
  /\ Overwritten(p)
  /\ cut' = cut \cup {p}
  /\ Start(t, "free", [NoArg EXCEPT !.page = p])
  /\ UNCHANGED <<prot, db, listed, glitch>>

-----------------------------------------------------------------------------
(* What the program chooses to do, and what box64 does about it.           *)
Guest(t) ==
  \/ \E p \in Page : Translate(t, p) \/ Store(t, p) \/ Munmap(t, p)
  \/ \E p \in Page, q \in Prots : Mmap(t, p, q) \/ Mprotect(t, p, q)
  \/ \E p \in Page, q \in Moved : Mremap(t, p, q) \/ MremapGrow(t, p, q)
  \/ \E p \in Shrunk : MremapShrink(t, p)

Handler(t) ==
  StoreOk(t) \/ HandleDynarec(t) \/ HandleGlitch(t) \/ HandleAgain(t) \/ HandleSignal(t)

Call(t) ==
  \/ MmapBlocks(t) \/ SetProtection(t)
  \/ MprotectBlocks(t) \/ UpdateProtection(t)
  \/ MunmapKernel(t) \/ FreeProtection(t)
  \/ MremapMoved(t) \/ MremapGrown(t)

Next == \E t \in Thread : Guest(t) \/ Handler(t) \/ Call(t)

Spec == Init /\ [][Next]_vars

(* A thread goes on with its store, and with its call.                     *)
FairSpec == Spec /\ \A t \in Thread : WF_vars(Handler(t) \/ Call(t))

-----------------------------------------------------------------------------
(* Every variable stays in its type: the kernel is never given the bit     *)
(* PROT_DYNAREC, which is box64's own.                                     *)
TypeOK ==
  /\ mapped \subseteq Page
  /\ want \in [Page -> SUBSET RWX]
  /\ kern \in [Page -> SUBSET RWX]
  /\ prot \in [Page -> SUBSET (RWX \cup {"D"})]
  /\ db \in [Page -> {"none", "clean", "marked"}]
  /\ fresh \in [Page -> BOOLEAN]
  /\ cut \subseteq Shrunk
  /\ listed \in BOOLEAN
  /\ pc \in [Thread -> {"run", "store", "mmap", "set", "mprotect", "update",
                        "munmap", "free", "moved", "grown"}]

(* No call is under way.                                                   *)
Quiet == \A t \in Thread : pc[t] \in {"run", "store"}

(* PROT_DYNAREC says that the dynarec has taken the write permission: the  *)
(* kernel has not given it, whatever mmap, mprotect and mremap did since.  *)
(* Otherwise the program would write to translated code unseen.            *)
DynarecMeansProtected ==
  Quiet => \A p \in Page : "D" \in prot[p] => p \in mapped /\ "W" \notin kern[p]

(* Nothing is remembered of an unmapped page, neither its protection nor   *)
(* its blocks: what is mapped there next is other code.  Only a page that  *)
(* mremap cut off keeps its blocks (wrappedlibc.c:2266), until munmap, a   *)
(* PROT_NONE mapping or a move of what is mapped there next frees them.    *)
UnmappedForgotten ==
  Quiet => \A p \in Page \ mapped : prot[p] = {} /\ (p \notin cut => db[p] = "none")

(* A block that runs without a test matches the page.                      *)
CleanIsFresh == Quiet => \A p \in Page : db[p] = "clean" => fresh[p]

(* When the kernel refuses a store that the program may make, memprot has  *)
(* PROT_DYNAREC, which is how the handler recognises it: mremap "should    *)
(* copy the protection from old block".                                    *)
LegalStoreRecovered ==
  Quiet => \A p \in mapped : "W" \in want[p] /\ "W" \notin kern[p] => "D" \in prot[p]

(* Every store ends: it goes through or the program gets its signal.       *)
StoreSettles == \A t \in Thread : pc[t] = "store" ~> pc[t] # "store"

(* A store to a page the program made read-only never goes through: "if    *)
(* there is no write permission, don't return and continue to program      *)
(* signal handling" (my_box64signalhandler).  This fails (README, sec. 5). *)
NoForbiddenStore == [][\A t \in Thread : StoreOk(t) => "W" \in want[At(t)]]_vars
=============================================================================
