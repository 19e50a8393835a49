----------------------------- MODULE Dynablock -----------------------------
(***************************************************************************)
(* The life of a dynablock: how the threads of the emulated program look   *)
(* up, create, fill, validate and free translated blocks, and how a write  *)
(* to translated code (SMC) is caught.  Sources: src/dynarec/dynablock.c,  *)
(* FillBlock64 in src/dynarec/dynarec_native.c, protectDB and unprotectDB  *)
(* in src/custommem.c, the SIGSEGV handler in src/libtools/signals.c.      *)
(*                                                                         *)
(* A step is what runs between two points where other threads can see or   *)
(* change something: a lock or unlock of mutex_dyndump or mutex_prot, an   *)
(* unlocked read of "direct", a read of guest memory, a change of a page's *)
(* protection.  The native address of a block is the block itself in the   *)
(* jump table; the code it holds is the page contents it was translated    *)
(* from.  Abstracted: instruction decoding (a block at address a always    *)
(* covers PagesOf[a] and always has the jump targets SonsOf[a]), the       *)
(* X31 hash (two different contents never collide), the hot-page answer    *)
(* (module HotPage; either answer may come), the geometry of the lists     *)
(* (every block lies in one list that has its direct array).               *)
(***************************************************************************)
EXTENDS Naturals, FiniteSets

CONSTANTS
  Thread,      \* threads of the emulated program
  Addr,        \* x64 addresses at which blocks start
  Page,        \* 4K pages of guest memory
  Content,     \* what a page may hold
  Block,       \* memory cells malloc hands out for dynablock_t
  NoThread,    \* a mutex that nobody owns
  NoBlock,     \* NULL; in the jump table, native_next
  FirstPage,   \* FirstPage[a]: the page address a lies in
  PagesOf,     \* PagesOf[a]: the pages the block at a covers
  SonsOf,      \* SonsOf[a]: the inner addresses of that block that become sons
  Entry,       \* the addresses the program jumps to
  NoDynarec,   \* addresses inside box64_nodynarec_start..end
  Unmapped     \* pages the program unmaps and maps again

ASSUME DynablockAssumption ==
  /\ NoThread \notin Thread
  /\ NoBlock \notin Block
  /\ Addr # {} /\ Page # {}
  /\ FirstPage \in [Addr -> Page]
  /\ PagesOf \in [Addr -> SUBSET Page]
  /\ \A a \in Addr : FirstPage[a] \in PagesOf[a]
  /\ SonsOf \in [Addr -> SUBSET Addr]
  /\ \A a \in Addr : \A s \in SonsOf[a] : s # a /\ PagesOf[s] \subseteq PagesOf[a]
  /\ Entry \subseteq Addr /\ NoDynarec \subseteq Addr
  /\ Unmapped \subseteq Page

VARIABLES
  mem,      \* mem[p]: the contents of page p
  dyn,      \* dyn[p]: p is write-protected by the dynarec (PROT_DYNAREC)
  direct,   \* direct[a]: the block that starts at a
  jmp,      \* jmp[a]: the jump-table entry of a
  heap,     \* heap[b]: the fields of the dynablock_t in cell b
  dyndump,  \* owner of mutex_dyndump
  prot,     \* owner of mutex_prot, while unprotectDB marks and unprotects
  pc,       \* pc[t]: where thread t is
  loc       \* loc[t]: the variables of the call t is in

vars == <<mem, dyn, direct, jmp, heap, dyndump, prot, pc, loc>>

guest == <<mem, dyn, prot>>       \* guest memory
tables == <<direct, jmp, heap>>   \* the shared block tables

Ptr == Block \cup {NoBlock}

(* What a block covers, as X31_hash_code sees it.                          *)
Code == UNION {[S -> Content] : S \in SUBSET Page}
Code0 == [p \in {} |-> 0]
CodeAt(a) == [p \in PagesOf[a] |-> mem[p]]

(* A dynablock_t: live says whether malloc has handed the cell out, native *)
(* and sized whether block and x64_size are set, code is what the native   *)
(* code does and hash what the block is compared with later.               *)
Cell == [live : BOOLEAN, addr : Addr, native : BOOLEAN, sized : BOOLEAN,
         code : Code, hash : Code, need_test : BOOLEAN, done : BOOLEAN,
         gone : BOOLEAN, father : Ptr, sons : SUBSET Block]

(* The cell calloc returns for a new block at a.                           *)
NewCell(a) == [live |-> TRUE, addr |-> a, native |-> FALSE, sized |-> FALSE,
               code |-> Code0, hash |-> Code0, need_test |-> FALSE, done |-> FALSE,
               gone |-> FALSE, father |-> NoBlock, sons |-> {}]

(* The variables of a call: the address asked for, the page a handler or   *)
(* munmap works on, the block pointer held, need_lock = 0, the signature   *)
(* computed before translating, the blocks FreeRangeDynablock must free.   *)
Local == [req : Addr, page : Page, cur : Ptr, held : BOOLEAN, hash : Code,
          todo : SUBSET Block]
Idle == [req |-> CHOOSE a \in Addr : TRUE, page |-> CHOOSE p \in Page : TRUE,
         cur |-> NoBlock, held |-> FALSE, hash |-> Code0, todo |-> {}]

(* A cell that malloc owns.                                                *)
DeadCell == [NewCell(Idle.req) EXCEPT !.live = FALSE, !.gone = TRUE]

Label == {"run", "add", "fill", "pass0", "segv", "translate", "recheck", "filled",
          "fail", "drop", "publish", "check", "try", "validate", "same", "again",
          "unlock", "mark", "unprotect", "purge", "free"}

Init ==
  /\ mem \in [Page -> Content]
  /\ dyn = [p \in Page |-> FALSE]
  /\ direct = [a \in Addr |-> NoBlock]
  /\ jmp = [a \in Addr |-> NoBlock]
  /\ heap = [b \in Block |-> DeadCell]
  /\ dyndump = NoThread
  /\ prot = NoThread
  /\ pc = [t \in Thread |-> "run"]
  /\ loc = [t \in Thread |-> Idle]

-----------------------------------------------------------------------------
Goto(t, l) == pc' = [pc EXCEPT ![t] = l]
(* Thread t is back in the emulated program.                               *)
Leave(t) == Goto(t, "run") /\ loc' = [loc EXCEPT ![t] = Idle]

Father(b) == IF heap[b].father # NoBlock THEN heap[b].father ELSE b
Family(b) == {b} \cup heap[b].sons

(* pthread_mutex_lock on an ERRORCHECK mutex: the owner that locks again   *)
(* gets EDEADLK, which the code ignores, and goes on.                      *)
Lock(t) == dyndump \in {NoThread, t} /\ dyndump' = t
(* pthread_mutex_unlock: only the owner's call has an effect.              *)
Unlock(t) == dyndump' = IF dyndump = t THEN NoThread ELSE dyndump

(* protectDB on the pages S: waits for a handler inside unprotectDB.       *)
Protect(S) == prot = NoThread /\ dyn' = [p \in Page |-> dyn[p] \/ p \in S]

(* addJumpTableIfDefault64 for the blocks S, setJumpTableDefault64 for     *)
(* the addresses A.                                                        *)
JumpAdded(S) == [a \in Addr |->
  IF jmp[a] = NoBlock /\ \E b \in S : heap[b].addr = a
  THEN CHOOSE b \in S : heap[b].addr = a ELSE jmp[a]]
JumpReset(A) == [a \in Addr |-> IF a \in A THEN NoBlock ELSE jmp[a]]

(* Cell b after free(): it keeps its fields for the threads other than t   *)
(* that still point to it, until malloc hands it out again.                *)
FreedCell(t, b) ==
  IF \E u \in Thread \ {t} : b = loc[u].cur \/ b \in loc[u].todo
  THEN [heap[b] EXCEPT !.live = FALSE] ELSE DeadCell

(* Mutant of Release: the sons stay in direct.                             *)
ReleaseKeepsSons(t, b) ==
  LET S == {b} \cup {s \in heap[b].sons : ~heap[s].gone}
  IN  /\ heap' = [x \in Block |-> IF x \in S
           THEN [FreedCell(t, x) EXCEPT !.done = FALSE, !.gone = TRUE]
           ELSE heap[x]]
      /\ direct' = [direct EXCEPT ![heap[b].addr] = NoBlock]
      /\ jmp' = JumpReset({heap[x].addr : x \in S})

(* What FreeDynablock does to b once it holds the lock: b and its sons     *)
(* leave direct and the jump table and their cells go back to malloc.      *)
Release(t, b) ==
  LET S == {b} \cup {s \in heap[b].sons : ~heap[s].gone}
      A == {heap[x].addr : x \in S}
  IN  /\ heap' = [x \in Block |-> IF x \in S
           THEN [FreedCell(t, x) EXCEPT !.done = FALSE, !.gone = TRUE]
           ELSE heap[x]]
      /\ direct' = [a \in Addr |-> IF a \in A THEN NoBlock ELSE direct[a]]
      /\ jmp' = JumpReset(A)

(* The pages IntervalIntersects finds block b in.  Until the fill sets     *)
(* x64_size, "x64_addr + x64_size - 1" lies before x64_addr, and the block *)
(* intersects every range that goes on both sides of its address.          *)
Spans(b) == IF heap[b].sized THEN PagesOf[heap[b].addr] ELSE {FirstPage[heap[b].addr]}

(* Mutant of MarkRange: the sons keep their jump-table entries.            *)
MarkRangeFathersOnly(p) ==
  LET hit == {direct[a] : a \in {a \in Addr : direct[a] # NoBlock}}
      M == {Father(b) : b \in {b \in hit : p \in Spans(b)}}
      new == {b \in M : ~heap[b].need_test}
  IN  /\ heap' = [b \in Block |-> IF b \in new
           THEN [heap[b] EXCEPT !.need_test = TRUE] ELSE heap[b]]
      /\ jmp' = JumpReset({heap[b].addr : b \in new})

(* cleanDBFromAddressRange(p, 4K, 0): every block of direct that covers p  *)
(* has its father marked, unless it already is; a marked father and its    *)
(* sons leave the jump table.                                              *)
MarkRange(p) ==
  LET hit == {direct[a] : a \in {a \in Addr : direct[a] # NoBlock}}
      M == {Father(b) : b \in {b \in hit : p \in Spans(b)}}
      new == {b \in M : ~heap[b].need_test}
      S == UNION {Family(b) : b \in new}
  IN  /\ heap' = [b \in Block |-> IF b \in new
           THEN [heap[b] EXCEPT !.need_test = TRUE] ELSE heap[b]]
      /\ jmp' = JumpReset({heap[b].addr : b \in S})

-----------------------------------------------------------------------------
(* DBGetBlock, first part: internalDBGetBlock.                             *)

(* LinkNext, DynaCall or DynaRun asks for the block at a: direct is read   *)
(* without a lock.                                                         *)
Get(t, a) ==
  /\ pc[t] = "run"
  /\ loc' = [loc EXCEPT ![t] = [Idle EXCEPT !.req = a, !.cur = direct[a]]]
  /\ Goto(t, IF direct[a] # NoBlock THEN "check" ELSE "add")
  /\ UNCHANGED <<guest, tables, dyndump>>

(* AddNewDynablock, when the direct entry was empty: take the lock (twice, *)
(* and a third time in internalDBGetBlock), then store a new block if the  *)
(* entry is still empty.                                                   *)
AddNew(t) ==
  /\ pc[t] = "add"
  /\ direct[loc[t].req] = NoBlock
  /\ Lock(t)
  /\ \E b \in Block :
       /\ ~heap[b].live
       /\ heap' = [heap EXCEPT ![b] = NewCell(loc[t].req)]
       /\ direct' = [direct EXCEPT ![loc[t].req] = b]
       /\ loc' = [loc EXCEPT ![t].cur = b]
  /\ Goto(t, "fill")
  /\ UNCHANGED <<guest, jmp>>

(* ... or a block is found there before the lock is asked for ...          *)
AddFound(t) ==
  /\ pc[t] = "add"
  /\ direct[loc[t].req] # NoBlock
  /\ loc' = [loc EXCEPT ![t].cur = direct[loc[t].req]]
  /\ Goto(t, IF loc[t].held THEN "unlock" ELSE "check")
  /\ UNCHANGED <<guest, tables, dyndump>>

(* ... or one appeared meanwhile: give the lock back and return it.        *)
AddAppeared(t) ==
  /\ pc[t] = "add"
  /\ direct[loc[t].req] # NoBlock
  /\ dyndump \in {NoThread, t}
  /\ dyndump' = NoThread
  /\ loc' = [loc EXCEPT ![t].cur = direct[loc[t].req]]
  /\ Goto(t, IF loc[t].held THEN "unlock" ELSE "check")
  /\ UNCHANGED <<guest, tables>>

(* FillBlock64 refuses a hot page.                                         *)
FillHot(t) ==
  /\ pc[t] = "fill"
  /\ Goto(t, "fail")
  /\ UNCHANGED <<guest, tables, dyndump, loc>>

(* FillBlock64 leaves box64_nodynarec_start..end to the interpreter: the   *)
(* block is done and has no native code.                                   *)
FillNoDynarec(t) ==
  /\ pc[t] = "fill"
  /\ loc[t].req \in NoDynarec
  /\ heap' = [heap EXCEPT ![loc[t].cur].done = TRUE]
  /\ Goto(t, "filled")
  /\ UNCHANGED <<guest, direct, jmp, dyndump, loc>>

(* FillBlock64 protects the first page before it reads any code.           *)
FillProtect(t) ==
  /\ pc[t] = "fill"
  /\ loc[t].req \notin NoDynarec
  /\ Protect({FirstPage[loc[t].req]})
  /\ Goto(t, "pass0")
  /\ UNCHANGED <<mem, prot, tables, dyndump, loc>>

(* pass 0 finds nothing to translate: CancelBlock64, the block stays empty.*)
FillNull(t) ==
  /\ pc[t] = "pass0"
  /\ Goto(t, "filled")
  /\ UNCHANGED <<guest, tables, dyndump, loc>>

(* pass 0 reads code that is not mapped.  my_box64signalhandler first      *)
(* unlocks every mutex of the thread ...                                   *)
FillSegv(t) ==
  /\ pc[t] = "pass0"
  /\ Unlock(t)
  /\ Goto(t, "segv")
  /\ UNCHANGED <<guest, tables, loc>>

(* Mutant of CancelFill: the sigsetjmp branch forgets to unlock.           *)
CancelFillLeaks(t) ==
  /\ pc[t] = "segv"
  /\ Lock(t)
  /\ IF loc[t].held THEN Goto(t, "unlock") /\ UNCHANGED loc ELSE Leave(t)
  /\ UNCHANGED <<guest, tables>>

(* ... then locks them again and jumps back (cancelFillBlock) into         *)
(* internalDBGetBlock, which unlocks and returns NULL.  The empty block    *)
(* stays in direct.                                                        *)
CancelFill(t) ==
  /\ pc[t] = "segv"
  /\ dyndump \in {NoThread, t}
  /\ IF loc[t].held
     THEN dyndump' = t /\ Goto(t, "unlock") /\ UNCHANGED loc
     ELSE dyndump' = NoThread /\ Leave(t)
  /\ UNCHANGED <<guest, tables>>

(* After pass 0: give up when the first page was written to meanwhile.     *)
FillWritten(t) ==
  /\ pc[t] = "pass0"
  /\ ~dyn[FirstPage[loc[t].req]]
  /\ Goto(t, "fail")
  /\ UNCHANGED <<guest, tables, dyndump, loc>>

(* Otherwise protect the other pages and compute the hash.                 *)
FillHash(t) ==
  /\ pc[t] = "pass0"
  /\ dyn[FirstPage[loc[t].req]]
  /\ IF PagesOf[loc[t].req] = {FirstPage[loc[t].req]}
     THEN UNCHANGED dyn ELSE Protect(PagesOf[loc[t].req])
  /\ loc' = [loc EXCEPT ![t].hash = CodeAt(loc[t].req)]
  /\ Goto(t, "translate")
  /\ UNCHANGED <<mem, prot, tables, dyndump>>

(* AllocDynarecMap has no memory left for the native code.                 *)
FillNoMemory(t) ==
  /\ pc[t] = "translate"
  /\ Goto(t, "fail")
  /\ UNCHANGED <<guest, tables, dyndump, loc>>

(* Passes 1 to 3 translate what memory holds now.                          *)
FillTranslate(t) ==
  /\ pc[t] = "translate"
  /\ heap' = [heap EXCEPT ![loc[t].cur].code = CodeAt(loc[t].req)]
  /\ Goto(t, "recheck")
  /\ UNCHANGED <<guest, direct, jmp, dyndump, loc>>

(* The block as FillBlock64 leaves it once the native code is there.       *)
Filled(b, a, sons) ==
  [heap[b] EXCEPT !.native = TRUE, !.sized = TRUE, !.need_test = FALSE,
                  !.hash = CodeAt(a), !.sons = sons]

Changed(t) ==
  CodeAt(loc[t].req) # loc[t].hash \/ \E p \in PagesOf[loc[t].req] : ~dyn[p]

(* The block is cancelled when its code changed, or when one of its pages  *)
(* is no longer protected.                                                 *)
FillChanged(t) ==
  /\ pc[t] = "recheck"
  /\ Changed(t)
  /\ heap' = [heap EXCEPT ![loc[t].cur] = Filled(loc[t].cur, loc[t].req, {})]
  /\ Goto(t, "fail")
  /\ UNCHANGED <<guest, direct, jmp, dyndump, loc>>

(* Otherwise the block is complete, and every inner jump target that has   *)
(* no block yet gets a son (AddNewDynablock, the lock being held).         *)
FillFinish(t) ==
  /\ pc[t] = "recheck"
  /\ ~Changed(t)
  /\ \E son \in [{s \in SonsOf[loc[t].req] : direct[s] = NoBlock} -> {b \in Block : ~heap[b].live}] :
       /\ \A s1, s2 \in DOMAIN son : s1 # s2 => son[s1] # son[s2]
       /\ heap' = [b \in Block |->
            IF b = loc[t].cur THEN Filled(b, loc[t].req, {son[s] : s \in DOMAIN son})
            ELSE IF \E s \in DOMAIN son : son[s] = b THEN
              [NewCell(CHOOSE s \in DOMAIN son : son[s] = b)
                 EXCEPT !.native = TRUE, !.sized = TRUE, !.father = loc[t].cur]
            ELSE heap[b]]
       /\ direct' = [a \in Addr |-> IF a \in DOMAIN son THEN son[a] ELSE direct[a]]
  /\ Goto(t, "filled")
  /\ UNCHANGED <<guest, jmp, dyndump, loc>>

(* Mutant of UnlockFilled: a block that could not be filled keeps the lock.*)
UnlockFilledOnSuccess(t) ==
  /\ pc[t] \in {"filled", "fail"}
  /\ IF loc[t].held \/ pc[t] = "fail" THEN UNCHANGED dyndump ELSE Unlock(t)
  /\ Goto(t, IF pc[t] = "filled" THEN "publish" ELSE "drop")
  /\ loc' = [loc EXCEPT ![t].hash = Code0]
  /\ UNCHANGED <<guest, tables>>

(* internalDBGetBlock unlocks after FillBlock64, unless its caller holds   *)
(* the lock.                                                               *)
UnlockFilled(t) ==
  /\ pc[t] \in {"filled", "fail"}
  /\ IF loc[t].held THEN UNCHANGED dyndump ELSE Unlock(t)
  /\ Goto(t, IF pc[t] = "filled" THEN "publish" ELSE "drop")
  /\ loc' = [loc EXCEPT ![t].hash = Code0]
  /\ UNCHANGED <<guest, tables>>

(* FillBlock64 returned NULL: take the block out of direct (if it is still *)
(* there) and free it.                                                     *)
Drop(t) ==
  /\ pc[t] = "drop"
  /\ direct' = [direct EXCEPT ![loc[t].req] = IF @ = loc[t].cur THEN NoBlock ELSE @]
  /\ heap' = [heap EXCEPT ![loc[t].cur] = FreedCell(t, loc[t].cur)]
  /\ IF loc[t].held THEN Goto(t, "unlock") /\ UNCHANGED loc ELSE Leave(t)
  /\ UNCHANGED <<guest, jmp, dyndump>>

(* A filled block enters the jump table with its sons and is done.  This   *)
(* runs after the unlock.                                                  *)
Publish(t) ==
  /\ pc[t] = "publish"
  /\ IF heap[loc[t].cur].sized
     THEN /\ jmp' = JumpAdded(Family(loc[t].cur))
          /\ heap' = [b \in Block |-> IF b \in Family(loc[t].cur)
                        THEN [heap[b] EXCEPT !.done = TRUE] ELSE heap[b]]
     ELSE UNCHANGED <<jmp, heap>>
  /\ Goto(t, IF loc[t].held THEN "unlock" ELSE "check")
  /\ UNCHANGED <<guest, direct, dyndump, loc>>

-----------------------------------------------------------------------------
(* DBGetBlock, second part: a block that was marked is validated.          *)

NeedsTest(b) ==
  /\ heap[Father(b)].done
  /\ heap[b].native
  /\ heap[Father(b)].need_test

(* DBGetBlock returns a block that needs no test; the caller runs it, or   *)
(* the interpreter if it is not done or has no native code.                *)
Return(t) ==
  /\ pc[t] = "check"
  /\ ~NeedsTest(loc[t].cur)
  /\ Leave(t)
  /\ UNCHANGED <<guest, tables, dyndump>>

Test(t) ==
  /\ pc[t] = "check"
  /\ NeedsTest(loc[t].cur)
  /\ loc' = [loc EXCEPT ![t].cur = Father(@)]
  /\ Goto(t, "try")
  /\ UNCHANGED <<guest, tables, dyndump>>

(* Mutant of TryLock: the result of the trylock is ignored.                *)
TryLockIgnored(t) ==
  /\ pc[t] = "try"
  /\ dyndump' = t
  /\ Goto(t, "validate")
  /\ UNCHANGED <<guest, tables, loc>>

(* trylock: NULL is returned at once when another thread has the lock.     *)
TryLock(t) ==
  /\ pc[t] = "try"
  /\ IF dyndump = NoThread
     THEN dyndump' = t /\ Goto(t, "validate") /\ UNCHANGED loc
     ELSE Leave(t) /\ UNCHANGED dyndump
  /\ UNCHANGED <<guest, tables>>

(* The block lies in a hot page: NULL.                                     *)
ValidateHot(t) ==
  /\ pc[t] = "validate"
  /\ Goto(t, "unlock")
  /\ UNCHANGED <<guest, tables, dyndump, loc>>

(* Mutant of ValidateSame: the hash is not compared.                       *)
ValidateSameUnchecked(t) ==
  /\ pc[t] = "validate"
  /\ Goto(t, "same")
  /\ UNCHANGED <<guest, tables, dyndump, loc>>

(* The code still hashes to what was translated.                           *)
ValidateSame(t) ==
  /\ pc[t] = "validate"
  /\ CodeAt(heap[loc[t].cur].addr) = heap[loc[t].cur].hash
  /\ Goto(t, "same")
  /\ UNCHANGED <<guest, tables, dyndump, loc>>

(* Mutant of Revalidate: the pages are not protected again.                *)
RevalidateUnprotected(t) ==
  /\ pc[t] = "same"
  /\ heap' = [heap EXCEPT ![loc[t].cur].need_test = FALSE]
  /\ jmp' = JumpAdded(Family(loc[t].cur))
  /\ Goto(t, "unlock")
  /\ UNCHANGED <<guest, direct, dyndump, loc>>

(* The block is clean again: its pages are protected and the jump table    *)
(* filled back.                                                            *)
Revalidate(t) ==
  /\ pc[t] = "same"
  /\ heap' = [heap EXCEPT ![loc[t].cur].need_test = FALSE]
  /\ Protect(PagesOf[heap[loc[t].cur].addr])
  /\ jmp' = JumpAdded(Family(loc[t].cur))
  /\ Goto(t, "unlock")
  /\ UNCHANGED <<mem, prot, direct, dyndump, loc>>

(* The code changed: the father is freed (FreeDynablock without locking)   *)
(* and internalDBGetBlock is called again with the lock held.              *)
ValidateChanged(t) ==
  /\ pc[t] = "validate"
  /\ CodeAt(heap[loc[t].cur].addr) # heap[loc[t].cur].hash
  /\ IF heap[loc[t].cur].gone
     THEN heap' = [heap EXCEPT ![loc[t].cur].done = FALSE] /\ UNCHANGED <<direct, jmp>>
     ELSE Release(t, loc[t].cur)
  /\ Goto(t, "again")
  /\ UNCHANGED <<guest, dyndump, loc>>

(* internalDBGetBlock(..., need_lock = 0) reads direct again.              *)
Again(t) ==
  /\ pc[t] = "again"
  /\ loc' = [loc EXCEPT ![t].held = TRUE, ![t].cur = direct[loc[t].req]]
  /\ Goto(t, IF direct[loc[t].req] # NoBlock THEN "unlock" ELSE "add")
  /\ UNCHANGED <<guest, tables, dyndump>>

(* The last unlock of DBGetBlock.                                          *)
UnlockReturn(t) ==
  /\ pc[t] = "unlock"
  /\ Unlock(t)
  /\ Leave(t)
  /\ UNCHANGED <<guest, tables>>

-----------------------------------------------------------------------------
(* The guest writes to its memory.                                         *)

(* A store to a page that is not protected goes through.                   *)
Write(t, p, c) ==
  /\ pc[t] = "run"
  /\ ~dyn[p]
  /\ c # mem[p]
  /\ mem' = [mem EXCEPT ![p] = c]
  /\ UNCHANGED <<dyn, prot, tables, dyndump, pc, loc>>

(* A store to a protected page faults: my_box64signalhandler, then         *)
(* unprotectDB, which takes mutex_prot.  The store is tried again later.   *)
Fault(t, p) ==
  /\ pc[t] = "run"
  /\ dyn[p]
  /\ loc' = [loc EXCEPT ![t].page = p]
  /\ Goto(t, "mark")
  /\ UNCHANGED <<guest, tables, dyndump>>

(* unprotectDB marks the blocks of the page first ...                      *)
Mark(t) ==
  /\ pc[t] = "mark"
  /\ prot = NoThread
  /\ IF dyn[loc[t].page]
     THEN MarkRange(loc[t].page) /\ prot' = t /\ Goto(t, "unprotect") /\ UNCHANGED loc
     ELSE Leave(t) /\ UNCHANGED <<heap, jmp, prot>>
  /\ UNCHANGED <<mem, dyn, direct, dyndump>>

(* ... then gives the page its write permission back.                      *)
Unprotect(t) ==
  /\ pc[t] = "unprotect"
  /\ dyn' = [dyn EXCEPT ![loc[t].page] = FALSE]
  /\ prot' = NoThread
  /\ Leave(t)
  /\ UNCHANGED <<mem, tables, dyndump>>

-----------------------------------------------------------------------------
(* The guest unmaps page p: my_munmap, cleanDBFromAddressRange(p, 4K, 1).  *)

(* Mutant of FreeRange: a block without a father notes a NULL father.      *)
FreeRangeFatherOnly(t, p) ==
  LET A == {a \in Addr : FirstPage[a] = p /\ direct[a] # NoBlock}
  IN  /\ pc[t] = "run"
      /\ direct' = [a \in Addr |-> IF a \in A THEN NoBlock ELSE direct[a]]
      /\ loc' = [loc EXCEPT ![t].page = p, ![t].todo = {heap[direct[a]].father : a \in A}]
      /\ Goto(t, "purge")
      /\ UNCHANGED <<guest, jmp, heap, dyndump>>

(* FreeRangeDynablock empties the direct entries of the page, without a    *)
(* lock, and notes the fathers.                                            *)
FreeRange(t, p) ==
  LET A == {a \in Addr : FirstPage[a] = p /\ direct[a] # NoBlock}
  IN  /\ pc[t] = "run"
      /\ direct' = [a \in Addr |-> IF a \in A THEN NoBlock ELSE direct[a]]
      /\ loc' = [loc EXCEPT ![t].page = p, ![t].todo = {Father(direct[a]) : a \in A}]
      /\ Goto(t, "purge")
      /\ UNCHANGED <<guest, jmp, heap, dyndump>>

(* FreeDynablock looks at "gone" before it takes the lock ...              *)
FreeDynablock(t, b) ==
  /\ pc[t] = "purge"
  /\ b \in loc[t].todo
  /\ loc' = [loc EXCEPT ![t].todo = @ \ {b}, ![t].cur = b]
  /\ Goto(t, IF heap[b].gone THEN "purge" ELSE "free")
  /\ UNCHANGED <<guest, tables, dyndump>>

(* ... and frees the block in the critical section.                        *)
FreeLocked(t) ==
  /\ pc[t] = "free"
  /\ dyndump = NoThread
  /\ Release(t, loc[t].cur)
  /\ Goto(t, "purge")
  /\ UNCHANGED <<guest, dyndump, loc>>

(* munmap and freeProtection, after which the guest maps the page again    *)
(* with other contents.                                                    *)
Munmap(t, c) ==
  /\ pc[t] = "purge"
  /\ loc[t].todo = {}
  /\ prot = NoThread
  /\ mem' = [mem EXCEPT ![loc[t].page] = c]
  /\ dyn' = [dyn EXCEPT ![loc[t].page] = FALSE]
  /\ Leave(t)
  /\ UNCHANGED <<prot, tables, dyndump>>

-----------------------------------------------------------------------------
(* The steps of a thread inside DBGetBlock, inside its signal handler and  *)
(* inside munmap; the rest is what the guest program chooses to do.        *)
Fill(t) ==
  \/ FillHot(t) \/ FillNoDynarec(t) \/ FillProtect(t) \/ FillNull(t)
  \/ FillSegv(t) \/ CancelFill(t) \/ FillWritten(t) \/ FillHash(t)
  \/ FillNoMemory(t) \/ FillTranslate(t) \/ FillChanged(t) \/ FillFinish(t)
  \/ UnlockFilled(t) \/ Drop(t) \/ Publish(t)

DBGetBlock(t) ==
  \/ AddNew(t) \/ AddFound(t) \/ AddAppeared(t) \/ Fill(t)
  \/ Return(t) \/ Test(t) \/ TryLock(t)
  \/ ValidateHot(t) \/ ValidateSame(t) \/ Revalidate(t)
  \/ ValidateChanged(t) \/ Again(t) \/ UnlockReturn(t)

Handler(t) == Mark(t) \/ Unprotect(t)

Purge(t) ==
  \/ \E b \in Block : FreeDynablock(t, b)
  \/ FreeLocked(t)
  \/ \E c \in Content : Munmap(t, c)

Guest(t) ==
  \/ \E a \in Entry : Get(t, a)
  \/ \E p \in Page, c \in Content : Write(t, p, c)
  \/ \E p \in Page : Fault(t, p)
  \/ \E p \in Unmapped : FreeRange(t, p)

Next == \E t \in Thread : Guest(t) \/ DBGetBlock(t) \/ Handler(t) \/ Purge(t)

Spec == Init /\ [][Next]_vars

(* A thread that is scheduled goes on with what it is doing.               *)
FairSpec ==
  /\ Spec
  /\ \A t \in Thread : WF_vars(DBGetBlock(t) \/ Handler(t) \/ Purge(t))

-----------------------------------------------------------------------------
(* Every variable stays in its type.                                       *)
TypeOK ==
  /\ mem \in [Page -> Content]
  /\ dyn \in [Page -> BOOLEAN]
  /\ direct \in [Addr -> Ptr]
  /\ jmp \in [Addr -> Ptr]
  /\ heap \in [Block -> Cell]
  /\ dyndump \in Thread \cup {NoThread}
  /\ prot \in Thread \cup {NoThread}
  /\ pc \in [Thread -> Label]
  /\ loc \in [Thread -> Local]

(* The places of DBGetBlock that run under mutex_dyndump.                  *)
Holding(t) ==
  \/ pc[t] \in {"fill", "pass0", "translate", "recheck", "filled", "fail",
                "validate", "same", "again", "unlock"}
  \/ loc[t].held /\ pc[t] \in {"add", "drop", "publish"}

(* mutex_dyndump is owned exactly by the thread that is between the lock   *)
(* AddNewDynablock leaves locked (or DBGetBlock's trylock) and the unlock  *)
(* of internalDBGetBlock (or of DBGetBlock): the lock is taken in one      *)
(* function and released in another, several times over when the calls     *)
(* nest, and a cancelled fill gives it up inside a signal handler.         *)
LockDiscipline == \A t \in Thread : dyndump = t <=> Holding(t)

(* When AddNewDynablock runs with the lock already held (a block is        *)
(* replaced after a failed validation), no block can appear under it: the  *)
(* branch that unlocks would release the caller's lock.                    *)
NestedAddFindsEmpty ==
  \A t \in Thread : pc[t] = "add" /\ loc[t].held => direct[loc[t].req] = NoBlock

(* A block that DBGetBlock returns, and runs, without a test.              *)
Clean(b) == heap[b].native /\ heap[Father(b)].done /\ ~heap[Father(b)].need_test

(* Such a block was translated from what memory holds now: a write to its  *)
(* code has marked it, and it was validated or translated again since.     *)
CleanMatchesMemory ==
  \A a \in Addr : direct[a] # NoBlock /\ Clean(direct[a]) =>
    heap[Father(direct[a])].code = CodeAt(heap[Father(direct[a])].addr)

(* A page that can be written without a fault holds no code of a clean     *)
(* block: unprotectDB says that it will "mark all block as dirty".         *)
UnprotectedAllMarked ==
  \A p \in Page, a \in Addr : ~dyn[p] /\ direct[a] # NoBlock /\ Clean(direct[a]) =>
    p \notin PagesOf[heap[Father(direct[a])].addr]

(* A clean block whose pages are all protected is up to date: protectDB    *)
(* removes the write permission "so DB can be executed safely".            *)
ProtectedIsSafe ==
  \A a \in Addr :
    /\ direct[a] # NoBlock
    /\ Clean(direct[a])
    /\ \A p \in PagesOf[heap[Father(direct[a])].addr] : dyn[p]
    => heap[Father(direct[a])].code = CodeAt(heap[Father(direct[a])].addr)

(* Native code jumps through the jump table without any test: an entry     *)
(* stands for a block that is alive, starts at that address and is clean.  *)
JumpTableClean ==
  \A a \in Addr : jmp[a] # NoBlock =>
    /\ heap[jmp[a]].live
    /\ heap[jmp[a]].addr = a
    /\ heap[Father(jmp[a])].live
    /\ Clean(jmp[a])

(* direct never holds a freed block, nor a son whose father is freed.      *)
DirectAlive ==
  \A a \in Addr : direct[a] # NoBlock =>
    /\ heap[direct[a]].live
    /\ heap[direct[a]].addr = a
    /\ heap[Father(direct[a])].live

(* FreeDynablock never goes on with a block that another thread has freed  *)
(* meanwhile: it returns from a block "already in the process of           *)
(* deletion!".  With two threads this fails (README, section 5).           *)
FreesOnlyLive == \A t \in Thread : pc[t] = "free" => heap[loc[t].cur].live

(* No thread keeps mutex_dyndump for ever, whatever path FillBlock64 takes *)
(* out of the critical section.                                            *)
LockReleased == \A t \in Thread : dyndump = t ~> dyndump # t
=============================================================================
