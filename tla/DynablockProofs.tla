-------------------------- MODULE DynablockProofs --------------------------
(***************************************************************************)
(* Proofs about Dynablock, for every set of threads, addresses, pages and  *)
(* cells: the type invariant, and the discipline of mutex_dyndump; and     *)
(* then, for a program with one thread, what blocks have to do with        *)
(* memory.  The last part is about HotPage, the other half of dynablock.c: *)
(* the table never holds a page that was not declared hot, for every       *)
(* number of slots, pages and refusals, and its counter of slots in use is *)
(* never too high.                                                         *)
(***************************************************************************)
EXTENDS Dynablock, HotPage, FiniteSetTheorems, TLAPS

(* A thread that uses its block pointer has one.                           *)
PointerHeld ==
  \A t \in Thread :
    pc[t] \in {"fill", "pass0", "segv", "translate", "recheck", "filled", "fail",
               "drop", "publish", "check", "try", "validate", "same", "free"}
    => loc[t].cur \in Block

TypeInv == TypeOK /\ PointerHeld

-----------------------------------------------------------------------------
(* Facts about the operators of Dynablock.                                 *)

(* The choices in Idle exist.                                              *)
LEMMA IdleType == Idle \in Local
<1>1. (CHOOSE a \in Addr : TRUE) \in Addr /\ (CHOOSE p \in Page : TRUE) \in Page
  BY DynablockAssumption
<1>2. Code0 \in Code
  <2>1. Code0 \in [{} -> Content]
    BY DEF Code0
  <2> QED  BY <2>1 DEF Code
<1> QED  BY <1>1, <1>2 DEF Idle, Local, Ptr

(* The signature of the code at a is a signature.                          *)
LEMMA CodeAtType ==
  ASSUME mem \in [Page -> Content], NEW a \in Addr
  PROVE  CodeAt(a) \in Code
<1>1. PagesOf[a] \in SUBSET Page
  BY DynablockAssumption
<1>2. CodeAt(a) \in [PagesOf[a] -> Content]
  BY <1>1 DEF CodeAt
<1> QED  BY <1>1, <1>2 DEF Code

(* A new cell, and one that malloc owns, are cells.                        *)
LEMMA NewCellType ==
  ASSUME NEW a \in Addr
  PROVE  NewCell(a) \in Cell
<1>1. Code0 \in Code
  BY IdleType DEF Idle, Local
<1> QED  BY <1>1 DEF NewCell, Cell, Ptr

(* The cell malloc has not handed out yet is a cell.                       *)
LEMMA DeadCellType == DeadCell \in Cell
<1>1. Idle.req \in Addr
  BY IdleType DEF Local
<1>2. NewCell(Idle.req) \in Cell
  BY <1>1, NewCellType
<1> QED  BY <1>2 DEF DeadCell, Cell

(* The father of a block is a block, and so are the members of its family. *)
LEMMA FamilyType ==
  ASSUME heap \in [Block -> Cell], NEW b \in Block
  PROVE  Father(b) \in Block /\ Family(b) \subseteq Block
<1>1. heap[b] \in Cell
  OBVIOUS
<1> QED  BY <1>1 DEF Father, Family, Cell, Ptr

(* Changes of the jump table keep its type.                                *)
LEMMA JumpType ==
  ASSUME jmp \in [Addr -> Ptr]
  PROVE  /\ \A S \in SUBSET Block : JumpAdded(S) \in [Addr -> Ptr]
         /\ \A A : JumpReset(A) \in [Addr -> Ptr]
  BY DEF JumpAdded, JumpReset, Ptr

(* Freeing a father and its sons keeps the tables in their types.          *)
LEMMA ReleaseType ==
  ASSUME TypeOK, NEW t \in Thread, NEW b \in Block, Release(t, b)
  PROVE  /\ heap' \in [Block -> Cell]
         /\ direct' \in [Addr -> Ptr]
         /\ jmp' \in [Addr -> Ptr]
<1>1. \A x \in Block : [FreedCell(t, x) EXCEPT !.done = FALSE, !.gone = TRUE] \in Cell
  <2> SUFFICES ASSUME NEW x \in Block
               PROVE  [FreedCell(t, x) EXCEPT !.done = FALSE, !.gone = TRUE] \in Cell
    OBVIOUS
  <2>1. heap[x] \in Cell
    BY DEF TypeOK
  <2>2. FreedCell(t, x) \in Cell
    BY <2>1, DeadCellType DEF FreedCell, Cell
  <2> QED  BY <2>2 DEF Cell
<1>2. heap' \in [Block -> Cell]
  BY <1>1 DEF Release, TypeOK
<1>3. direct' \in [Addr -> Ptr]
  BY DEF Release, TypeOK, Ptr
<1>4. jmp' \in [Addr -> Ptr]
  BY JumpType DEF Release, TypeOK
<1> QED  BY <1>2, <1>3, <1>4

-----------------------------------------------------------------------------
(* A jump of thread t to label l.                                          *)
LEMMA GotoType ==
  ASSUME pc \in [Thread -> Label], NEW t \in Thread, NEW l \in Label, Goto(t, l)
  PROVE  /\ pc' \in [Thread -> Label]
         /\ pc'[t] = l
         /\ \A u \in Thread \ {t} : pc'[u] = pc[u]
  BY DEF Goto

(* Going back to the emulated program.                                     *)
LEMMA LeaveType ==
  ASSUME pc \in [Thread -> Label], loc \in [Thread -> Local], NEW t \in Thread, Leave(t)
  PROVE  /\ pc' \in [Thread -> Label]
         /\ loc' \in [Thread -> Local]
         /\ pc'[t] = "run"
         /\ \A u \in Thread \ {t} : pc'[u] = pc[u] /\ loc'[u] = loc[u]
<1>1. "run" \in Label
  BY DEF Label
<1> QED  BY <1>1, IdleType DEF Leave, Goto

(* The initial state.                                                      *)
LEMMA TypeInit == Init => TypeInv
<1> SUFFICES ASSUME Init PROVE TypeInv
  OBVIOUS
<1>1. TypeOK
  BY IdleType, DeadCellType DEF Init, TypeOK, Ptr, Label
<1>2. PointerHeld
  BY DEF Init, PointerHeld
<1> QED  BY <1>1, <1>2 DEF TypeInv

(* Steps that only move a thread or touch dyndump, dyn or a thread's       *)
(* local variables.                                                        *)
LEMMA TypeLight ==
  ASSUME TypeInv, NEW t \in Thread,
         \/ FillHot(t) \/ FillProtect(t) \/ FillNull(t) \/ FillSegv(t) \/ CancelFill(t)
         \/ FillWritten(t) \/ FillNoMemory(t) \/ Return(t) \/ TryLock(t)
         \/ ValidateHot(t) \/ ValidateSame(t) \/ UnlockReturn(t) \/ Unprotect(t)
  PROVE  TypeInv'
<1> USE DEF TypeInv
<1>0. /\ mem' = mem /\ direct' = direct /\ jmp' = jmp /\ heap' = heap
      /\ dyndump' \in Thread \cup {NoThread} /\ prot' \in Thread \cup {NoThread}
  BY DEF TypeOK, FillHot, FillProtect, FillNull, FillSegv, CancelFill, FillWritten,
         FillNoMemory, Return, TryLock, ValidateHot, ValidateSame, UnlockReturn,
         Unprotect, Unlock, guest, tables
<1>1. dyn' \in [Page -> BOOLEAN]
  BY DEF TypeOK, FillHot, FillProtect, FillNull, FillSegv, CancelFill, FillWritten,
         FillNoMemory, Return, TryLock, ValidateHot, ValidateSame, UnlockReturn,
         Unprotect, Protect, guest
<1>2. \/ /\ loc' = loc
         /\ \/ FillHot(t) \/ FillProtect(t) \/ FillNull(t) \/ FillSegv(t) \/ CancelFill(t)
            \/ FillWritten(t) \/ FillNoMemory(t) \/ TryLock(t)
            \/ ValidateHot(t) \/ ValidateSame(t)
         /\ \E l \in {"fail", "pass0", "filled", "segv", "unlock", "validate", "same"} : Goto(t, l)
      \/ Leave(t)
  BY DEF FillHot, FillProtect, FillNull, FillSegv, CancelFill, FillWritten,
         FillNoMemory, Return, TryLock, ValidateHot, ValidateSame, UnlockReturn, Unprotect
<1>3. CASE Leave(t)
  <2>1. /\ pc' \in [Thread -> Label] /\ loc' \in [Thread -> Local] /\ pc'[t] = "run"
        /\ \A u \in Thread \ {t} : pc'[u] = pc[u] /\ loc'[u] = loc[u]
    BY <1>3, LeaveType DEF TypeOK
  <2>2. TypeOK'
    BY <1>0, <1>1, <2>1 DEF TypeOK
  <2>3. PointerHeld'
    BY <2>1 DEF PointerHeld
  <2> QED  BY <2>2, <2>3
<1>4. CASE /\ loc' = loc
           /\ \/ FillHot(t) \/ FillProtect(t) \/ FillNull(t) \/ FillSegv(t) \/ CancelFill(t)
              \/ FillWritten(t) \/ FillNoMemory(t) \/ TryLock(t)
              \/ ValidateHot(t) \/ ValidateSame(t)
           /\ \E l \in {"fail", "pass0", "filled", "segv", "unlock", "validate", "same"} : Goto(t, l)
  <2>1. PICK l \in {"fail", "pass0", "filled", "segv", "unlock", "validate", "same"} : Goto(t, l)
    BY <1>4
  <2>2. l \in Label
    BY DEF Label
  <2>3. /\ pc' \in [Thread -> Label] /\ pc'[t] = l
        /\ \A u \in Thread \ {t} : pc'[u] = pc[u]
    BY <2>1, <2>2, GotoType DEF TypeOK
  <2>4. TypeOK'
    BY <1>0, <1>1, <1>4, <2>3 DEF TypeOK
  <2>5. loc[t].cur \in Block
    BY <1>4 DEF PointerHeld, FillHot, FillProtect, FillNull, FillSegv, CancelFill,
                FillWritten, FillNoMemory, TryLock, ValidateHot, ValidateSame
  <2>6. PointerHeld'
    BY <1>4, <2>3, <2>5 DEF PointerHeld
  <2> QED  BY <2>4, <2>6
<1> QED  BY <1>2, <1>3, <1>4

(* Steps that change a thread's variables: types of the new values.        *)
LEMMA LocalType ==
  ASSUME NEW r \in Local
  PROVE  /\ \A v \in Addr : [r EXCEPT !.req = v] \in Local
         /\ \A v \in Page : [r EXCEPT !.page = v] \in Local
         /\ \A v \in Ptr : [r EXCEPT !.cur = v] \in Local
         /\ \A v \in BOOLEAN : [r EXCEPT !.held = v] \in Local
         /\ \A v \in Code : [r EXCEPT !.hash = v] \in Local
         /\ \A v \in SUBSET Block : [r EXCEPT !.todo = v] \in Local
  BY DEF Local

(* Steps of a thread that is asking for a block and changes its own        *)
(* variables.                                                              *)
LEMMA TypeLocal ==
  ASSUME TypeInv, NEW t \in Thread,
         \/ \E a \in Entry : Get(t, a)
         \/ AddFound(t) \/ AddAppeared(t) \/ FillHash(t) \/ UnlockFilled(t) \/ Test(t) \/ Again(t)
  PROVE  TypeInv'
<1> USE DEF TypeInv
<1>0. /\ mem' = mem /\ direct' = direct /\ jmp' = jmp /\ heap' = heap /\ prot' = prot
      /\ dyndump' \in Thread \cup {NoThread}
  BY DEF TypeOK, Get, AddFound, AddAppeared, FillHash, UnlockFilled, Test, Again, Unlock, guest, tables
<1>1. dyn' \in [Page -> BOOLEAN]
  BY DEF TypeOK, Get, AddFound, AddAppeared, FillHash, UnlockFilled, Test, Again, Protect, guest
<1>2. loc[t] \in Local /\ loc[t].req \in Addr
  BY DEF TypeOK, Local
<1>3. \E r \in Local, l \in Label :
        /\ loc' = [loc EXCEPT ![t] = r]
        /\ Goto(t, l)
        /\ r.cur \in Block \/ l \in {"add", "unlock"}
  <2>1. CASE \E a \in Entry : Get(t, a)
    <3>1. PICK a \in Entry : Get(t, a)
      BY <2>1
    <3>2. a \in Addr /\ direct[a] \in Ptr
      BY DynablockAssumption DEF TypeOK
    <3>3. [Idle EXCEPT !.req = a, !.cur = direct[a]] \in Local
      BY <3>2, IdleType, LocalType
    <3>4. [Idle EXCEPT !.req = a, !.cur = direct[a]].cur = direct[a]
      BY IdleType DEF Local
    <3> QED  BY <3>1, <3>2, <3>3, <3>4 DEF Get, Label, Ptr
  <2>2. CASE AddFound(t) \/ AddAppeared(t)
    <3>1. direct[loc[t].req] \in Block
      BY <2>2, <1>2 DEF AddFound, AddAppeared, TypeOK, Ptr
    <3>2. [loc[t] EXCEPT !.cur = direct[loc[t].req]] \in Local
      BY <1>2, <3>1 DEF Local, Ptr
    <3>3. [loc[t] EXCEPT !.cur = direct[loc[t].req]].cur = direct[loc[t].req]
      BY <1>2 DEF Local
    <3> QED  BY <2>2, <3>1, <3>2, <3>3 DEF AddFound, AddAppeared, Label
  <2>3. CASE FillHash(t)
    <3>1. CodeAt(loc[t].req) \in Code
      BY <1>2, CodeAtType DEF TypeOK
    <3>2. [loc[t] EXCEPT !.hash = CodeAt(loc[t].req)] \in Local
      BY <1>2, <3>1 DEF Local
    <3>3. [loc[t] EXCEPT !.hash = CodeAt(loc[t].req)].cur \in Block
      BY <2>3, <1>2 DEF FillHash, Local, PointerHeld
    <3> QED  BY <2>3, <3>2, <3>3 DEF FillHash, Label
  <2>4. CASE UnlockFilled(t)
    <3>1. Code0 \in Code
      BY IdleType DEF Idle, Local
    <3>2. [loc[t] EXCEPT !.hash = Code0] \in Local
      BY <1>2, <3>1 DEF Local
    <3>3. [loc[t] EXCEPT !.hash = Code0].cur \in Block
      BY <2>4, <1>2 DEF UnlockFilled, Local, PointerHeld
    <3> QED  BY <2>4, <3>2, <3>3 DEF UnlockFilled, Label
  <2>5. CASE Test(t)
    <3>1. loc[t].cur \in Block
      BY <2>5 DEF Test, PointerHeld
    <3>2. Father(loc[t].cur) \in Block
      BY <3>1, FamilyType DEF TypeOK
    <3>3. [loc[t] EXCEPT !.cur = Father(loc[t].cur)] \in Local
      BY <1>2, <3>2 DEF Local, Ptr
    <3>4. [loc[t] EXCEPT !.cur = Father(loc[t].cur)].cur \in Block
      BY <1>2, <3>2 DEF Local
    <3> QED  BY <2>5, <3>3, <3>4 DEF Test, Label
  <2>6. CASE Again(t)
    <3>1. direct[loc[t].req] \in Ptr
      BY <1>2 DEF TypeOK
    <3>2. [loc[t] EXCEPT !.held = TRUE, !.cur = direct[loc[t].req]] \in Local
      BY <1>2, <3>1 DEF Local
    <3> QED  BY <2>6, <3>2 DEF Again, Label
  <2> QED  BY <2>1, <2>2, <2>3, <2>4, <2>5, <2>6
<1>4. PICK r \in Local, l \in Label :
        /\ loc' = [loc EXCEPT ![t] = r]
        /\ Goto(t, l)
        /\ r.cur \in Block \/ l \in {"add", "unlock"}
  BY <1>3
<1>5. /\ pc' \in [Thread -> Label] /\ pc'[t] = l
      /\ \A u \in Thread \ {t} : pc'[u] = pc[u]
  BY <1>4, GotoType DEF TypeOK
<1>6. /\ loc' \in [Thread -> Local] /\ loc'[t] = r
      /\ \A u \in Thread \ {t} : loc'[u] = loc[u]
  BY <1>4 DEF TypeOK
<1>7. TypeOK'
  BY <1>0, <1>1, <1>5, <1>6 DEF TypeOK
<1>8. PointerHeld'
  BY <1>4, <1>5, <1>6 DEF PointerHeld
<1> QED  BY <1>7, <1>8

(* What is left to show of a step that moves one thread: the tables.       *)
LEMMA TypeFromTables ==
  ASSUME TypeInv, NEW t \in Thread, NEW l \in Label, Goto(t, l),
         NEW r \in Local, loc' = [loc EXCEPT ![t] = r],
         r.cur \in Block \/ l \in {"run", "add", "again", "unlock", "mark", "unprotect", "purge"},
         mem' \in [Page -> Content], dyn' \in [Page -> BOOLEAN],
         direct' \in [Addr -> Ptr], jmp' \in [Addr -> Ptr], heap' \in [Block -> Cell],
         dyndump' \in Thread \cup {NoThread}, prot' \in Thread \cup {NoThread}
  PROVE  TypeInv'
<1> USE DEF TypeInv
<1>1. /\ pc' \in [Thread -> Label] /\ pc'[t] = l
      /\ \A u \in Thread \ {t} : pc'[u] = pc[u]
  BY GotoType DEF TypeOK
<1>2. /\ loc' \in [Thread -> Local] /\ loc'[t] = r
      /\ \A u \in Thread \ {t} : loc'[u] = loc[u]
  BY DEF TypeOK
<1>3. TypeOK'
  BY <1>1, <1>2 DEF TypeOK
<1>4. PointerHeld'
  BY <1>1, <1>2 DEF PointerHeld
<1> QED  BY <1>3, <1>4

(* A step that leaves the thread's variables alone leaves them as they are.*)
LEMMA SameLocal ==
  ASSUME TypeInv, NEW t \in Thread, UNCHANGED loc
  PROVE  loc[t] \in Local /\ loc' = [loc EXCEPT ![t] = loc[t]]
  BY DEF TypeInv, TypeOK

(* Changing one cell, or the cells of a set, keeps the type of the heap.   *)
LEMMA HeapType ==
  ASSUME heap \in [Block -> Cell]
  PROVE  /\ \A b, c : c \in Cell => [heap EXCEPT ![b] = c] \in [Block -> Cell]
         /\ \A b \in Block, v \in BOOLEAN : [heap[b] EXCEPT !.done = v] \in Cell
         /\ \A b \in Block, v \in BOOLEAN : [heap[b] EXCEPT !.need_test = v] \in Cell
         /\ \A b \in Block, v \in BOOLEAN : [heap[b] EXCEPT !.live = v] \in Cell
         /\ \A b \in Block, v \in Code : [heap[b] EXCEPT !.code = v] \in Cell
<1>1. \A b, c : c \in Cell => [heap EXCEPT ![b] = c] \in [Block -> Cell]
  OBVIOUS
<1>2. ASSUME NEW b \in Block, NEW v \in BOOLEAN
      PROVE  /\ [heap[b] EXCEPT !.done = v] \in Cell
             /\ [heap[b] EXCEPT !.need_test = v] \in Cell
             /\ [heap[b] EXCEPT !.live = v] \in Cell
  <2>1. heap[b] \in Cell
    OBVIOUS
  <2> QED  BY <2>1 DEF Cell
<1>3. ASSUME NEW b \in Block, NEW v \in Code
      PROVE  [heap[b] EXCEPT !.code = v] \in Cell
  <2>1. heap[b] \in Cell
    OBVIOUS
  <2> QED  BY <2>1 DEF Cell
<1> QED  BY <1>1, <1>2, <1>3

(* The cell that FillBlock64 leaves behind.                                *)
LEMMA FilledType ==
  ASSUME TypeInv, NEW b \in Block, NEW a \in Addr, NEW S \in SUBSET Block
  PROVE  Filled(b, a, S) \in Cell
<1>1. heap[b] \in Cell /\ CodeAt(a) \in Code
  BY CodeAtType DEF TypeInv, TypeOK
<1> QED  BY <1>1 DEF Filled, Cell

(* Creating and filling a block.                                           *)
LEMMA TypeFill ==
  ASSUME TypeInv, NEW t \in Thread,
         \/ AddNew(t) \/ FillNoDynarec(t) \/ FillTranslate(t) \/ FillChanged(t)
         \/ FillFinish(t) \/ Drop(t) \/ Publish(t)
  PROVE  TypeInv'
<1>0. /\ mem \in [Page -> Content] /\ dyn \in [Page -> BOOLEAN] /\ direct \in [Addr -> Ptr]
      /\ jmp \in [Addr -> Ptr] /\ heap \in [Block -> Cell]
      /\ dyndump \in Thread \cup {NoThread} /\ prot \in Thread \cup {NoThread}
      /\ loc[t] \in Local /\ loc[t].req \in Addr
  BY DEF TypeInv, TypeOK, Local
<1>a. \A l \in {"fill", "filled", "recheck", "fail", "run", "unlock", "check"} : l \in Label
  BY DEF Label
<1>1. CASE AddNew(t)
  <2>1. PICK b \in Block : /\ heap' = [heap EXCEPT ![b] = NewCell(loc[t].req)]
                           /\ direct' = [direct EXCEPT ![loc[t].req] = b]
                           /\ loc' = [loc EXCEPT ![t].cur = b]
    BY <1>1 DEF AddNew
  <2>2. heap' \in [Block -> Cell]
    BY <1>0, <2>1, NewCellType
  <2>3. direct' \in [Addr -> Ptr]
    BY <1>0, <2>1 DEF Ptr
  <2>4. [loc[t] EXCEPT !.cur = b] \in Local /\ [loc[t] EXCEPT !.cur = b].cur = b
    BY <1>0 DEF Local, Ptr
  <2>5. loc' = [loc EXCEPT ![t] = [loc[t] EXCEPT !.cur = b]]
    BY <2>1
  <2>6. /\ Goto(t, "fill") /\ dyndump' = t
        /\ mem' = mem /\ dyn' = dyn /\ prot' = prot /\ jmp' = jmp
    BY <1>1 DEF AddNew, Lock, guest
  <2> QED  BY <1>0, <1>a, <2>2, <2>3, <2>4, <2>5, <2>6, TypeFromTables
<1>2. CASE FillNoDynarec(t)
  <2>1. loc[t].cur \in Block
    BY <1>2 DEF FillNoDynarec, TypeInv, PointerHeld
  <2>2. heap' = [heap EXCEPT ![loc[t].cur] = [heap[loc[t].cur] EXCEPT !.done = TRUE]]
    BY <1>2 DEF FillNoDynarec
  <2>3. heap' \in [Block -> Cell]
    BY <1>0, <2>1, <2>2, HeapType
  <2>4. /\ Goto(t, "filled") /\ UNCHANGED loc /\ dyndump' = dyndump
        /\ mem' = mem /\ dyn' = dyn /\ prot' = prot /\ jmp' = jmp /\ direct' = direct
    BY <1>2 DEF FillNoDynarec, guest
  <2>5. loc[t] \in Local /\ loc' = [loc EXCEPT ![t] = loc[t]]
    BY <2>4, SameLocal
  <2> QED  BY <1>0, <1>a, <2>1, <2>3, <2>4, <2>5, TypeFromTables
<1>3. CASE FillTranslate(t)
  <2>1. loc[t].cur \in Block
    BY <1>3 DEF FillTranslate, TypeInv, PointerHeld
  <2>2. heap' = [heap EXCEPT ![loc[t].cur] = [heap[loc[t].cur] EXCEPT !.code = CodeAt(loc[t].req)]]
    BY <1>3 DEF FillTranslate
  <2>3. heap' \in [Block -> Cell]
    BY <1>0, <2>1, <2>2, HeapType, CodeAtType
  <2>4. /\ Goto(t, "recheck") /\ UNCHANGED loc /\ dyndump' = dyndump
        /\ mem' = mem /\ dyn' = dyn /\ prot' = prot /\ jmp' = jmp /\ direct' = direct
    BY <1>3 DEF FillTranslate, guest
  <2>5. loc[t] \in Local /\ loc' = [loc EXCEPT ![t] = loc[t]]
    BY <2>4, SameLocal
  <2> QED  BY <1>0, <1>a, <2>1, <2>3, <2>4, <2>5, TypeFromTables
<1>4. CASE FillChanged(t)
  <2>1. loc[t].cur \in Block
    BY <1>4 DEF FillChanged, TypeInv, PointerHeld
  <2>2. Filled(loc[t].cur, loc[t].req, {}) \in Cell
    BY <1>0, <2>1, FilledType
  <2>3. heap' \in [Block -> Cell]
    BY <1>0, <1>4, <2>2, HeapType DEF FillChanged
  <2>4. /\ Goto(t, "fail") /\ UNCHANGED loc /\ dyndump' = dyndump
        /\ mem' = mem /\ dyn' = dyn /\ prot' = prot /\ jmp' = jmp /\ direct' = direct
    BY <1>4 DEF FillChanged, guest
  <2>5. loc[t] \in Local /\ loc' = [loc EXCEPT ![t] = loc[t]]
    BY <2>4, SameLocal
  <2> QED  BY <1>0, <1>a, <2>1, <2>3, <2>4, <2>5, TypeFromTables
<1>5. CASE FillFinish(t)
  <2>1. loc[t].cur \in Block
    BY <1>5 DEF FillFinish, TypeInv, PointerHeld
  <2>2. PICK son \in [{s \in SonsOf[loc[t].req] : direct[s] = NoBlock} -> {b \in Block : ~heap[b].live}] :
          /\ heap' = [b \in Block |->
            IF b = loc[t].cur THEN Filled(b, loc[t].req, {son[s] : s \in DOMAIN son})
            ELSE IF \E s \in DOMAIN son : son[s] = b THEN
              [NewCell(CHOOSE s \in DOMAIN son : son[s] = b)
                 EXCEPT !.native = TRUE, !.sized = TRUE, !.father = loc[t].cur]
            ELSE heap[b]]
          /\ direct' = [a \in Addr |-> IF a \in DOMAIN son THEN son[a] ELSE direct[a]]
    BY <1>5 DEF FillFinish
  <2>3. \A s \in DOMAIN son : s \in Addr /\ son[s] \in Block
    BY <1>0, DynablockAssumption
  <2>4. {son[s] : s \in DOMAIN son} \in SUBSET Block
    BY <2>3
  <2>5. Filled(loc[t].cur, loc[t].req, {son[s] : s \in DOMAIN son}) \in Cell
    BY <1>0, <2>1, <2>4, FilledType
  <2>6. ASSUME NEW b \in Block, \E s \in DOMAIN son : son[s] = b
        PROVE  [NewCell(CHOOSE s \in DOMAIN son : son[s] = b)
                 EXCEPT !.native = TRUE, !.sized = TRUE, !.father = loc[t].cur] \in Cell
    <3>1. NewCell(CHOOSE s \in DOMAIN son : son[s] = b) \in Cell
      BY <2>3, <2>6, NewCellType
    <3> QED  BY <2>1, <3>1 DEF Cell, Ptr
  <2>7. heap' \in [Block -> Cell]
    BY <1>0, <2>2, <2>5, <2>6
  <2>8. direct' \in [Addr -> Ptr]
    BY <1>0, <2>2, <2>3 DEF Ptr
  <2>9. /\ Goto(t, "filled") /\ UNCHANGED loc /\ dyndump' = dyndump
        /\ mem' = mem /\ dyn' = dyn /\ prot' = prot /\ jmp' = jmp
    BY <1>5 DEF FillFinish, guest
  <2>10. loc[t] \in Local /\ loc' = [loc EXCEPT ![t] = loc[t]]
    BY <2>9, SameLocal
  <2> QED  BY <1>0, <1>a, <2>1, <2>7, <2>8, <2>9, <2>10, TypeFromTables
<1>6. CASE Drop(t)
  <2>1. loc[t].cur \in Block
    BY <1>6 DEF Drop, TypeInv, PointerHeld
  <2>2. FreedCell(t, loc[t].cur) \in Cell
    BY <1>0, <2>1, HeapType, DeadCellType DEF FreedCell
  <2>3. heap' \in [Block -> Cell]
    BY <1>0, <1>6, <2>2, HeapType DEF Drop
  <2>4. direct' \in [Addr -> Ptr]
    BY <1>0, <1>6 DEF Drop, Ptr
  <2>5. /\ dyndump' = dyndump /\ mem' = mem /\ dyn' = dyn /\ prot' = prot /\ jmp' = jmp
    BY <1>6 DEF Drop, guest
  <2>6. CASE Goto(t, "unlock") /\ UNCHANGED loc
    <3>1. loc[t] \in Local /\ loc' = [loc EXCEPT ![t] = loc[t]]
      BY <2>6, SameLocal
    <3> QED  BY <1>0, <1>a, <2>1, <2>3, <2>4, <2>5, <2>6, <3>1, TypeFromTables
  <2>7. CASE Leave(t)
    <3>1. Goto(t, "run") /\ loc' = [loc EXCEPT ![t] = Idle]
      BY <2>7 DEF Leave
    <3> QED  BY <1>0, <1>a, <2>3, <2>4, <2>5, <3>1, IdleType, TypeFromTables
  <2> QED  BY <1>6, <2>6, <2>7 DEF Drop
<1>7. CASE Publish(t)
  <2>1. loc[t].cur \in Block
    BY <1>7 DEF Publish, TypeInv, PointerHeld
  <2>2. Family(loc[t].cur) \in SUBSET Block
    BY <1>0, <2>1, FamilyType
  <2>3. heap' \in [Block -> Cell]
    <3>1. \/ heap' = heap
          \/ heap' = [b \in Block |-> IF b \in Family(loc[t].cur)
                        THEN [heap[b] EXCEPT !.done = TRUE] ELSE heap[b]]
      BY <1>7 DEF Publish
    <3>2. \A b \in Block : heap[b] \in Cell /\ [heap[b] EXCEPT !.done = TRUE] \in Cell
      <4>1. \A b \in Block : [heap[b] EXCEPT !.done = TRUE] \in Cell
        BY <1>0, HeapType
      <4> QED  BY <1>0, <4>1
    <3> QED  BY <1>0, <3>1, <3>2
  <2>4. jmp' \in [Addr -> Ptr]
    BY <1>0, <1>7, <2>2, JumpType DEF Publish
  <2>5. /\ UNCHANGED loc /\ dyndump' = dyndump
        /\ mem' = mem /\ dyn' = dyn /\ prot' = prot /\ direct' = direct
        /\ \E l \in {"unlock", "check"} : Goto(t, l)
    BY <1>7 DEF Publish, guest
  <2>6. loc[t] \in Local /\ loc' = [loc EXCEPT ![t] = loc[t]]
    BY <2>5, SameLocal
  <2> QED  BY <1>0, <1>a, <2>1, <2>3, <2>4, <2>5, <2>6, TypeFromTables
<1> QED  BY <1>1, <1>2, <1>3, <1>4, <1>5, <1>6, <1>7

(* Validating a block, marking and freeing blocks.                         *)
LEMMA TypeFree ==
  ASSUME TypeInv, NEW t \in Thread,
         \/ Revalidate(t) \/ ValidateChanged(t) \/ Mark(t)
         \/ \E p \in Unmapped : FreeRange(t, p)
         \/ \E b \in Block : FreeDynablock(t, b)
         \/ FreeLocked(t)
  PROVE  TypeInv'
<1>0. /\ mem \in [Page -> Content] /\ dyn \in [Page -> BOOLEAN] /\ direct \in [Addr -> Ptr]
      /\ jmp \in [Addr -> Ptr] /\ heap \in [Block -> Cell]
      /\ dyndump \in Thread \cup {NoThread} /\ prot \in Thread \cup {NoThread}
      /\ loc[t] \in Local /\ loc[t].page \in Page
  BY DEF TypeInv, TypeOK, Local
<1>a. \A l \in {"unlock", "again", "unprotect", "run", "purge", "free"} : l \in Label
  BY DEF Label
<1>1. CASE Revalidate(t)
  <2>1. loc[t].cur \in Block
    BY <1>1 DEF Revalidate, TypeInv, PointerHeld
  <2>2. Family(loc[t].cur) \in SUBSET Block
    BY <1>0, <2>1, FamilyType
  <2>3. heap' = [heap EXCEPT ![loc[t].cur] = [heap[loc[t].cur] EXCEPT !.need_test = FALSE]]
    BY <1>1 DEF Revalidate
  <2>4. heap' \in [Block -> Cell]
    BY <1>0, <2>1, <2>3, HeapType
  <2>5. jmp' \in [Addr -> Ptr]
    BY <1>0, <1>1, <2>2, JumpType DEF Revalidate
  <2>6. dyn' \in [Page -> BOOLEAN]
    BY <1>0, <1>1 DEF Revalidate, Protect
  <2>7. /\ Goto(t, "unlock") /\ UNCHANGED loc /\ dyndump' = dyndump
        /\ mem' = mem /\ prot' = prot /\ direct' = direct
    BY <1>1 DEF Revalidate
  <2>8. loc[t] \in Local /\ loc' = [loc EXCEPT ![t] = loc[t]]
    BY <2>7, SameLocal
  <2> QED  BY <1>0, <1>a, <2>1, <2>4, <2>5, <2>6, <2>7, <2>8, TypeFromTables
<1>2. CASE ValidateChanged(t)
  <2>1. loc[t].cur \in Block
    BY <1>2 DEF ValidateChanged, TypeInv, PointerHeld
  <2>2. /\ Goto(t, "again") /\ UNCHANGED loc /\ dyndump' = dyndump
        /\ mem' = mem /\ prot' = prot /\ dyn' = dyn
    BY <1>2 DEF ValidateChanged, guest
  <2>3. loc[t] \in Local /\ loc' = [loc EXCEPT ![t] = loc[t]]
    BY <2>2, SameLocal
  <2>4. heap' \in [Block -> Cell] /\ direct' \in [Addr -> Ptr] /\ jmp' \in [Addr -> Ptr]
    <3>1. CASE Release(t, loc[t].cur)
      BY <2>1, <3>1, ReleaseType DEF TypeInv
    <3>2. CASE heap' = [heap EXCEPT ![loc[t].cur].done = FALSE] /\ UNCHANGED <<direct, jmp>>
      <4>1. heap' = [heap EXCEPT ![loc[t].cur] = [heap[loc[t].cur] EXCEPT !.done = FALSE]]
        BY <3>2
      <4> QED  BY <1>0, <2>1, <3>2, <4>1, HeapType
    <3> QED  BY <1>2, <3>1, <3>2 DEF ValidateChanged
  <2> QED  BY <1>0, <1>a, <2>1, <2>2, <2>3, <2>4, TypeFromTables
<1>3. CASE Mark(t)
  <2>1. mem' = mem /\ dyn' = dyn /\ direct' = direct /\ dyndump' = dyndump
    BY <1>3 DEF Mark
  <2>2. CASE MarkRange(loc[t].page) /\ prot' = t /\ Goto(t, "unprotect") /\ UNCHANGED loc
    <3>1. heap' \in [Block -> Cell]
      BY <1>0, <2>2, HeapType DEF MarkRange
    <3>2. jmp' \in [Addr -> Ptr]
      BY <1>0, <2>2, JumpType DEF MarkRange
    <3>3. loc[t] \in Local /\ loc' = [loc EXCEPT ![t] = loc[t]]
      BY <2>2, SameLocal
    <3> QED  BY <1>0, <1>a, <2>1, <2>2, <3>1, <3>2, <3>3, TypeFromTables
  <2>3. CASE Leave(t) /\ UNCHANGED <<heap, jmp, prot>>
    <3>1. Goto(t, "run") /\ loc' = [loc EXCEPT ![t] = Idle]
      BY <2>3 DEF Leave
    <3> QED  BY <1>0, <1>a, <2>1, <2>3, <3>1, IdleType, TypeFromTables
  <2> QED  BY <1>3, <2>2, <2>3 DEF Mark
<1>4. CASE \E p \in Unmapped : FreeRange(t, p)
  <2>1. PICK p \in Unmapped : FreeRange(t, p)
    BY <1>4
  <2> DEFINE A == {a \in Addr : FirstPage[a] = p /\ direct[a] # NoBlock}
             T == {Father(direct[a]) : a \in A}
  <2>2. p \in Page
    BY DynablockAssumption
  <2>3. T \in SUBSET Block
    <3>1. \A a \in A : direct[a] \in Block
      BY <1>0 DEF Ptr
    <3>2. \A a \in A : Father(direct[a]) \in Block
      BY <1>0, <3>1, FamilyType
    <3> QED  BY <3>2
  <2>4. direct' \in [Addr -> Ptr]
    BY <1>0, <2>1 DEF FreeRange, Ptr
  <2>5. loc' = [loc EXCEPT ![t] = [loc[t] EXCEPT !.page = p, !.todo = T]]
    BY <2>1 DEF FreeRange
  <2>6. [loc[t] EXCEPT !.page = p, !.todo = T] \in Local
    BY <1>0, <2>2, <2>3 DEF Local
  <2>7. /\ Goto(t, "purge") /\ dyndump' = dyndump /\ jmp' = jmp /\ heap' = heap
        /\ mem' = mem /\ prot' = prot /\ dyn' = dyn
    BY <2>1 DEF FreeRange, guest
  <2> HIDE DEF T
  <2> QED  BY <1>0, <1>a, <2>4, <2>5, <2>6, <2>7, TypeFromTables
<1>5. CASE \E b \in Block : FreeDynablock(t, b)
  <2>1. PICK b \in Block : FreeDynablock(t, b)
    BY <1>5
  <2>2. loc' = [loc EXCEPT ![t] = [loc[t] EXCEPT !.todo = loc[t].todo \ {b}, !.cur = b]]
    BY <2>1 DEF FreeDynablock
  <2>3. /\ [loc[t] EXCEPT !.todo = loc[t].todo \ {b}, !.cur = b] \in Local
        /\ [loc[t] EXCEPT !.todo = loc[t].todo \ {b}, !.cur = b].cur = b
    BY <1>0 DEF Local, Ptr
  <2>4. /\ dyndump' = dyndump /\ jmp' = jmp /\ heap' = heap /\ direct' = direct
        /\ mem' = mem /\ prot' = prot /\ dyn' = dyn
        /\ \E l \in {"purge", "free"} : Goto(t, l)
    BY <2>1 DEF FreeDynablock, guest, tables
  <2> QED  BY <1>0, <1>a, <2>2, <2>3, <2>4, TypeFromTables
<1>6. CASE FreeLocked(t)
  <2>1. loc[t].cur \in Block
    BY <1>6 DEF FreeLocked, TypeInv, PointerHeld
  <2>2. /\ Goto(t, "purge") /\ UNCHANGED loc /\ dyndump' = dyndump
        /\ mem' = mem /\ prot' = prot /\ dyn' = dyn
    BY <1>6 DEF FreeLocked, guest
  <2>3. loc[t] \in Local /\ loc' = [loc EXCEPT ![t] = loc[t]]
    BY <2>2, SameLocal
  <2>4. heap' \in [Block -> Cell] /\ direct' \in [Addr -> Ptr] /\ jmp' \in [Addr -> Ptr]
    BY <1>6, <2>1, ReleaseType DEF FreeLocked, TypeInv
  <2> QED  BY <1>0, <1>a, <2>1, <2>2, <2>3, <2>4, TypeFromTables
<1> QED  BY <1>1, <1>2, <1>3, <1>4, <1>5, <1>6

(* What the guest does to its memory.                                      *)
LEMMA TypeGuest ==
  ASSUME TypeInv, NEW t \in Thread,
         \/ \E p \in Page, c \in Content : Write(t, p, c)
         \/ \E p \in Page : Fault(t, p)
         \/ \E c \in Content : Munmap(t, c)
  PROVE  TypeInv'
<1>0. /\ mem \in [Page -> Content] /\ dyn \in [Page -> BOOLEAN] /\ direct \in [Addr -> Ptr]
      /\ jmp \in [Addr -> Ptr] /\ heap \in [Block -> Cell]
      /\ dyndump \in Thread \cup {NoThread} /\ prot \in Thread \cup {NoThread}
      /\ loc[t] \in Local /\ loc[t].page \in Page
  BY DEF TypeInv, TypeOK, Local
<1>a. "run" \in Label /\ "mark" \in Label
  BY DEF Label
<1>1. CASE \E p \in Page, c \in Content : Write(t, p, c)
  <2>1. /\ mem' \in [Page -> Content]
        /\ UNCHANGED <<dyn, prot, direct, jmp, heap, dyndump, pc, loc>>
    BY <1>0, <1>1 DEF Write, tables
  <2> QED  BY <2>1 DEF TypeInv, TypeOK, PointerHeld
<1>2. CASE \E p \in Page : Fault(t, p)
  <2>1. PICK p \in Page : Fault(t, p)
    BY <1>2
  <2>2. loc' = [loc EXCEPT ![t] = [loc[t] EXCEPT !.page = p]]
    BY <2>1 DEF Fault
  <2>3. [loc[t] EXCEPT !.page = p] \in Local
    BY <1>0 DEF Local
  <2>4. /\ dyndump' = dyndump /\ jmp' = jmp /\ heap' = heap /\ direct' = direct
        /\ mem' = mem /\ prot' = prot /\ dyn' = dyn /\ Goto(t, "mark")
    BY <2>1 DEF Fault, guest, tables
  <2> QED  BY <1>0, <1>a, <2>2, <2>3, <2>4, TypeFromTables
<1>3. CASE \E c \in Content : Munmap(t, c)
  <2>1. /\ mem' \in [Page -> Content] /\ dyn' \in [Page -> BOOLEAN]
        /\ dyndump' = dyndump /\ jmp' = jmp /\ heap' = heap /\ direct' = direct
        /\ prot' = prot /\ Goto(t, "run") /\ loc' = [loc EXCEPT ![t] = Idle]
    BY <1>0, <1>3 DEF Munmap, Leave, tables
  <2> QED  BY <1>0, <1>a, <2>1, IdleType, TypeFromTables
<1> QED  BY <1>1, <1>2, <1>3

(* Every step keeps the type invariant.                                    *)
LEMMA TypeStep == TypeInv /\ [Next]_vars => TypeInv'
<1> SUFFICES ASSUME TypeInv, [Next]_vars PROVE TypeInv'
  OBVIOUS
<1>1. CASE UNCHANGED vars
  BY <1>1 DEF vars, TypeInv, TypeOK, PointerHeld
<1>2. CASE Next
  <2>1. PICK t \in Thread : Guest(t) \/ DBGetBlock(t) \/ Handler(t) \/ Purge(t)
    BY <1>2 DEF Next
  <2> QED  BY <2>1, TypeLight, TypeLocal, TypeFill, TypeFree, TypeGuest
           DEF Guest, DBGetBlock, Fill, Handler, Purge
<1> QED  BY <1>1, <1>2

(* Whatever the threads do, every variable of the block tables keeps its   *)
(* type: in particular no NULL block is ever dereferenced as a father, a   *)
(* son or an entry of the list FreeRangeDynablock purges.                  *)
THEOREM TypeCorrect == Spec => []TypeOK
<1>1. TypeInv => TypeOK
  BY DEF TypeInv
<1> QED  BY <1>1, TypeInit, TypeStep, PTL DEF Spec

-----------------------------------------------------------------------------
(* The discipline of mutex_dyndump.  LockDiscipline alone is not           *)
(* inductive: AddNewDynablock's "a block appeared" branch unlocks, which   *)
(* would take the lock from a DBGetBlock that called with the lock held;   *)
(* NestedAddFindsEmpty rules that out, and holds because only the owner of *)
(* the lock stores a block in direct.                                      *)
LockInv == LockDiscipline /\ NestedAddFindsEmpty

(* The labels under the lock, whatever need_lock was.                      *)
Inside == {"fill", "pass0", "translate", "recheck", "filled", "fail",
           "validate", "same", "again", "unlock"}
(* The labels without the lock, whatever need_lock was.                    *)
Outside == Label \ (Inside \cup {"add", "drop", "publish"})

(* A step of t leaves the other threads where they are.                    *)
OnlyMoves(t) == \A u \in Thread \ {t} : pc'[u] = pc[u] /\ loc'[u] = loc[u]

(* direct only loses entries, or t is the one that may add to it.          *)
DirectStep(t) ==
  \/ \A a \in Addr : direct'[a] \in {direct[a], NoBlock}
  \/ dyndump \in {NoThread, t}

(* What a step of t has to respect to keep LockInv.                        *)
LEMMA LockKept ==
  ASSUME TypeInv, LockInv, NEW t \in Thread, OnlyMoves(t), DirectStep(t),
         \A u \in Thread \ {t} : dyndump' = u <=> dyndump = u,
         dyndump' = t <=> Holding(t)',
         pc'[t] = "add" /\ loc'[t].held => direct'[loc'[t].req] = NoBlock
  PROVE  LockInv'
<1>1. ASSUME NEW u \in Thread PROVE (dyndump' = u) <=> Holding(u)'
  BY <1>1 DEF LockInv, LockDiscipline, OnlyMoves, Holding
<1>2. ASSUME NEW u \in Thread, pc'[u] = "add", loc'[u].held
      PROVE  direct'[loc'[u].req] = NoBlock
  <2>1. CASE u = t
    BY <1>2, <2>1
  <2>2. CASE u # t
    <3>1. pc[u] = "add" /\ loc[u].held /\ loc'[u] = loc[u]
      BY <1>2, <2>2 DEF OnlyMoves
    <3>2. direct[loc[u].req] = NoBlock
      BY <3>1 DEF LockInv, NestedAddFindsEmpty
    <3>3. dyndump = u
      BY <3>1 DEF LockInv, LockDiscipline, Holding
    <3>4. dyndump \notin {NoThread, t}
      BY <3>3, <2>2, DynablockAssumption
    <3>5. loc[u].req \in Addr
      BY DEF TypeInv, TypeOK, Local
    <3> QED  BY <3>1, <3>2, <3>4, <3>5 DEF DirectStep
  <2> QED  BY <2>1, <2>2
<1>3. LockDiscipline'
  BY <1>1 DEF LockDiscipline
<1>4. NestedAddFindsEmpty'
  BY <1>2 DEF NestedAddFindsEmpty
<1> QED  BY <1>3, <1>4 DEF LockInv

(* Steps inside the critical section.                                      *)
LEMMA LockInside ==
  ASSUME TypeInv, LockInv, NEW t \in Thread,
         \/ FillHot(t) \/ FillNoDynarec(t) \/ FillProtect(t) \/ FillNull(t)
         \/ FillWritten(t) \/ FillHash(t) \/ FillNoMemory(t) \/ FillTranslate(t)
         \/ FillChanged(t) \/ FillFinish(t)
         \/ ValidateHot(t) \/ ValidateSame(t) \/ Revalidate(t) \/ ValidateChanged(t)
  PROVE  LockInv'
<1>1. pc[t] \in Inside /\ dyndump' = dyndump
  BY DEF FillHot, FillNoDynarec, FillProtect, FillNull, FillWritten, FillHash,
         FillNoMemory, FillTranslate, FillChanged, FillFinish, ValidateHot,
         ValidateSame, Revalidate, ValidateChanged, Inside
<1>2. \E l \in Inside : Goto(t, l)
  BY DEF FillHot, FillNoDynarec, FillProtect, FillNull, FillWritten, FillHash,
         FillNoMemory, FillTranslate, FillChanged, FillFinish, ValidateHot,
         ValidateSame, Revalidate, ValidateChanged, Inside
<1>3. \A u \in Thread \ {t} : loc'[u] = loc[u]
  BY DEF FillHot, FillNoDynarec, FillProtect, FillNull, FillWritten, FillHash,
         FillNoMemory, FillTranslate, FillChanged, FillFinish, ValidateHot,
         ValidateSame, Revalidate, ValidateChanged, TypeInv, TypeOK
<1>4. pc'[t] \in Inside /\ \A u \in Thread \ {t} : pc'[u] = pc[u]
  BY <1>2 DEF Goto, TypeInv, TypeOK
<1>5. dyndump = t
  BY <1>1 DEF LockInv, LockDiscipline, Holding, Inside
<1>6. Holding(t)'
  BY <1>4 DEF Holding, Inside
<1>7. pc'[t] # "add"
  BY <1>4 DEF Inside
<1> QED  BY <1>1, <1>3, <1>4, <1>5, <1>6, <1>7, LockKept DEF OnlyMoves, DirectStep

(* Steps outside the critical section.                                     *)
LEMMA LockOutside ==
  ASSUME TypeInv, LockInv, NEW t \in Thread,
         \/ Return(t) \/ Test(t) \/ Mark(t) \/ Unprotect(t)
         \/ \E p \in Page, c \in Content : Write(t, p, c)
         \/ \E p \in Page : Fault(t, p)
         \/ \E p \in Unmapped : FreeRange(t, p)
         \/ \E b \in Block : FreeDynablock(t, b)
         \/ FreeLocked(t)
         \/ \E c \in Content : Munmap(t, c)
  PROVE  LockInv'
<1>1. pc[t] \in Outside /\ dyndump' = dyndump
  BY DEF Return, Test, Mark, Unprotect, Write, Fault, FreeRange, FreeDynablock,
         FreeLocked, Munmap, Inside, Outside, Label
<1>2. UNCHANGED pc \/ \E l \in Outside : Goto(t, l)
  BY DEF Return, Test, Mark, Unprotect, Write, Fault, FreeRange, FreeDynablock,
         FreeLocked, Munmap, Leave, Inside, Outside, Label
<1>3. \A u \in Thread \ {t} : loc'[u] = loc[u]
  BY DEF Return, Test, Mark, Unprotect, Write, Fault, FreeRange, FreeDynablock,
         FreeLocked, Munmap, Leave, TypeInv, TypeOK
<1>4. pc'[t] \in Outside /\ \A u \in Thread \ {t} : pc'[u] = pc[u]
  BY <1>1, <1>2 DEF Goto, TypeInv, TypeOK
<1>5. dyndump # t
  BY <1>1 DEF LockInv, LockDiscipline, Holding, Inside, Outside
<1>6. ~Holding(t)' /\ pc'[t] # "add"
  BY <1>4 DEF Holding, Inside, Outside
<1>7. DirectStep(t)
  BY DEF Return, Test, Mark, Unprotect, Write, Fault, FreeRange, FreeDynablock,
         FreeLocked, Munmap, tables, DirectStep
<1> QED  BY <1>1, <1>3, <1>4, <1>5, <1>6, <1>7, LockKept DEF OnlyMoves

(* Steps at the borders of the critical section.                           *)
LEMMA LockBorder ==
  ASSUME TypeInv, LockInv, NEW t \in Thread,
         \/ \E a \in Entry : Get(t, a)
         \/ AddNew(t) \/ AddFound(t) \/ AddAppeared(t) \/ FillSegv(t) \/ CancelFill(t) \/ UnlockFilled(t)
         \/ Drop(t) \/ Publish(t) \/ TryLock(t) \/ Again(t) \/ UnlockReturn(t)
  PROVE  LockInv'
<1>0. /\ pc \in [Thread -> Label] /\ loc \in [Thread -> Local] /\ direct \in [Addr -> Ptr]
      /\ loc[t] \in Local /\ loc[t].req \in Addr /\ loc[t].held \in BOOLEAN /\ NoThread # t
  BY DynablockAssumption DEF TypeInv, TypeOK, Local
<1>a. (dyndump = t) <=> Holding(t)
  BY DEF LockInv, LockDiscipline
<1>b. \A u \in Thread : u # NoThread
  BY DynablockAssumption
<1>1. CASE \E a \in Entry : Get(t, a)
  <2>1. PICK a \in Entry : Get(t, a)
    BY <1>1
  <2>2. /\ pc[t] = "run" /\ pc'[t] \in {"check", "add"} /\ OnlyMoves(t)
        /\ dyndump' = dyndump /\ direct' = direct
    BY <1>0, <2>1 DEF Get, Goto, OnlyMoves, tables
  <2>3. loc'[t].held = FALSE
    <3>1. loc'[t] = [Idle EXCEPT !.req = a, !.cur = direct[a]]
      BY <1>0, <2>1 DEF Get
    <3> QED  BY <3>1 DEF Idle
  <2>4. ~Holding(t) /\ ~Holding(t)'
    BY <2>2, <2>3 DEF Holding
  <2> QED  BY <1>a, <2>2, <2>3, <2>4, LockKept DEF DirectStep
<1>2. CASE AddNew(t)
  <2>1. /\ pc'[t] = "fill" /\ OnlyMoves(t) /\ dyndump \in {NoThread, t} /\ dyndump' = t
    BY <1>0, <1>2 DEF AddNew, Lock, Goto, OnlyMoves
  <2>2. Holding(t)'
    BY <2>1 DEF Holding
  <2> QED  BY <1>b, <2>1, <2>2, LockKept DEF DirectStep
<1>x. CASE AddFound(t)
  <2>1. ~loc[t].held
    BY <1>x DEF AddFound, LockInv, NestedAddFindsEmpty
  <2>2. ~Holding(t)
    BY <1>x, <2>1 DEF AddFound, Holding
  <2>3. pc'[t] = "check" /\ OnlyMoves(t) /\ dyndump' = dyndump /\ direct' = direct
    BY <1>0, <1>x, <2>1 DEF AddFound, Goto, OnlyMoves, tables
  <2>4. ~Holding(t)'
    BY <2>3 DEF Holding
  <2> QED  BY <1>a, <1>b, <2>2, <2>3, <2>4, LockKept DEF DirectStep
<1>3. CASE AddAppeared(t)
  <2>1. ~loc[t].held
    BY <1>3 DEF AddAppeared, LockInv, NestedAddFindsEmpty
  <2>2. ~Holding(t)
    BY <1>3, <2>1 DEF AddAppeared, Holding
  <2>3. /\ pc'[t] = "check" /\ OnlyMoves(t) /\ dyndump = NoThread /\ dyndump' = NoThread
    BY <1>0, <1>a, <1>3, <2>1, <2>2 DEF AddAppeared, Goto, OnlyMoves
  <2>4. ~Holding(t)'
    BY <2>3 DEF Holding
  <2> QED  BY <1>b, <2>3, <2>4, LockKept DEF DirectStep
<1>4. CASE FillSegv(t)
  <2>1. dyndump = t
    BY <1>a, <1>4 DEF FillSegv, Holding
  <2>2. /\ pc'[t] = "segv" /\ OnlyMoves(t) /\ dyndump' = NoThread
    BY <1>0, <1>4, <2>1 DEF FillSegv, Unlock, Goto, OnlyMoves
  <2>3. ~Holding(t)'
    BY <2>2 DEF Holding
  <2> QED  BY <1>b, <2>1, <2>2, <2>3, LockKept DEF DirectStep
<1>5. CASE CancelFill(t)
  <2>1. pc[t] = "segv" /\ ~Holding(t)
    BY <1>5 DEF CancelFill, Holding
  <2>2. dyndump = NoThread
    BY <1>a, <1>5, <2>1 DEF CancelFill
  <2>3. OnlyMoves(t) /\ pc'[t] \in {"unlock", "run"} /\ (pc'[t] = "unlock" <=> loc[t].held)
    BY <1>0, <1>5 DEF CancelFill, Leave, Goto, OnlyMoves
  <2>4. dyndump' = IF loc[t].held THEN t ELSE NoThread
    BY <1>5 DEF CancelFill
  <2>5. Holding(t)' <=> pc'[t] = "unlock"
    BY <2>3 DEF Holding
  <2> QED  BY <1>b, <2>2, <2>3, <2>4, <2>5, LockKept DEF DirectStep
<1>6. CASE UnlockFilled(t)
  <2>1. dyndump = t
    BY <1>a, <1>6 DEF UnlockFilled, Holding
  <2>2. OnlyMoves(t) /\ pc'[t] \in {"publish", "drop"}
    BY <1>0, <1>6 DEF UnlockFilled, Goto, OnlyMoves
  <2>3. dyndump' = IF loc[t].held THEN t ELSE NoThread
    BY <1>6, <2>1 DEF UnlockFilled, Unlock
  <2>4. loc'[t].held = loc[t].held
    BY <1>0, <1>6 DEF UnlockFilled, Local
  <2>5. Holding(t)' <=> loc[t].held
    BY <2>2, <2>4 DEF Holding
  <2> QED  BY <1>b, <2>1, <2>2, <2>3, <2>5, LockKept DEF DirectStep
<1>7. CASE Drop(t) \/ Publish(t)
  <2>1. dyndump' = dyndump /\ OnlyMoves(t) /\ pc[t] \in {"drop", "publish"}
    BY <1>0, <1>7 DEF Drop, Publish, Leave, Goto, OnlyMoves
  <2>2. pc'[t] \in {"unlock", "run", "check"} /\ (pc'[t] = "unlock" <=> loc[t].held)
    BY <1>0, <1>7 DEF Drop, Publish, Leave, Goto
  <2>3. Holding(t) <=> loc[t].held
    BY <2>1 DEF Holding
  <2>4. Holding(t)' <=> loc[t].held
    BY <2>2 DEF Holding
  <2>5. \A a \in Addr : direct'[a] \in {direct[a], NoBlock}
    BY <1>0, <1>7 DEF Drop, Publish
  <2> QED  BY <1>a, <2>1, <2>2, <2>3, <2>4, <2>5, LockKept DEF DirectStep
<1>8. CASE TryLock(t)
  <2>1. ~Holding(t)
    BY <1>8 DEF TryLock, Holding
  <2>2. OnlyMoves(t) /\ direct' = direct
    BY <1>0, <1>8 DEF TryLock, Leave, Goto, OnlyMoves, tables
  <2>3. CASE dyndump = NoThread
    <3>1. dyndump' = t /\ pc'[t] = "validate"
      BY <1>0, <1>8, <2>3 DEF TryLock, Goto
    <3>2. Holding(t)'
      BY <3>1 DEF Holding
    <3> QED  BY <1>b, <2>2, <2>3, <3>1, <3>2, LockKept DEF DirectStep
  <2>4. CASE dyndump # NoThread
    <3>1. dyndump' = dyndump /\ pc'[t] = "run"
      BY <1>0, <1>8, <2>4 DEF TryLock, Leave, Goto
    <3>2. ~Holding(t)'
      BY <3>1 DEF Holding
    <3> QED  BY <1>a, <2>1, <2>2, <3>1, <3>2, LockKept DEF DirectStep
  <2> QED  BY <2>3, <2>4
<1>9. CASE Again(t)
  <2>1. dyndump = t /\ dyndump' = t
    BY <1>a, <1>9 DEF Again, Holding
  <2>2. OnlyMoves(t) /\ direct' = direct /\ pc'[t] \in {"unlock", "add"}
    BY <1>0, <1>9 DEF Again, Goto, OnlyMoves, tables
  <2>3. loc'[t].held /\ loc'[t].req = loc[t].req
    BY <1>0, <1>9 DEF Again, Local
  <2>4. Holding(t)'
    BY <2>2, <2>3 DEF Holding
  <2>5. pc'[t] = "add" => direct[loc[t].req] = NoBlock
    BY <1>0, <1>9 DEF Again, Goto
  <2> QED  BY <2>1, <2>2, <2>3, <2>4, <2>5, LockKept DEF DirectStep
<1>10. CASE UnlockReturn(t)
  <2>1. dyndump = t
    BY <1>a, <1>10 DEF UnlockReturn, Holding
  <2>2. OnlyMoves(t) /\ pc'[t] = "run" /\ dyndump' = NoThread
    BY <1>0, <1>10, <2>1 DEF UnlockReturn, Unlock, Leave, Goto, OnlyMoves
  <2>3. ~Holding(t)'
    BY <2>2 DEF Holding
  <2> QED  BY <1>b, <2>1, <2>2, <2>3, LockKept DEF DirectStep
<1> QED  BY <1>1, <1>2, <1>x, <1>3, <1>4, <1>5, <1>6, <1>7, <1>8, <1>9, <1>10

(* Nobody owns the lock at the start, and nobody assumes it.               *)
LEMMA LockInit == Init => LockInv
<1> SUFFICES ASSUME Init PROVE LockInv
  OBVIOUS
<1>1. ASSUME NEW t \in Thread PROVE pc[t] = "run" /\ dyndump # t
  BY DynablockAssumption DEF Init
<1> QED  BY <1>1 DEF LockInv, LockDiscipline, NestedAddFindsEmpty, Holding

(* Every step keeps the lock invariant.                                    *)
LEMMA LockStep == TypeInv /\ LockInv /\ [Next]_vars => LockInv'
<1> SUFFICES ASSUME TypeInv, LockInv, [Next]_vars PROVE LockInv'
  OBVIOUS
<1>1. CASE UNCHANGED vars
  BY <1>1 DEF vars, LockInv, LockDiscipline, NestedAddFindsEmpty, Holding
<1>2. CASE Next
  <2>1. PICK t \in Thread : Guest(t) \/ DBGetBlock(t) \/ Handler(t) \/ Purge(t)
    BY <1>2 DEF Next
  <2> QED  BY <2>1, LockInside, LockOutside, LockBorder
           DEF Guest, DBGetBlock, Fill, Handler, Purge
<1> QED  BY <1>1, <1>2

(* Any number of threads: mutex_dyndump is held exactly inside the         *)
(* critical section of DBGetBlock and internalDBGetBlock, on every path,   *)
(* the cancelled fills included.                                           *)
THEOREM LockDisciplineAlways == Spec => []LockDiscipline
<1>1. LockInv => LockDiscipline
  BY DEF LockInv
<1> QED  BY <1>1, TypeInit, TypeStep, LockInit, LockStep, PTL DEF Spec

(* Any number of threads: a block never appears under an AddNewDynablock   *)
(* that runs with the lock already held.                                   *)
THEOREM NestedAddAlwaysFindsEmpty == Spec => []NestedAddFindsEmpty
<1>1. LockInv => NestedAddFindsEmpty
  BY DEF LockInv
<1> QED  BY <1>1, TypeInit, TypeStep, LockInit, LockStep, PTL DEF Spec

(* Two threads are never both filling or validating blocks.                *)
THEOREM MutualExclusion ==
  Spec => [](\A t, u \in Thread : Holding(t) /\ Holding(u) => t = u)
<1>1. LockInv => \A t, u \in Thread : Holding(t) /\ Holding(u) => t = u
  BY DEF LockInv, LockDiscipline
<1> QED  BY <1>1, TypeInit, TypeStep, LockInit, LockStep, PTL DEF Spec

-----------------------------------------------------------------------------
(***************************************************************************)
(* For a program with one thread, and any sets of addresses, pages,        *)
(* contents and cells: the tables never lead to a freed block              *)
(* (DirectAlive), the jump table never to one that needs a test            *)
(* (JumpTableClean), and what runs without a test was translated from what *)
(* memory holds (CleanMatchesMemory, UnprotectedAllMarked).  With two      *)
(* threads all four fail (README, section 5).                              *)
(***************************************************************************)
(* A block that nobody fathered: what is marked, validated and freed.      *)
Root(b) == heap[b].live /\ heap[b].father = NoBlock

(* Fathers and sons are alive together and point to each other.            *)
Tree ==
  \A b \in Block : heap[b].live =>
    /\ ~heap[b].gone
    /\ heap[b].sized <=> heap[b].native
    /\ \A s \in heap[b].sons : heap[s].live /\ heap[s].father = b
    /\ heap[b].father # NoBlock =>
         /\ heap[b].native
         /\ Root(heap[b].father)
         /\ heap[heap[b].father].native
         /\ b \in heap[heap[b].father].sons

(* No two live blocks start at the same address.                           *)
Unique ==
  \A b, c \in Block : heap[b].live /\ heap[c].live /\ heap[b].addr = heap[c].addr => b = c

(* An entry of direct is a live block at its address ...                   *)
DirectOK ==
  \A a \in Addr : direct[a] # NoBlock => heap[direct[a]].live /\ heap[direct[a]].addr = a

(* ... and one of the jump table is clean as well.                         *)
JumpOK ==
  \A a \in Addr : jmp[a] # NoBlock =>
    heap[jmp[a]].live /\ heap[jmp[a]].addr = a /\ Clean(jmp[a])

(* The fathers that munmap still has to free, in a call at label l with    *)
(* the block pointer c and the list T.                                     *)
DoomedAt(l, c, T) == T \cup (IF l = "free" THEN {c} ELSE {})
Doomed(t) == DoomedAt(pc[t], loc[t].cur, loc[t].todo)

(* No block is lost: it is in direct, or munmap is about to free it.       *)
Registered(t) ==
  \A b \in Block : heap[b].live => direct[heap[b].addr] = b \/ Father(b) \in Doomed(t)

(* What holds of the blocks that a call works on: at label l, for address  *)
(* a, with the block pointer c and the list T of munmap.                   *)
CallAt(l, a, c, T) ==
  /\ l \notin {"purge", "free"} => T = {}
  /\ \A b \in T : Root(b)
  /\ l \in {"fill", "pass0", "segv", "translate", "recheck", "fail", "drop", "filled", "publish"}
       => Root(c) /\ heap[c].addr = a
  /\ l \in {"fill", "pass0", "segv", "translate", "recheck"}
       => ~heap[c].native /\ ~heap[c].done
  /\ l \in {"fail", "drop"} => heap[c].sons = {} /\ ~heap[c].done
  /\ l \in {"filled", "publish"} /\ heap[c].native => ~heap[c].need_test
  /\ l = "check" => heap[c].live
  /\ l \in {"try", "validate", "same"} => Root(c) /\ heap[c].native /\ heap[c].done
  /\ l = "free" => Root(c) /\ c \notin T

CallOK(t) == CallAt(pc[t], loc[t].req, loc[t].cur, loc[t].todo)

BlockInv(t) == Tree /\ Unique /\ DirectOK /\ JumpOK /\ Registered(t) /\ CallOK(t)

-----------------------------------------------------------------------------
(* The types of what a single thread works with.                           *)
LEMMA SoloTypes ==
  ASSUME NEW CONSTANT t, Thread = {t}, TypeInv
  PROVE  /\ t \in Thread
         /\ pc \in [Thread -> Label] /\ loc \in [Thread -> Local]
         /\ loc[t] \in Local /\ loc[t].req \in Addr /\ loc[t].page \in Page
         /\ loc[t].cur \in Ptr /\ loc[t].todo \subseteq Block /\ loc[t].held \in BOOLEAN
         /\ heap \in [Block -> Cell] /\ direct \in [Addr -> Ptr] /\ jmp \in [Addr -> Ptr]
         /\ mem \in [Page -> Content] /\ dyn \in [Page -> BOOLEAN]
         /\ NoBlock \notin Block
<1>1. /\ pc \in [Thread -> Label] /\ loc \in [Thread -> Local]
      /\ heap \in [Block -> Cell] /\ direct \in [Addr -> Ptr] /\ jmp \in [Addr -> Ptr]
      /\ mem \in [Page -> Content] /\ dyn \in [Page -> BOOLEAN]
  BY DEF TypeInv, TypeOK
<1>2. loc[t] \in Local
  BY <1>1
<1> QED  BY <1>1, <1>2, DynablockAssumption DEF Local

(* The types of the fields of a cell.                                      *)
LEMMA CellTypes ==
  ASSUME heap \in [Block -> Cell], NEW b \in Block
  PROVE  /\ heap[b] \in Cell /\ heap[b].addr \in Addr /\ heap[b].father \in Ptr
         /\ heap[b].sons \subseteq Block /\ Father(b) \in Block
<1>1. heap[b] \in Cell
  OBVIOUS
<1> QED  BY <1>1, FamilyType DEF Cell

(* The fields of a new cell.                                               *)
LEMMA NewFields ==
  ASSUME NEW a
  PROVE  /\ NewCell(a).live /\ NewCell(a).addr = a /\ ~NewCell(a).native /\ ~NewCell(a).sized
         /\ ~NewCell(a).need_test /\ ~NewCell(a).done /\ ~NewCell(a).gone
         /\ NewCell(a).father = NoBlock /\ NewCell(a).sons = {}
  BY DEF NewCell

(* A cell that malloc owns is not alive.                                   *)
LEMMA DeadFields == ~DeadCell.live
<1>1. DeadCell \in Cell
  BY DeadCellType
<1> QED  BY DEF DeadCell, NewCell

(* The father of a live block is a live root, which has it in its family.  *)
LEMMA FatherRoot ==
  ASSUME heap \in [Block -> Cell], NoBlock \notin Block, Tree, NEW b \in Block, heap[b].live
  PROVE  /\ Father(b) \in Block /\ Root(Father(b)) /\ Father(Father(b)) = Father(b)
         /\ b \in Family(Father(b))
         /\ heap[b].native => heap[Father(b)].native
         /\ Father(b) # b => b \in heap[Father(b)].sons
<1>1. Father(b) \in Block
  BY CellTypes
<1>2. CASE heap[b].father = NoBlock
  BY <1>1, <1>2 DEF Father, Family, Root
<1>3. CASE heap[b].father # NoBlock
  BY <1>1, <1>3 DEF Father, Family, Root, Tree
<1> QED  BY <1>2, <1>3

(* The family of a root are the live blocks it is the father of.           *)
LEMMA FamilyOf ==
  ASSUME heap \in [Block -> Cell], NoBlock \notin Block, Tree, NEW b \in Block, Root(b)
  PROVE  \A x \in Block : x \in Family(b) <=> heap[x].live /\ Father(x) = b
<1>1. ASSUME NEW x \in Block, x \in Family(b)
      PROVE  heap[x].live /\ Father(x) = b
  BY <1>1 DEF Family, Father, Root, Tree
<1>2. ASSUME NEW x \in Block, heap[x].live, Father(x) = b
      PROVE  x \in Family(b)
  BY <1>2, FatherRoot
<1> QED  BY <1>1, <1>2

(* The tables are left alone.                                              *)
LEMMA QuietKeeps ==
  ASSUME NEW CONSTANT t, BlockInv(t), UNCHANGED tables,
         CallAt(pc'[t], loc'[t].req, loc'[t].cur, loc'[t].todo),
         DoomedAt(pc'[t], loc'[t].cur, loc'[t].todo) = Doomed(t)
  PROVE  BlockInv(t)'
<1>1. heap' = heap /\ direct' = direct /\ jmp' = jmp
  BY DEF tables
<1>2. Tree' /\ Unique' /\ DirectOK' /\ JumpOK'
  BY <1>1 DEF BlockInv, Tree, Root, Unique, DirectOK, JumpOK, Clean, Father
<1>3. CallOK(t)'
  BY <1>1 DEF CallOK, CallAt, Root
<1>4. Doomed(t)' = Doomed(t)
  BY DEF Doomed
<1>5. Registered(t)'
  BY <1>1, <1>4 DEF BlockInv, Registered, Father
<1> QED  BY <1>2, <1>3, <1>5 DEF BlockInv

(* Steps that only move the call along, and the program's own stores.      *)
LEMMA SoloMove ==
  ASSUME NEW CONSTANT t, Thread = {t}, TypeInv, BlockInv(t),
         \/ FillHot(t) \/ FillProtect(t) \/ FillNull(t) \/ FillSegv(t) \/ FillWritten(t)
         \/ FillHash(t) \/ FillNoMemory(t) \/ UnlockFilled(t)
         \/ ValidateHot(t) \/ ValidateSame(t)
  PROVE  BlockInv(t)'
<1>0. /\ pc \in [Thread -> Label] /\ loc \in [Thread -> Local] /\ t \in Thread /\ loc[t] \in Local
      /\ heap \in [Block -> Cell] /\ NoBlock \notin Block /\ loc[t].cur \in Ptr
  BY SoloTypes
<1>1. UNCHANGED tables
  BY DEF FillHot, FillProtect, FillNull, FillSegv, FillWritten, FillHash, FillNoMemory,
         UnlockFilled, ValidateHot, ValidateSame, tables
<1>2. loc'[t].req = loc[t].req /\ loc'[t].cur = loc[t].cur /\ loc'[t].todo = loc[t].todo
  <2>1. CASE FillHash(t)
    <3>1. loc'[t] = [loc[t] EXCEPT !.hash = CodeAt(loc[t].req)]
      BY <1>0, <2>1 DEF FillHash
    <3> QED  BY <1>0, <3>1 DEF Local
  <2>2. CASE UnlockFilled(t)
    <3>1. loc'[t] = [loc[t] EXCEPT !.hash = Code0]
      BY <1>0, <2>2 DEF UnlockFilled
    <3> QED  BY <1>0, <3>1 DEF Local
  <2>3. CASE UNCHANGED loc
    BY <2>3
  <2> QED  BY <2>1, <2>2, <2>3 DEF FillHot, FillProtect, FillNull, FillSegv, FillWritten,
              FillNoMemory, ValidateHot, ValidateSame
<1>3. CallAt(pc[t], loc[t].req, loc[t].cur, loc[t].todo)
  BY DEF BlockInv, CallOK
<1>4. \/ pc[t] = "fill" /\ pc'[t] \in {"fail", "pass0"}
      \/ pc[t] = "pass0" /\ pc'[t] \in {"filled", "segv", "fail", "translate"}
      \/ pc[t] = "translate" /\ pc'[t] = "fail"
      \/ pc[t] = "filled" /\ pc'[t] = "publish"
      \/ pc[t] = "fail" /\ pc'[t] = "drop"
      \/ pc[t] = "validate" /\ pc'[t] \in {"unlock", "same"}
  BY <1>0 DEF FillHot, FillProtect, FillNull, FillSegv, FillWritten, FillHash, FillNoMemory,
              UnlockFilled, ValidateHot, ValidateSame, Goto
<1>5. ASSUME pc[t] \in {"fill", "pass0", "translate"}
      PROVE  heap[loc[t].cur].sons = {}
  <2>1. Root(loc[t].cur) /\ ~heap[loc[t].cur].native /\ loc[t].cur \in Block
    BY <1>0, <1>3, <1>5 DEF CallAt, TypeInv, PointerHeld
  <2>2. heap[loc[t].cur].sons \subseteq Block
    BY <1>0, <2>1, CellTypes
  <2>3. \A s \in heap[loc[t].cur].sons : heap[s].live /\ heap[s].father = loc[t].cur
    BY <2>1 DEF BlockInv, Tree, Root
  <2>4. \A s \in heap[loc[t].cur].sons : heap[loc[t].cur].native
    BY <1>0, <2>1, <2>2, <2>3 DEF BlockInv, Tree
  <2> QED  BY <2>1, <2>4
<1>6. CallAt(pc'[t], loc[t].req, loc[t].cur, loc[t].todo)
  BY <1>3, <1>4, <1>5 DEF CallAt
<1>7. DoomedAt(pc'[t], loc'[t].cur, loc'[t].todo) = Doomed(t)
  BY <1>2, <1>4 DEF DoomedAt, Doomed
<1> QED  BY <1>1, <1>2, <1>6, <1>7, QuietKeeps

(* The start of a call, and its end.                                       *)
LEMMA SoloLeave ==
  ASSUME NEW CONSTANT t, Thread = {t}, TypeInv, BlockInv(t), UNCHANGED tables,
         Doomed(t) = {},
         \/ Leave(t)
         \/ UNCHANGED loc /\ loc[t].todo = {} /\ (Goto(t, "unlock") \/ UNCHANGED pc)
  PROVE  BlockInv(t)'
<1>0. /\ pc \in [Thread -> Label] /\ loc \in [Thread -> Local] /\ t \in Thread
  BY SoloTypes
<1>1. CASE Leave(t)
  <2>1. pc'[t] = "run" /\ loc'[t] = Idle
    BY <1>0, <1>1 DEF Leave, Goto
  <2>2. Idle.todo = {}
    BY DEF Idle
  <2>3. CallAt(pc'[t], loc'[t].req, loc'[t].cur, loc'[t].todo)
    BY <2>1, <2>2 DEF CallAt
  <2>4. DoomedAt(pc'[t], loc'[t].cur, loc'[t].todo) = {}
    BY <2>1, <2>2 DEF DoomedAt
  <2> QED  BY <2>3, <2>4, QuietKeeps
<1>2. CASE UNCHANGED loc /\ loc[t].todo = {} /\ Goto(t, "unlock")
  <2>1. pc'[t] = "unlock"
    BY <1>0, <1>2 DEF Goto
  <2>3. CallAt(pc'[t], loc'[t].req, loc'[t].cur, loc'[t].todo)
    BY <1>2, <2>1 DEF CallAt
  <2>4. DoomedAt(pc'[t], loc'[t].cur, loc'[t].todo) = {}
    BY <1>2, <2>1 DEF DoomedAt
  <2> QED  BY <2>3, <2>4, QuietKeeps
<1>3. CASE UNCHANGED loc /\ UNCHANGED pc
  <2>1. CallAt(pc'[t], loc'[t].req, loc'[t].cur, loc'[t].todo)
    BY <1>3 DEF BlockInv, CallOK
  <2>2. DoomedAt(pc'[t], loc'[t].cur, loc'[t].todo) = {}
    BY <1>3 DEF Doomed
  <2> QED  BY <2>1, <2>2, QuietKeeps
<1> QED  BY <1>1, <1>2, <1>3

(* Outside munmap no block is doomed.                                      *)
LEMMA NoneDoomed ==
  ASSUME NEW CONSTANT t, BlockInv(t), pc[t] \notin {"purge", "free"}
  PROVE  loc[t].todo = {} /\ Doomed(t) = {}
  BY DEF BlockInv, CallOK, CallAt, Doomed, DoomedAt

(* Steps that start or end a call, and the program's stores.               *)
LEMMA SoloReturn ==
  ASSUME NEW CONSTANT t, Thread = {t}, TypeInv, BlockInv(t),
         \/ CancelFill(t) \/ Return(t) \/ UnlockReturn(t) \/ Unprotect(t)
         \/ \E p \in Page, c \in Content : Write(t, p, c)
         \/ \E c \in Content : Munmap(t, c)
  PROVE  BlockInv(t)'
<1>1. UNCHANGED tables
  BY DEF CancelFill, Return, UnlockReturn, Unprotect, Write, Munmap, tables
<1>2. CASE \E c \in Content : Munmap(t, c)
  <2>1. Doomed(t) = {} /\ Leave(t)
    BY <1>2 DEF Munmap, Doomed, DoomedAt
  <2> QED  BY <1>1, <2>1, SoloLeave
<1>3. CASE \/ CancelFill(t) \/ Return(t) \/ UnlockReturn(t) \/ Unprotect(t)
           \/ \E p \in Page, c \in Content : Write(t, p, c)
  <2>1. pc[t] \notin {"purge", "free"}
    BY <1>3 DEF CancelFill, Return, UnlockReturn, Unprotect, Write
  <2>2. loc[t].todo = {} /\ Doomed(t) = {}
    BY <2>1, NoneDoomed
  <2>3. \/ Leave(t)
        \/ UNCHANGED loc /\ (Goto(t, "unlock") \/ UNCHANGED pc)
    BY <1>3 DEF CancelFill, Return, UnlockReturn, Unprotect, Write
  <2> QED  BY <1>1, <2>2, <2>3, SoloLeave
<1> QED  BY <1>2, <1>3

(* Steps that choose the block a call works on.                            *)
LEMMA SoloChoose ==
  ASSUME NEW CONSTANT t, Thread = {t}, TypeInv, BlockInv(t),
         \/ \E a \in Entry : Get(t, a)
         \/ \E p \in Page : Fault(t, p)
         \/ AddFound(t) \/ AddAppeared(t) \/ Test(t) \/ TryLock(t) \/ Again(t)
  PROVE  BlockInv(t)'
<1>0. /\ pc \in [Thread -> Label] /\ loc \in [Thread -> Local] /\ t \in Thread /\ loc[t] \in Local
      /\ heap \in [Block -> Cell] /\ direct \in [Addr -> Ptr] /\ NoBlock \notin Block
      /\ loc[t].cur \in Ptr /\ loc[t].req \in Addr
  BY SoloTypes
<1>1. UNCHANGED tables
  BY DEF Get, Fault, AddFound, AddAppeared, Test, TryLock, Again, tables
<1>2. pc[t] \in {"run", "add", "check", "try", "again"}
  BY DEF Get, Fault, AddFound, AddAppeared, Test, TryLock, Again
<1>3. loc[t].todo = {} /\ Doomed(t) = {}
  BY <1>2, NoneDoomed
<1>4. CallAt(pc[t], loc[t].req, loc[t].cur, loc[t].todo)
  BY DEF BlockInv, CallOK
<1>5. CASE TryLock(t)
  <2>1. CASE Leave(t)
    BY <1>1, <1>3, <2>1, SoloLeave
  <2>2. CASE Goto(t, "validate") /\ UNCHANGED loc
    <3>1. pc[t] = "try" /\ pc'[t] = "validate" /\ loc' = loc
      BY <1>0, <1>5, <2>2 DEF TryLock, Goto
    <3>2. CallAt(pc'[t], loc'[t].req, loc'[t].cur, loc'[t].todo)
      BY <1>4, <3>1 DEF CallAt
    <3>3. DoomedAt(pc'[t], loc'[t].cur, loc'[t].todo) = {}
      BY <1>3, <3>1 DEF DoomedAt
    <3> QED  BY <1>1, <1>3, <3>2, <3>3, QuietKeeps
  <2> QED  BY <1>5, <2>1, <2>2 DEF TryLock
<1>6. CASE \/ \E a \in Entry : Get(t, a)
           \/ \E p \in Page : Fault(t, p)
           \/ AddFound(t) \/ AddAppeared(t) \/ Test(t) \/ Again(t)
  <2>1. /\ pc'[t] \in {"check", "add", "mark", "unlock", "try"}
        /\ loc'[t].todo = {}
        /\ pc'[t] = "check" => heap[loc'[t].cur].live
        /\ pc'[t] = "try" => Root(loc'[t].cur) /\ heap[loc'[t].cur].native /\ heap[loc'[t].cur].done
    <3>1. CASE \E a \in Entry : Get(t, a)
      <4>1. PICK a \in Entry : Get(t, a)
        BY <3>1
      <4>2. a \in Addr
        BY DynablockAssumption
      <4>3. loc'[t] = [Idle EXCEPT !.req = a, !.cur = direct[a]]
        BY <1>0, <4>1 DEF Get
      <4>4. loc'[t].cur = direct[a] /\ loc'[t].todo = {}
        BY <4>3 DEF Idle
      <4>5. pc'[t] = IF direct[a] # NoBlock THEN "check" ELSE "add"
        BY <1>0, <4>1 DEF Get, Goto
      <4> QED  BY <4>2, <4>4, <4>5 DEF BlockInv, DirectOK
    <3>2. CASE \E p \in Page : Fault(t, p)
      <4>1. PICK p \in Page : Fault(t, p)
        BY <3>2
      <4>2. loc'[t] = [loc[t] EXCEPT !.page = p] /\ pc'[t] = "mark"
        BY <1>0, <4>1 DEF Fault, Goto
      <4> QED  BY <1>0, <1>3, <4>2 DEF Local
    <3>3. CASE AddFound(t) \/ AddAppeared(t)
      <4>1. /\ loc'[t] = [loc[t] EXCEPT !.cur = direct[loc[t].req]]
            /\ direct[loc[t].req] # NoBlock
            /\ pc'[t] \in {"unlock", "check"}
        BY <1>0, <3>3 DEF AddFound, AddAppeared, Goto
      <4>2. loc'[t].cur = direct[loc[t].req] /\ loc'[t].todo = {}
        BY <1>0, <1>3, <4>1 DEF Local
      <4> QED  BY <1>0, <4>1, <4>2 DEF BlockInv, DirectOK
    <3>4. CASE Test(t)
      <4>1. loc[t].cur \in Block /\ pc[t] = "check" /\ NeedsTest(loc[t].cur)
        BY <3>4 DEF Test, TypeInv, PointerHeld
      <4>2. loc'[t] = [loc[t] EXCEPT !.cur = Father(loc[t].cur)] /\ pc'[t] = "try"
        BY <1>0, <3>4 DEF Test, Goto
      <4>3. loc'[t].cur = Father(loc[t].cur) /\ loc'[t].todo = {}
        BY <1>0, <1>3, <4>2 DEF Local
      <4>4. heap[loc[t].cur].live
        BY <1>4, <4>1 DEF CallAt
      <4>5. Root(Father(loc[t].cur)) /\ heap[Father(loc[t].cur)].native
        BY <1>0, <4>1, <4>4, FatherRoot DEF BlockInv, NeedsTest
      <4> QED  BY <4>1, <4>2, <4>3, <4>5 DEF NeedsTest
    <3>5. CASE Again(t)
      <4>1. /\ loc'[t] = [loc[t] EXCEPT !.held = TRUE, !.cur = direct[loc[t].req]]
            /\ pc'[t] \in {"unlock", "add"}
        BY <1>0, <3>5 DEF Again, Goto
      <4>2. loc'[t].todo = {}
        BY <1>0, <1>3, <4>1 DEF Local
      <4> QED  BY <4>1, <4>2
    <3> QED  BY <1>6, <3>1, <3>2, <3>3, <3>4, <3>5
  <2>2. CallAt(pc'[t], loc'[t].req, loc'[t].cur, loc'[t].todo)
    BY <2>1 DEF CallAt
  <2>3. DoomedAt(pc'[t], loc'[t].cur, loc'[t].todo) = {}
    BY <2>1 DEF DoomedAt
  <2> QED  BY <1>1, <1>3, <2>2, <2>3, QuietKeeps
<1> QED  BY <1>5, <1>6

(* FreeDynablock on a block of munmap's list goes on to free it.           *)
LEMMA SoloFreeDynablock ==
  ASSUME NEW CONSTANT t, Thread = {t}, TypeInv, BlockInv(t),
         NEW b \in Block, FreeDynablock(t, b)
  PROVE  BlockInv(t)'
<1>0. /\ pc \in [Thread -> Label] /\ loc \in [Thread -> Local] /\ t \in Thread /\ loc[t] \in Local
  BY SoloTypes
<1>1. UNCHANGED tables /\ pc[t] = "purge" /\ b \in loc[t].todo
  BY DEF FreeDynablock, tables
<1>2. \A x \in loc[t].todo : Root(x)
  BY DEF BlockInv, CallOK, CallAt
<1>3. ~heap[b].gone
  BY <1>1, <1>2 DEF BlockInv, Tree, Root
<1>4. pc'[t] = "free"
  BY <1>0, <1>3 DEF FreeDynablock, Goto
<1>5. loc'[t] = [loc[t] EXCEPT !.todo = loc[t].todo \ {b}, !.cur = b]
  BY <1>0 DEF FreeDynablock
<1>6. loc'[t].todo = loc[t].todo \ {b} /\ loc'[t].cur = b
  BY <1>0, <1>5 DEF Local
<1>7. CallAt(pc'[t], loc'[t].req, loc'[t].cur, loc'[t].todo)
  BY <1>1, <1>2, <1>4, <1>6 DEF CallAt
<1>8. DoomedAt(pc'[t], loc'[t].cur, loc'[t].todo) = Doomed(t)
  BY <1>1, <1>4, <1>6 DEF DoomedAt, Doomed
<1> QED  BY <1>1, <1>7, <1>8, QuietKeeps

-----------------------------------------------------------------------------
(* Steps that change fields of cells but no cell's place in the tables: a  *)
(* block may become native, done, marked or clean.                         *)
ShapeKept ==
  \A b \in Block :
    /\ heap'[b].live <=> heap[b].live
    /\ heap'[b].gone <=> heap[b].gone
    /\ heap'[b].addr = heap[b].addr
    /\ heap'[b].father = heap[b].father
    /\ heap'[b].sons = heap[b].sons
    /\ heap[b].native => heap'[b].native
    /\ heap[b].live => (heap'[b].sized <=> heap'[b].native)

(* Such steps keep the families and the entries of direct.                 *)
LEMMA ShapeKeeps ==
  ASSUME NEW CONSTANT t, Thread = {t}, TypeInv, BlockInv(t),
         ShapeKept, direct' = direct, Doomed(t)' = Doomed(t)
  PROVE  /\ Tree' /\ Unique' /\ DirectOK' /\ Registered(t)'
         /\ \A b \in Block : Father(b)' = Father(b) /\ (Root(b)' <=> Root(b))
<1>0. heap \in [Block -> Cell] /\ direct \in [Addr -> Ptr] /\ NoBlock \notin Block
  BY SoloTypes
<1>1. \A b \in Block : heap[b].father \in Ptr /\ heap[b].sons \subseteq Block
  BY <1>0, CellTypes
<1>2. \A b \in Block : Father(b)' = Father(b) /\ (Root(b)' <=> Root(b))
  BY DEF ShapeKept, Father, Root
<1>3. Tree'
  <2> SUFFICES ASSUME NEW b \in Block, heap'[b].live
               PROVE  /\ ~heap'[b].gone
                      /\ heap'[b].sized <=> heap'[b].native
                      /\ \A s \in heap'[b].sons : heap'[s].live /\ heap'[s].father = b
                      /\ heap'[b].father # NoBlock =>
                           /\ heap'[b].native
                           /\ Root(heap[b].father)'
                           /\ heap'[heap'[b].father].native
                           /\ b \in heap'[heap'[b].father].sons
    BY DEF Tree, Root, ShapeKept
  <2>1. heap[b].live /\ ~heap[b].gone
    BY DEF ShapeKept, BlockInv, Tree
  <2>2. \A s \in heap[b].sons : s \in Block /\ heap[s].live /\ heap[s].father = b
    BY <1>1, <2>1 DEF BlockInv, Tree
  <2>3. heap[b].father # NoBlock =>
          /\ heap[b].father \in Block
          /\ heap[b].native
          /\ Root(heap[b].father)
          /\ heap[heap[b].father].native
          /\ b \in heap[heap[b].father].sons
    BY <1>1, <2>1 DEF BlockInv, Tree, Ptr
  <2>4. \A s \in heap'[b].sons : heap'[s].live /\ heap'[s].father = b
    BY <2>2 DEF ShapeKept
  <2>5. heap'[b].father = heap[b].father
    BY DEF ShapeKept
  <2>6. ASSUME heap'[b].father # NoBlock
        PROVE  /\ heap'[b].native
               /\ Root(heap[b].father)'
               /\ heap'[heap'[b].father].native
               /\ b \in heap'[heap'[b].father].sons
    BY <2>3, <2>5, <2>6 DEF ShapeKept, Root
  <2> QED  BY <2>1, <2>4, <2>6 DEF ShapeKept
<1>4. Unique'
  BY DEF BlockInv, Unique, ShapeKept
<1>5. DirectOK'
  BY <1>0 DEF BlockInv, DirectOK, ShapeKept, Ptr
<1>6. Registered(t)'
  BY <1>2 DEF BlockInv, Registered, ShapeKept
<1> QED  BY <1>2, <1>3, <1>4, <1>5, <1>6

(* The block under the call is filled further; it is not done before.      *)
LEMMA SoloFill ==
  ASSUME NEW CONSTANT t, Thread = {t}, TypeInv, BlockInv(t),
         FillNoDynarec(t) \/ FillTranslate(t) \/ FillChanged(t)
  PROVE  BlockInv(t)'
<1> DEFINE c == loc[t].cur
<1>0. /\ pc \in [Thread -> Label] /\ loc \in [Thread -> Local] /\ t \in Thread
      /\ heap \in [Block -> Cell] /\ NoBlock \notin Block /\ jmp \in [Addr -> Ptr]
  BY SoloTypes
<1>1. /\ pc[t] \in {"fill", "translate", "recheck"}
      /\ UNCHANGED <<loc, direct, jmp>>
      /\ pc'[t] = IF FillNoDynarec(t) THEN "filled" ELSE IF FillTranslate(t) THEN "recheck" ELSE "fail"
  BY <1>0 DEF FillNoDynarec, FillTranslate, FillChanged, Goto
<1>2. c \in Block /\ Root(c) /\ heap[c].addr = loc[t].req /\ ~heap[c].native /\ ~heap[c].done
  BY <1>1 DEF BlockInv, CallOK, CallAt, TypeInv, PointerHeld
<1>3. heap[c] \in Cell /\ heap[c].sons \subseteq Block
  BY <1>0, <1>2, CellTypes
<1>4. heap[c].sons = {}
  <2>1. \A s \in heap[c].sons : heap[s].live /\ heap[s].father = c
    BY <1>2 DEF BlockInv, Tree, Root
  <2>2. \A s \in heap[c].sons : heap[c].native
    BY <1>0, <1>2, <1>3, <2>1 DEF BlockInv, Tree
  <2> QED  BY <1>2, <2>2
<1>5. /\ \A b \in Block \ {c} : heap'[b] = heap[b]
      /\ \/ FillNoDynarec(t) /\ heap'[c] = [heap[c] EXCEPT !.done = TRUE]
         \/ FillTranslate(t) /\ heap'[c] = [heap[c] EXCEPT !.code = CodeAt(loc[t].req)]
         \/ FillChanged(t) /\ heap'[c] = Filled(c, loc[t].req, {})
  BY <1>0, <1>2 DEF FillNoDynarec, FillTranslate, FillChanged
<1>6. /\ heap'[c].live <=> heap[c].live
      /\ heap'[c].gone <=> heap[c].gone
      /\ heap'[c].addr = heap[c].addr
      /\ heap'[c].father = heap[c].father
      /\ heap'[c].sons = {}
      /\ heap'[c].done => FillNoDynarec(t)
      /\ \/ heap'[c].sized /\ heap'[c].native /\ FillChanged(t)
         \/ (heap'[c].sized <=> heap[c].sized) /\ (heap'[c].native <=> heap[c].native)
  <2>1. CASE FillNoDynarec(t) /\ heap'[c] = [heap[c] EXCEPT !.done = TRUE]
    BY <1>2, <1>3, <1>4, <2>1 DEF Cell
  <2>2. CASE FillTranslate(t) /\ heap'[c] = [heap[c] EXCEPT !.code = CodeAt(loc[t].req)]
    BY <1>2, <1>3, <1>4, <2>2 DEF Cell
  <2>3. CASE FillChanged(t) /\ heap'[c] = Filled(c, loc[t].req, {})
    BY <1>2, <1>3, <1>4, <2>3 DEF Cell, Filled
  <2> QED  BY <1>5, <2>1, <2>2, <2>3
<1>7. ShapeKept
  <2>1. heap[c].live /\ (heap[c].sized <=> heap[c].native)
    BY <1>2 DEF BlockInv, Tree, Root
  <2>2. \A b \in Block \ {c} : heap[b].live => (heap[b].sized <=> heap[b].native)
    BY DEF BlockInv, Tree
  <2> QED  BY <1>2, <1>4, <1>5, <1>6, <2>1, <2>2 DEF ShapeKept
<1>8. Doomed(t)' = Doomed(t)
  BY <1>1 DEF Doomed, DoomedAt
<1>9. /\ Tree' /\ Unique' /\ DirectOK' /\ Registered(t)'
      /\ \A b \in Block : Father(b)' = Father(b) /\ (Root(b)' <=> Root(b))
  BY <1>1, <1>7, <1>8, ShapeKeeps
<1>10. JumpOK'
  <2> SUFFICES ASSUME NEW a \in Addr, jmp[a] # NoBlock
               PROVE  heap'[jmp[a]].live /\ heap'[jmp[a]].addr = a /\ Clean(jmp[a])'
    BY <1>1 DEF JumpOK
  <2>1. jmp[a] \in Block /\ heap[jmp[a]].live /\ heap[jmp[a]].addr = a /\ Clean(jmp[a])
    BY <1>0 DEF BlockInv, JumpOK, Ptr
  <2>2. jmp[a] # c /\ Father(jmp[a]) # c
    BY <1>2, <2>1 DEF Clean
  <2>3. PICK x \in Block : x = jmp[a]
    BY <2>1
  <2>4. Father(x) \in Block /\ Father(x)' = Father(x)
    BY <1>0, <1>9, CellTypes
  <2>5. heap'[x] = heap[x] /\ heap'[Father(x)] = heap[Father(x)]
    BY <1>5, <2>2, <2>3, <2>4
  <2>6. Clean(x)'
    BY <2>1, <2>3, <2>4, <2>5 DEF Clean
  <2>7. heap'[x].live /\ heap'[x].addr = a
    BY <2>1, <2>3, <2>5
  <2> QED  BY <1>1, <2>3, <2>6, <2>7
<1>11. CallOK(t)'
  <2>1. loc[t].todo = {}
    BY <1>1, NoneDoomed
  <2>2. /\ pc'[t] \in {"filled", "recheck", "fail"}
        /\ pc'[t] = "filled" => FillNoDynarec(t)
        /\ pc'[t] = "recheck" => FillTranslate(t)
    BY <1>1
  <2>3. Root(c)' /\ heap'[c].addr = loc'[t].req
    BY <1>1, <1>2, <1>6, <1>9
  <2>4. ~(FillNoDynarec(t) /\ FillTranslate(t)) /\ ~(FillNoDynarec(t) /\ FillChanged(t))
        /\ ~(FillTranslate(t) /\ FillChanged(t))
    BY DEF FillNoDynarec, FillTranslate, FillChanged
  <2>5. /\ pc'[t] = "filled" => ~heap'[c].native
        /\ pc'[t] = "recheck" => ~heap'[c].native /\ ~heap'[c].done
        /\ pc'[t] = "fail" => ~heap'[c].done /\ heap'[c].sons = {}
    BY <1>1, <1>2, <1>6, <2>2, <2>4
  <2>6. loc'[t].cur = c /\ loc'[t].todo = {}
    BY <1>1, <2>1
  <2> QED  BY <2>2, <2>3, <2>5, <2>6 DEF CallOK, CallAt, Root
<1> QED  BY <1>9, <1>10, <1>11 DEF BlockInv

(* What has to be shown of the jump table after a step that keeps the      *)
(* families.                                                               *)
LEMMA JumpKeeps ==
  ASSUME NoBlock \notin Block, ShapeKept, jmp' \in [Addr -> Ptr],
         \A b \in Block : Father(b)' = Father(b) /\ Father(b) \in Block,
         \A a \in Addr, x \in Block : jmp'[a] = x =>
           /\ heap[x].live /\ heap[x].addr = a
           /\ heap'[x].native /\ heap'[Father(x)].done /\ ~heap'[Father(x)].need_test
  PROVE  JumpOK'
<1> SUFFICES ASSUME NEW a \in Addr, jmp'[a] # NoBlock
             PROVE  heap'[jmp'[a]].live /\ heap'[jmp'[a]].addr = a /\ Clean(jmp[a])'
  BY DEF JumpOK
<1>1. PICK x \in Block : x = jmp'[a]
  BY DEF Ptr
<1>2. heap'[x].live /\ heap'[x].addr = a
  BY <1>1 DEF ShapeKept
<1>3. Clean(x)'
  BY <1>1 DEF Clean
<1> QED  BY <1>1, <1>2, <1>3 DEF Clean, Father

(* An entry of the jump table after blocks were added to it.               *)
LEMMA JumpAddedEntry ==
  ASSUME NEW S \in SUBSET Block, NEW a \in Addr, NEW x \in Block, JumpAdded(S)[a] = x
  PROVE  jmp[a] = x \/ (x \in S /\ heap[x].addr = a)
  BY DEF JumpAdded

(* The block and its sons are done, and enter the jump table.              *)
LEMMA SoloPublish ==
  ASSUME NEW CONSTANT t, Thread = {t}, TypeInv, TypeInv', BlockInv(t), Publish(t)
  PROVE  BlockInv(t)'
<1>0. /\ pc \in [Thread -> Label] /\ loc \in [Thread -> Local] /\ t \in Thread
      /\ heap \in [Block -> Cell] /\ NoBlock \notin Block /\ jmp \in [Addr -> Ptr]
      /\ jmp' \in [Addr -> Ptr]
  BY SoloTypes DEF TypeInv, TypeOK
<1>1. /\ pc[t] = "publish" /\ pc'[t] \in {"unlock", "check"}
      /\ loc' = loc /\ direct' = direct
  BY <1>0 DEF Publish, Goto
<1>2. PICK c \in Block : /\ c = loc[t].cur /\ Root(c)
                         /\ heap[c].native => ~heap[c].need_test
  BY <1>1 DEF BlockInv, CallOK, CallAt, TypeInv, PointerHeld
<1>3. \/ UNCHANGED <<jmp, heap>>
      \/ /\ heap[c].sized
         /\ jmp' = JumpAdded(Family(c))
         /\ heap' = [b \in Block |-> IF b \in Family(c) THEN [heap[b] EXCEPT !.done = TRUE]
                                     ELSE heap[b]]
  BY <1>2 DEF Publish
<1>4. ASSUME NEW b \in Block
      PROVE  /\ heap'[b] = heap[b] \/ heap'[b] = [heap[b] EXCEPT !.done = TRUE]
             /\ heap[b] \in Cell
  BY <1>0, <1>3
<1>5. ASSUME NEW b \in Block
      PROVE  /\ heap'[b].live <=> heap[b].live
             /\ heap'[b].gone <=> heap[b].gone
             /\ heap'[b].addr = heap[b].addr
             /\ heap'[b].father = heap[b].father
             /\ heap'[b].sons = heap[b].sons
             /\ heap[b].native <=> heap'[b].native
             /\ heap[b].sized <=> heap'[b].sized
             /\ heap[b].need_test <=> heap'[b].need_test
             /\ heap[b].done => heap'[b].done
  <2>1. CASE heap'[b] = heap[b]
    BY <2>1
  <2>2. CASE heap'[b] = [heap[b] EXCEPT !.done = TRUE]
    BY <1>4, <2>2 DEF Cell
  <2> QED  BY <1>4, <2>1, <2>2
<1>6. ShapeKept
  BY <1>5 DEF ShapeKept, BlockInv, Tree
<1>7. loc[t].todo = {} /\ Doomed(t) = {}
  BY <1>1, NoneDoomed
<1>8. Doomed(t)' = Doomed(t)
  BY <1>1 DEF Doomed, DoomedAt
<1>9. /\ Tree' /\ Unique' /\ DirectOK' /\ Registered(t)'
      /\ \A b \in Block : Father(b)' = Father(b) /\ (Root(b)' <=> Root(b))
  BY <1>1, <1>6, <1>8, ShapeKeeps
<1>10. \A b \in Block : Father(b)' = Father(b) /\ Father(b) \in Block
  BY <1>0, <1>9, CellTypes
<1>11. ASSUME NEW a \in Addr, NEW x \in Block, jmp[a] = x
       PROVE  /\ heap[x].live /\ heap[x].addr = a
              /\ heap'[x].native /\ heap'[Father(x)].done /\ ~heap'[Father(x)].need_test
  <2>1. heap[x].live /\ heap[x].addr = a /\ Clean(x)
    BY <1>0, <1>11 DEF BlockInv, JumpOK
  <2> QED  BY <1>5, <1>10, <2>1 DEF Clean
<1>12. ASSUME NEW a \in Addr, NEW x \in Block, jmp'[a] = x
       PROVE  /\ heap[x].live /\ heap[x].addr = a
              /\ heap'[x].native /\ heap'[Father(x)].done /\ ~heap'[Father(x)].need_test
  <2>1. CASE jmp[a] = x
    BY <1>11, <2>1
  <2>2. CASE jmp[a] # x
    <3>1. /\ heap[c].sized
          /\ jmp' = JumpAdded(Family(c))
          /\ heap' = [b \in Block |-> IF b \in Family(c) THEN [heap[b] EXCEPT !.done = TRUE]
                                      ELSE heap[b]]
      BY <1>3, <1>12, <2>2
    <3>2. Family(c) \subseteq Block
      BY <1>0, FamilyType
    <3>3. x \in Family(c) /\ heap[x].addr = a
      BY <1>12, <2>2, <3>1, <3>2, JumpAddedEntry
    <3>4. heap[x].live /\ Father(x) = c
      BY <1>0, <1>2, <3>3, FamilyOf DEF BlockInv
    <3>5. heap[c].native
      BY <1>2, <3>1 DEF BlockInv, Tree, Root
    <3>6. heap[x].native
      <4>1. CASE x = c
        BY <3>5, <4>1
      <4>2. CASE x # c
        BY <1>0, <3>4, <4>2 DEF BlockInv, Tree, Father
      <4> QED  BY <4>1, <4>2
    <3>7. c \in Family(c)
      BY DEF Family
    <3>8. heap'[c] = [heap[c] EXCEPT !.done = TRUE]
      BY <3>1, <3>7
    <3>9. heap'[c].done
      BY <1>4, <3>8 DEF Cell
    <3> QED  BY <1>2, <1>5, <3>3, <3>4, <3>5, <3>6, <3>9
  <2> QED  BY <2>1, <2>2
<1>13. JumpOK'
  BY <1>0, <1>6, <1>10, <1>12, JumpKeeps
<1>14. CallOK(t)'
  BY <1>1, <1>2, <1>5, <1>7 DEF CallOK, CallAt, Root
<1> QED  BY <1>9, <1>13, <1>14 DEF BlockInv

(* The block is clean again, and back in the jump table with its sons.     *)
LEMMA SoloRevalidate ==
  ASSUME NEW CONSTANT t, Thread = {t}, TypeInv, TypeInv', BlockInv(t), Revalidate(t)
  PROVE  BlockInv(t)'
<1>0. /\ pc \in [Thread -> Label] /\ loc \in [Thread -> Local] /\ t \in Thread
      /\ heap \in [Block -> Cell] /\ NoBlock \notin Block /\ jmp \in [Addr -> Ptr]
      /\ jmp' \in [Addr -> Ptr]
  BY SoloTypes DEF TypeInv, TypeOK
<1>1. /\ pc[t] = "same" /\ pc'[t] = "unlock"
      /\ loc' = loc /\ direct' = direct
  BY <1>0 DEF Revalidate, Goto
<1>2. PICK c \in Block : c = loc[t].cur /\ Root(c) /\ heap[c].native /\ heap[c].done
  BY <1>1 DEF BlockInv, CallOK, CallAt, TypeInv, PointerHeld
<1>3. /\ jmp' = JumpAdded(Family(c))
      /\ heap' = [heap EXCEPT ![c] = [heap[c] EXCEPT !.need_test = FALSE]]
  BY <1>2 DEF Revalidate
<1>4. heap[c] \in Cell /\ heap'[c] = [heap[c] EXCEPT !.need_test = FALSE]
  BY <1>0, <1>3
<1>5. /\ heap'[c].live <=> heap[c].live
      /\ heap'[c].gone <=> heap[c].gone
      /\ heap'[c].addr = heap[c].addr
      /\ heap'[c].father = heap[c].father
      /\ heap'[c].sons = heap[c].sons
      /\ heap[c].native <=> heap'[c].native
      /\ heap[c].sized <=> heap'[c].sized
      /\ ~heap'[c].need_test
      /\ heap[c].done <=> heap'[c].done
  BY <1>4 DEF Cell
<1>6. \A b \in Block \ {c} : heap'[b] = heap[b]
  BY <1>0, <1>3
<1>a. ShapeKept
  BY <1>5, <1>6 DEF ShapeKept, BlockInv, Tree
<1>7. loc[t].todo = {} /\ Doomed(t) = {}
  BY <1>1, NoneDoomed
<1>8. Doomed(t)' = Doomed(t)
  BY <1>1 DEF Doomed, DoomedAt
<1>9. /\ Tree' /\ Unique' /\ DirectOK' /\ Registered(t)'
      /\ \A b \in Block : Father(b)' = Father(b) /\ (Root(b)' <=> Root(b))
  BY <1>1, <1>a, <1>8, ShapeKeeps
<1>10. \A b \in Block : Father(b)' = Father(b) /\ Father(b) \in Block
  BY <1>0, <1>9, CellTypes
<1>12. ASSUME NEW a \in Addr, NEW x \in Block, jmp'[a] = x
       PROVE  /\ heap[x].live /\ heap[x].addr = a
              /\ heap'[x].native /\ heap'[Father(x)].done /\ ~heap'[Father(x)].need_test
  <2>1. CASE jmp[a] = x
    <3>1. heap[x].live /\ heap[x].addr = a /\ Clean(x)
      BY <1>0, <2>1 DEF BlockInv, JumpOK
    <3> QED  BY <1>5, <1>6, <1>10, <3>1 DEF Clean
  <2>2. CASE jmp[a] # x
    <3>2. Family(c) \subseteq Block
      BY <1>0, FamilyType
    <3>3. x \in Family(c) /\ heap[x].addr = a
      BY <1>3, <1>12, <2>2, <3>2, JumpAddedEntry
    <3>4. heap[x].live /\ Father(x) = c
      BY <1>0, <1>2, <3>3, FamilyOf DEF BlockInv
    <3>6. heap[x].native
      <4>1. CASE x = c
        BY <1>2, <4>1
      <4>2. CASE x # c
        BY <1>0, <3>4, <4>2 DEF BlockInv, Tree, Father
      <4> QED  BY <4>1, <4>2
    <3>7. heap'[x].native
      BY <1>5, <1>6, <3>6
    <3> QED  BY <1>2, <1>5, <3>3, <3>4, <3>7
  <2> QED  BY <2>1, <2>2
<1>13. JumpOK'
  BY <1>0, <1>a, <1>10, <1>12, JumpKeeps
<1>14. CallOK(t)'
  BY <1>1, <1>7 DEF CallOK, CallAt
<1> QED  BY <1>9, <1>13, <1>14 DEF BlockInv

(* The handler marks the fathers of a page and takes their families out of *)
(* the jump table.                                                         *)
LEMMA SoloMark ==
  ASSUME NEW CONSTANT t, Thread = {t}, TypeInv, TypeInv', BlockInv(t), Mark(t)
  PROVE  BlockInv(t)'
<1>0. /\ pc \in [Thread -> Label] /\ loc \in [Thread -> Local] /\ t \in Thread
      /\ heap \in [Block -> Cell] /\ NoBlock \notin Block /\ jmp \in [Addr -> Ptr]
      /\ direct \in [Addr -> Ptr] /\ jmp' \in [Addr -> Ptr]
  BY SoloTypes DEF TypeInv, TypeOK
<1>1. pc[t] = "mark" /\ direct' = direct
  BY DEF Mark
<1>2. loc[t].todo = {} /\ Doomed(t) = {}
  BY <1>1, NoneDoomed
<1>3. CASE ~dyn[loc[t].page]
  <2>1. Leave(t) /\ UNCHANGED tables
    BY <1>1, <1>3 DEF Mark, tables
  <2> QED  BY <1>2, <2>1, SoloLeave
<1>4. CASE dyn[loc[t].page]
  <2>1. loc' = loc /\ pc'[t] = "unprotect"
    BY <1>0, <1>4 DEF Mark, Goto
  <2> DEFINE hit == {direct[a] : a \in {a \in Addr : direct[a] # NoBlock}}
             M == {Father(b) : b \in {b \in hit : loc[t].page \in Spans(b)}}
             new == {b \in M : ~heap[b].need_test}
             S == UNION {Family(b) : b \in new}
  <2>2. /\ heap' = [b \in Block |-> IF b \in new THEN [heap[b] EXCEPT !.need_test = TRUE]
                                    ELSE heap[b]]
        /\ jmp' = JumpReset({heap[b].addr : b \in S})
    BY <1>4 DEF Mark, MarkRange
  <2> HIDE DEF new
  <2>3. ASSUME NEW b \in Block
        PROVE  /\ heap[b] \in Cell
               /\ \/ b \in new /\ heap'[b] = [heap[b] EXCEPT !.need_test = TRUE]
                  \/ b \notin new /\ heap'[b] = heap[b]
    BY <1>0, <2>2
  <2>4. ASSUME NEW b \in Block
        PROVE  /\ heap'[b].live <=> heap[b].live
               /\ heap'[b].gone <=> heap[b].gone
               /\ heap'[b].addr = heap[b].addr
               /\ heap'[b].father = heap[b].father
               /\ heap'[b].sons = heap[b].sons
               /\ heap[b].native <=> heap'[b].native
               /\ heap[b].sized <=> heap'[b].sized
               /\ heap[b].done <=> heap'[b].done
               /\ b \notin new => (heap'[b].need_test <=> heap[b].need_test)
    <3>1. CASE b \in new /\ heap'[b] = [heap[b] EXCEPT !.need_test = TRUE]
      BY <2>3, <3>1 DEF Cell
    <3>2. CASE b \notin new /\ heap'[b] = heap[b]
      BY <3>2
    <3> QED  BY <2>3, <3>1, <3>2
  <2>5. ShapeKept
    BY <2>4 DEF ShapeKept, BlockInv, Tree
  <2>6. Doomed(t)' = Doomed(t)
    BY <1>1, <2>1 DEF Doomed, DoomedAt
  <2>7. /\ Tree' /\ Unique' /\ DirectOK' /\ Registered(t)'
        /\ \A b \in Block : Father(b)' = Father(b)
    BY <1>1, <2>5, <2>6, ShapeKeeps
  <2>8. \A b \in Block : Father(b)' = Father(b) /\ Father(b) \in Block
    BY <1>0, <2>7, CellTypes
  <2>9. ASSUME NEW a \in Addr, NEW x \in Block, jmp'[a] = x
        PROVE  /\ heap[x].live /\ heap[x].addr = a
               /\ heap'[x].native /\ heap'[Father(x)].done /\ ~heap'[Father(x)].need_test
    <3>1. jmp[a] = x /\ a \notin {heap[b].addr : b \in S}
      BY <1>0, <2>2, <2>9 DEF JumpReset
    <3>2. heap[x].live /\ heap[x].addr = a /\ Clean(x)
      BY <1>0, <3>1 DEF BlockInv, JumpOK
    <3>3. x \notin S
      BY <3>1, <3>2
    <3>4. x \in Family(Father(x))
      BY <1>0, <3>2, FatherRoot DEF BlockInv
    <3>5. Father(x) \notin new
      BY <3>3, <3>4
    <3> QED  BY <2>4, <2>8, <3>2, <3>5 DEF Clean
  <2>10. JumpOK'
    BY <1>0, <2>5, <2>8, <2>9, JumpKeeps
  <2>11. CallOK(t)'
    BY <1>2, <2>1 DEF CallOK, CallAt
  <2> QED  BY <2>7, <2>10, <2>11 DEF BlockInv
<1> QED  BY <1>3, <1>4

(* munmap takes the blocks of a page out of direct and dooms their fathers.*)
LEMMA SoloFreeRange ==
  ASSUME NEW CONSTANT t, Thread = {t}, TypeInv, BlockInv(t), NEW p \in Unmapped, FreeRange(t, p)
  PROVE  BlockInv(t)'
<1>0. /\ pc \in [Thread -> Label] /\ loc \in [Thread -> Local] /\ t \in Thread /\ loc[t] \in Local
      /\ heap \in [Block -> Cell] /\ NoBlock \notin Block /\ direct \in [Addr -> Ptr]
  BY SoloTypes
<1> DEFINE A == {a \in Addr : FirstPage[a] = p /\ direct[a] # NoBlock}
           T == {Father(direct[a]) : a \in A}
<1>1. /\ pc[t] = "run" /\ pc'[t] = "purge" /\ jmp' = jmp /\ heap' = heap
      /\ direct' = [a \in Addr |-> IF a \in A THEN NoBlock ELSE direct[a]]
      /\ loc'[t] = [loc[t] EXCEPT !.page = p, !.todo = T]
  BY <1>0 DEF FreeRange, Goto
<1>2. loc'[t].todo = T
  BY <1>0, <1>1 DEF Local
<1>3. loc[t].todo = {} /\ Doomed(t) = {}
  BY <1>1, NoneDoomed
<1>4. Tree' /\ Unique' /\ JumpOK'
  BY <1>1 DEF BlockInv, Tree, Root, Unique, JumpOK, Clean, Father
<1>5. DirectOK'
  BY <1>1 DEF BlockInv, DirectOK
<1>6. ASSUME NEW b \in Block, heap[b].live
      PROVE  direct'[heap[b].addr] = b \/ Father(b) \in T
  <2>1. direct[heap[b].addr] = b /\ heap[b].addr \in Addr
    BY <1>0, <1>3, <1>6, CellTypes DEF BlockInv, Registered
  <2>2. CASE heap[b].addr \in A
    BY <2>1, <2>2
  <2>3. CASE heap[b].addr \notin A
    BY <1>1, <2>1, <2>3
  <2> QED  BY <2>2, <2>3
<1>7. Registered(t)'
  BY <1>1, <1>2, <1>6 DEF Registered, Doomed, DoomedAt, Father
<1>8. \A a \in A : direct[a] \in Block /\ heap[direct[a]].live
  BY <1>0 DEF BlockInv, DirectOK, Ptr
<1>9. \A b \in T : Root(b)
  BY <1>0, <1>8, FatherRoot DEF BlockInv
<1>10. \A b \in T : Root(b)'
  BY <1>1, <1>9 DEF Root
<1>11. CallOK(t)'
  BY <1>1, <1>2, <1>10 DEF CallOK, CallAt, Root
<1> QED  BY <1>4, <1>5, <1>7, <1>11 DEF BlockInv

-----------------------------------------------------------------------------
(* A new block takes a cell that nothing points to.                        *)
LEMMA SoloAddNew ==
  ASSUME NEW CONSTANT t, Thread = {t}, TypeInv, BlockInv(t), AddNew(t)
  PROVE  BlockInv(t)'
<1>0. /\ pc \in [Thread -> Label] /\ loc \in [Thread -> Local] /\ t \in Thread /\ loc[t] \in Local
      /\ heap \in [Block -> Cell] /\ NoBlock \notin Block /\ direct \in [Addr -> Ptr]
      /\ jmp \in [Addr -> Ptr] /\ loc[t].req \in Addr
  BY SoloTypes
<1>1. PICK a \in Addr : a = loc[t].req
  BY <1>0
<1>2. /\ pc[t] = "add" /\ pc'[t] = "fill" /\ direct[a] = NoBlock /\ jmp' = jmp
  BY <1>0, <1>1 DEF AddNew, Goto
<1>3. PICK b \in Block : /\ ~heap[b].live
                         /\ heap' = [heap EXCEPT ![b] = NewCell(a)]
                         /\ direct' = [direct EXCEPT ![a] = b]
                         /\ loc' = [loc EXCEPT ![t].cur = b]
  BY <1>1 DEF AddNew
<1>4. loc'[t].cur = b /\ loc'[t].req = a /\ loc'[t].todo = loc[t].todo
  <2>1. loc'[t] = [loc[t] EXCEPT !.cur = b]
    BY <1>0, <1>3
  <2> QED  BY <1>0, <1>1, <2>1 DEF Local
<1>5. loc[t].todo = {} /\ Doomed(t) = {}
  BY <1>2, NoneDoomed
<1>6. Doomed(t)' = {}
  BY <1>2, <1>4, <1>5 DEF Doomed, DoomedAt
<1>7. heap'[b] = NewCell(a) /\ \A x \in Block \ {b} : heap'[x] = heap[x]
  BY <1>0, <1>3
<1>8. /\ heap'[b].live /\ heap'[b].addr = a /\ ~heap'[b].native /\ ~heap'[b].sized
      /\ ~heap'[b].done /\ ~heap'[b].gone /\ heap'[b].father = NoBlock /\ heap'[b].sons = {}
  BY <1>7, NewFields
<1>9. ASSUME NEW x \in Block, heap[x].live
      PROVE  /\ x # b /\ heap'[x] = heap[x] /\ heap[x].addr # a
             /\ direct[heap[x].addr] = x /\ direct'[heap[x].addr] = x
  <2>1. x # b /\ heap'[x] = heap[x]
    BY <1>3, <1>7, <1>9
  <2>2. direct[heap[x].addr] = x
    BY <1>5, <1>9 DEF BlockInv, Registered
  <2>3. heap[x].addr # a
    BY <1>0, <1>2, <2>2
  <2> QED  BY <1>0, <1>3, <2>1, <2>2, <2>3
<1>10. \A x \in Block : heap'[x].live => x = b \/ heap[x].live
  BY <1>7
<1>11. Tree'
  <2> SUFFICES ASSUME NEW x \in Block, heap'[x].live
               PROVE  /\ ~heap'[x].gone
                      /\ heap'[x].sized <=> heap'[x].native
                      /\ \A s \in heap'[x].sons : heap'[s].live /\ heap'[s].father = x
                      /\ heap'[x].father # NoBlock =>
                           /\ heap'[x].native
                           /\ heap'[heap'[x].father].live
                           /\ heap'[heap'[x].father].father = NoBlock
                           /\ heap'[heap'[x].father].native
                           /\ x \in heap'[heap'[x].father].sons
    BY DEF Tree, Root
  <2>1. CASE x = b
    BY <1>8, <2>1
  <2>2. CASE heap[x].live
    <3>1. heap'[x] = heap[x]
      BY <1>9, <2>2
    <3>2. heap[x].sons \subseteq Block /\ heap[x].father \in Ptr
      BY <1>0, CellTypes
    <3>3. \A s \in heap[x].sons : s \in Block /\ heap[s].live /\ heap[s].father = x
      BY <2>2, <3>2 DEF BlockInv, Tree
    <3>4. \A s \in heap[x].sons : heap'[s].live /\ heap'[s].father = x
      BY <1>9, <3>3
    <3>5. heap[x].father # NoBlock =>
            /\ heap[x].native
            /\ heap[x].father \in Block
            /\ Root(heap[x].father)
            /\ heap[heap[x].father].native
            /\ x \in heap[heap[x].father].sons
      BY <2>2, <3>2 DEF BlockInv, Tree, Ptr
    <3>6. heap[x].father # NoBlock => heap'[heap[x].father] = heap[heap[x].father]
      BY <1>9, <3>5 DEF Root
    <3> QED  BY <2>2, <3>1, <3>4, <3>5, <3>6 DEF BlockInv, Tree, Root
  <2> QED  BY <1>10, <2>1, <2>2
<1>12. Unique'
  BY <1>8, <1>9, <1>10 DEF BlockInv, Unique
<1>13. DirectOK'
  <2> SUFFICES ASSUME NEW d \in Addr, direct'[d] # NoBlock
               PROVE  heap'[direct'[d]].live /\ heap'[direct'[d]].addr = d
    BY DEF DirectOK
  <2>1. CASE d = a
    BY <1>0, <1>3, <1>8, <2>1
  <2>2. CASE d # a
    <3>1. direct'[d] = direct[d] /\ direct[d] \in Block
      BY <1>0, <1>3, <2>2 DEF Ptr
    <3>2. heap[direct[d]].live /\ heap[direct[d]].addr = d
      BY <3>1 DEF BlockInv, DirectOK
    <3> QED  BY <1>9, <3>1, <3>2
  <2> QED  BY <2>1, <2>2
<1>14. JumpOK'
  <2> SUFFICES ASSUME NEW d \in Addr, jmp[d] # NoBlock
               PROVE  heap'[jmp[d]].live /\ heap'[jmp[d]].addr = d /\ Clean(jmp[d])'
    BY <1>2 DEF JumpOK
  <2>1. PICK x \in Block : x = jmp[d]
    BY <1>0 DEF Ptr
  <2>2. heap[x].live /\ heap[x].addr = d /\ Clean(x)
    BY <1>0, <2>1 DEF BlockInv, JumpOK
  <2>3. Father(x) \in Block /\ heap[Father(x)].live
    BY <1>0, <2>2, FatherRoot DEF BlockInv, Root
  <2>4. heap'[x] = heap[x] /\ heap'[Father(x)] = heap[Father(x)]
    BY <1>9, <2>2, <2>3
  <2>5. Clean(x)'
    <3>1. Father(x)' = Father(x)
      BY <2>4 DEF Father
    <3> QED  BY <2>2, <2>4, <3>1 DEF Clean
  <2> QED  BY <1>2, <2>1, <2>2, <2>4, <2>5
<1>15. Registered(t)'
  BY <1>0, <1>3, <1>8, <1>9, <1>10 DEF Registered
<1>16. CallOK(t)'
  BY <1>2, <1>4, <1>5, <1>8 DEF CallOK, CallAt, Root
<1> QED  BY <1>11, <1>12, <1>13, <1>14, <1>15, <1>16 DEF BlockInv

(* Cells die by families: what is left of the tables when the family of a  *)
(* root r is freed, and no entry of the tables keeps a member of it.       *)
LEMMA FamilyFreed ==
  ASSUME NEW CONSTANT t, Thread = {t}, TypeInv, BlockInv(t),
         NEW r \in Block, Root(r),
         \A x \in Block : heap'[x].live => heap[x].live /\ Father(x) # r,
         \A x \in Block : heap[x].live /\ Father(x) # r => heap'[x] = heap[x],
         \A a \in Addr : direct'[a] # NoBlock => direct'[a] = direct[a] /\ Father(direct[a]) # r,
         \A a \in Addr : jmp'[a] # NoBlock => jmp'[a] = jmp[a] /\ Father(jmp[a]) # r,
         \A x \in Block : heap[x].live /\ Father(x) # r /\ direct[heap[x].addr] = x
                            => direct'[heap[x].addr] = x
  PROVE  /\ Tree' /\ Unique' /\ DirectOK' /\ JumpOK'
         /\ \A x \in Block : heap'[x].live =>
              direct'[heap'[x].addr] = x \/ Father(x)' \in Doomed(t) \ {r}
<1>0. /\ heap \in [Block -> Cell] /\ NoBlock \notin Block /\ direct \in [Addr -> Ptr]
      /\ jmp \in [Addr -> Ptr]
  BY SoloTypes
<1>1. ASSUME NEW x \in Block, heap[x].live, Father(x) # r
      PROVE  /\ heap'[x] = heap[x] /\ Father(x)' = Father(x)
             /\ Father(x) \in Block /\ heap'[Father(x)] = heap[Father(x)]
  <2>1. heap'[x] = heap[x]
    BY <1>1
  <2>2. /\ Father(x) \in Block /\ heap[Father(x)].live /\ Father(Father(x)) = Father(x)
    BY <1>0, <1>1, FatherRoot DEF BlockInv, Root
  <2>3. heap'[Father(x)] = heap[Father(x)]
    BY <1>1, <2>2
  <2> QED  BY <2>1, <2>2, <2>3 DEF Father
<1>2. Tree'
  <2> SUFFICES ASSUME NEW x \in Block, heap'[x].live
               PROVE  /\ ~heap'[x].gone
                      /\ heap'[x].sized <=> heap'[x].native
                      /\ \A s \in heap'[x].sons : heap'[s].live /\ heap'[s].father = x
                      /\ heap'[x].father # NoBlock =>
                           /\ heap'[x].native
                           /\ heap'[heap'[x].father].live
                           /\ heap'[heap'[x].father].father = NoBlock
                           /\ heap'[heap'[x].father].native
                           /\ x \in heap'[heap'[x].father].sons
    BY DEF Tree, Root
  <2>1. heap[x].live /\ Father(x) # r /\ heap'[x] = heap[x]
    OBVIOUS
  <2>2. heap[x].sons \subseteq Block /\ heap[x].father \in Ptr
    BY <1>0, CellTypes
  <2>3. \A s \in heap[x].sons : s \in Block /\ heap[s].live /\ heap[s].father = x
    BY <2>1, <2>2 DEF BlockInv, Tree
  <2>4. ASSUME NEW s \in heap[x].sons
        PROVE  heap'[s].live /\ heap'[s].father = x
    <3>1. s \in Block /\ heap[s].live /\ heap[s].father = x /\ Father(s) = x
      BY <1>0, <2>3 DEF Father
    <3>2. x # r
      <4>1. Father(x) = x
        BY <1>0, <3>1 DEF BlockInv, Tree, Root, Father
      <4> QED  BY <2>1, <4>1
    <3> QED  BY <3>1, <3>2
  <2>5. heap[x].father # NoBlock =>
          /\ heap[x].native
          /\ heap[x].father = Father(x)
          /\ Root(heap[x].father)
          /\ heap[heap[x].father].native
          /\ x \in heap[heap[x].father].sons
    BY <2>1 DEF BlockInv, Tree, Father
  <2>6. heap'[Father(x)] = heap[Father(x)]
    BY <1>1, <2>1
  <2> QED  BY <2>1, <2>4, <2>5, <2>6 DEF BlockInv, Tree, Root
<1>3. Unique'
  BY <1>1 DEF BlockInv, Unique
<1>4. DirectOK'
  BY <1>0, <1>1 DEF BlockInv, DirectOK, Ptr
<1>5. JumpOK'
  <2> SUFFICES ASSUME NEW a \in Addr, jmp'[a] # NoBlock
               PROVE  heap'[jmp'[a]].live /\ heap'[jmp'[a]].addr = a /\ Clean(jmp[a])'
    BY DEF JumpOK
  <2>1. PICK x \in Block : x = jmp[a]
    BY <1>0 DEF Ptr
  <2>2. heap[x].live /\ heap[x].addr = a /\ Clean(x) /\ Father(x) # r /\ x = jmp'[a]
    BY <1>0, <2>1 DEF BlockInv, JumpOK
  <2>3. /\ heap'[x] = heap[x] /\ Father(x)' = Father(x) /\ heap'[Father(x)] = heap[Father(x)]
    BY <1>1, <2>2
  <2>4. Clean(x)'
    BY <2>2, <2>3 DEF Clean
  <2> QED  BY <2>2, <2>3, <2>4 DEF Clean, Father
<1>6. ASSUME NEW x \in Block, heap'[x].live
      PROVE  direct'[heap'[x].addr] = x \/ Father(x)' \in Doomed(t) \ {r}
  <2>1. heap[x].live /\ Father(x) # r
    BY <1>6
  <2>2. direct[heap[x].addr] = x \/ Father(x) \in Doomed(t)
    BY <2>1 DEF BlockInv, Registered
  <2> QED  BY <1>1, <2>1, <2>2
<1> QED  BY <1>2, <1>3, <1>4, <1>5, <1>6

(* With one thread, free() gives the cell back at once.                    *)
LEMMA SoloFreed ==
  ASSUME NEW CONSTANT t, Thread = {t}, NEW b
  PROVE  FreedCell(t, b) = DeadCell
  BY DEF FreedCell

(* What FreeDynablock does to the tables when it frees a root.             *)
LEMMA ReleaseFreed ==
  ASSUME NEW CONSTANT t, Thread = {t}, TypeInv, BlockInv(t),
         NEW r \in Block, Root(r), Release(t, r)
  PROVE  /\ Tree' /\ Unique' /\ DirectOK' /\ JumpOK'
         /\ \A x \in Block : heap'[x].live =>
              direct'[heap'[x].addr] = x \/ Father(x)' \in Doomed(t) \ {r}
         /\ \A x \in Block : heap[x].live /\ Father(x) # r => heap'[x] = heap[x]
         /\ \A x \in Block : heap'[x].live => heap[x].live /\ Father(x) # r
         /\ \A a \in Addr : direct[a] = NoBlock => direct'[a] = NoBlock
<1> DEFINE S == {r} \cup {s \in heap[r].sons : ~heap[s].gone}
           A == {heap[x].addr : x \in S}
<1>0. /\ heap \in [Block -> Cell] /\ NoBlock \notin Block /\ direct \in [Addr -> Ptr]
      /\ jmp \in [Addr -> Ptr]
  BY SoloTypes
<1>1. /\ heap' = [x \in Block |-> IF x \in S
                    THEN [FreedCell(t, x) EXCEPT !.done = FALSE, !.gone = TRUE] ELSE heap[x]]
      /\ direct' = [a \in Addr |-> IF a \in A THEN NoBlock ELSE direct[a]]
      /\ jmp' = JumpReset(A)
  BY DEF Release
<1>2. heap[r].sons \subseteq Block
  BY <1>0, CellTypes
<1>3. \A x \in Block : x \in S <=> heap[x].live /\ Father(x) = r
  <2>1. \A s \in heap[r].sons : heap[s].live
    BY DEF BlockInv, Tree, Root
  <2>2. \A s \in heap[r].sons : ~heap[s].gone
    BY <1>2, <2>1 DEF BlockInv, Tree
  <2>3. S = Family(r)
    BY <2>2 DEF Family
  <2> QED  BY <1>0, <2>3, FamilyOf DEF BlockInv
<1>4. ~[DeadCell EXCEPT !.done = FALSE, !.gone = TRUE].live
  <2>1. DeadCell \in Cell
    BY DeadCellType
  <2> QED  BY <2>1, DeadFields DEF Cell
<1>5. ASSUME NEW x \in Block, x \in S
      PROVE  ~heap'[x].live
  <2>1. heap'[x] = [FreedCell(t, x) EXCEPT !.done = FALSE, !.gone = TRUE]
    BY <1>1, <1>5
  <2>2. FreedCell(t, x) = DeadCell
    BY SoloFreed
  <2> QED  BY <1>4, <2>1, <2>2
<1>6. \A x \in Block : x \notin S => heap'[x] = heap[x]
  BY <1>1
<1> HIDE DEF S
<1>7. \A x \in Block : heap'[x].live => heap[x].live /\ Father(x) # r
  <2> SUFFICES ASSUME NEW x \in Block, heap'[x].live
               PROVE  heap[x].live /\ Father(x) # r
    OBVIOUS
  <2>1. x \notin S
    BY <1>5
  <2>2. heap'[x] = heap[x]
    BY <1>6, <2>1
  <2> QED  BY <1>3, <2>1, <2>2
<1>8. \A x \in Block : heap[x].live /\ Father(x) # r => heap'[x] = heap[x]
  BY <1>3, <1>6
<1>9. ASSUME NEW a \in Addr, direct'[a] # NoBlock
      PROVE  direct'[a] = direct[a] /\ Father(direct[a]) # r
  <2>1. a \notin A /\ direct'[a] = direct[a]
    BY <1>0, <1>1, <1>9
  <2>2. direct[a] \in Block /\ heap[direct[a]].live /\ heap[direct[a]].addr = a
    BY <1>0, <1>9, <2>1 DEF BlockInv, DirectOK, Ptr
  <2> QED  BY <1>3, <2>1, <2>2
<1>10. ASSUME NEW a \in Addr, jmp'[a] # NoBlock
       PROVE  jmp'[a] = jmp[a] /\ Father(jmp[a]) # r
  <2>1. a \notin A /\ jmp'[a] = jmp[a]
    BY <1>0, <1>1, <1>10 DEF JumpReset
  <2>2. jmp[a] \in Block /\ heap[jmp[a]].live /\ heap[jmp[a]].addr = a
    BY <1>0, <1>10, <2>1 DEF BlockInv, JumpOK, Ptr
  <2> QED  BY <1>3, <2>1, <2>2
<1>11. ASSUME NEW x \in Block, heap[x].live, Father(x) # r, direct[heap[x].addr] = x
       PROVE  direct'[heap[x].addr] = x
  <2>1. heap[x].addr \notin A
    <3> SUFFICES ASSUME NEW y \in S, heap[y].addr = heap[x].addr PROVE FALSE
      OBVIOUS
    <3>1. y \in Block
      BY <1>2 DEF S
    <3>2. y = x
      BY <1>3, <1>11, <3>1 DEF BlockInv, Unique
    <3> QED  BY <1>3, <1>11, <3>2
  <2>2. heap[x].addr \in Addr
    BY <1>0, CellTypes
  <2> QED  BY <1>1, <1>11, <2>1, <2>2
<1>12. \A a \in Addr : direct[a] = NoBlock => direct'[a] = NoBlock
  BY <1>1
<1> HIDE DEF A
<1> QED  BY <1>7, <1>8, <1>9, <1>10, <1>11, <1>12, FamilyFreed

(* The father of a block that changed is freed, or one that munmap dooms.  *)
LEMMA SoloRelease ==
  ASSUME NEW CONSTANT t, Thread = {t}, TypeInv, BlockInv(t), ValidateChanged(t) \/ FreeLocked(t)
  PROVE  BlockInv(t)'
<1>0. /\ pc \in [Thread -> Label] /\ loc \in [Thread -> Local] /\ t \in Thread
      /\ heap \in [Block -> Cell] /\ NoBlock \notin Block
  BY SoloTypes
<1>1. pc[t] \in {"validate", "free"} /\ loc' = loc
  BY DEF ValidateChanged, FreeLocked
<1>2. PICK r \in Block : r = loc[t].cur /\ Root(r)
  BY <1>1 DEF BlockInv, CallOK, CallAt, TypeInv, PointerHeld
<1>3. ~heap[r].gone
  BY <1>2 DEF BlockInv, Tree, Root
<1>4. Release(t, r)
  BY <1>2, <1>3 DEF ValidateChanged, FreeLocked
<1>5. /\ Tree' /\ Unique' /\ DirectOK' /\ JumpOK'
      /\ \A x \in Block : heap'[x].live =>
           direct'[heap'[x].addr] = x \/ Father(x)' \in Doomed(t) \ {r}
      /\ \A x \in Block : heap[x].live /\ Father(x) # r => heap'[x] = heap[x]
  BY <1>2, <1>4, ReleaseFreed
<1>6. \/ pc[t] = "validate" /\ pc'[t] = "again" /\ loc[t].todo = {}
      \/ pc[t] = "free" /\ pc'[t] = "purge" /\ r \notin loc[t].todo
  BY <1>0, <1>2 DEF ValidateChanged, FreeLocked, Goto, BlockInv, CallOK, CallAt
<1>7. Doomed(t) \ {r} = Doomed(t)'
  BY <1>1, <1>2, <1>6 DEF Doomed, DoomedAt
<1>8. Registered(t)'
  BY <1>5, <1>7 DEF Registered
<1>9. \A b \in loc[t].todo : Root(b)'
  <2> SUFFICES ASSUME NEW b \in loc[t].todo PROVE Root(b)'
    OBVIOUS
  <2>1. b \in Block /\ Root(b) /\ b # r
    BY <1>6, SoloTypes DEF BlockInv, CallOK, CallAt
  <2>2. heap'[b] = heap[b]
    BY <1>5, <2>1 DEF Root, Father
  <2> QED  BY <2>1, <2>2 DEF Root
<1>10. CallOK(t)'
  BY <1>1, <1>6, <1>9 DEF CallOK, CallAt, Root
<1> QED  BY <1>5, <1>8, <1>10 DEF BlockInv

(* A block that could not be filled is taken back.                         *)
LEMMA SoloDrop ==
  ASSUME NEW CONSTANT t, Thread = {t}, TypeInv, BlockInv(t), Drop(t)
  PROVE  BlockInv(t)'
<1>0. /\ pc \in [Thread -> Label] /\ loc \in [Thread -> Local] /\ t \in Thread
      /\ heap \in [Block -> Cell] /\ NoBlock \notin Block /\ direct \in [Addr -> Ptr]
      /\ jmp \in [Addr -> Ptr] /\ loc[t].req \in Addr
  BY SoloTypes
<1>1. pc[t] = "drop" /\ jmp' = jmp
  BY DEF Drop
<1>2. PICK r \in Block : /\ r = loc[t].cur /\ Root(r) /\ heap[r].addr = loc[t].req
                         /\ heap[r].sons = {} /\ ~heap[r].done
  BY <1>1 DEF BlockInv, CallOK, CallAt, TypeInv, PointerHeld
<1>3. loc[t].todo = {} /\ Doomed(t) = {}
  BY <1>1, NoneDoomed
<1>4. direct[loc[t].req] = r
  BY <1>2, <1>3 DEF BlockInv, Registered, Root
<1>5. /\ heap' = [heap EXCEPT ![r] = DeadCell]
      /\ direct' = [direct EXCEPT ![loc[t].req] = NoBlock]
  BY <1>2, <1>4, SoloFreed DEF Drop
<1>6. \A x \in Block : heap[x].live /\ Father(x) = r <=> x = r
  BY <1>0, <1>2, FamilyOf DEF Family, BlockInv
<1>7. \A x \in Block : heap'[x].live => heap[x].live /\ Father(x) # r
  <2>1. ~heap'[r].live /\ \A x \in Block \ {r} : heap'[x] = heap[x]
    BY <1>0, <1>5, DeadFields
  <2> QED  BY <1>6, <2>1
<1>8. \A x \in Block : heap[x].live /\ Father(x) # r => heap'[x] = heap[x]
  BY <1>0, <1>5, <1>6
<1>9. ASSUME NEW a \in Addr, direct'[a] # NoBlock
      PROVE  direct'[a] = direct[a] /\ Father(direct[a]) # r
  <2>1. a # loc[t].req /\ direct'[a] = direct[a]
    BY <1>0, <1>5, <1>9
  <2>2. direct[a] \in Block /\ heap[direct[a]].live /\ heap[direct[a]].addr = a
    BY <1>0, <1>9, <2>1 DEF BlockInv, DirectOK, Ptr
  <2> QED  BY <1>2, <1>6, <2>1, <2>2
<1>10. ASSUME NEW a \in Addr, jmp'[a] # NoBlock
       PROVE  jmp'[a] = jmp[a] /\ Father(jmp[a]) # r
  BY <1>0, <1>1, <1>2, <1>10 DEF BlockInv, JumpOK, Clean
<1>11. ASSUME NEW x \in Block, heap[x].live, Father(x) # r, direct[heap[x].addr] = x
       PROVE  direct'[heap[x].addr] = x
  <2>1. heap[x].addr # loc[t].req
    BY <1>4, <1>6, <1>11
  <2> QED  BY <1>0, <1>5, <1>11, <2>1, CellTypes
<1>12. /\ Tree' /\ Unique' /\ DirectOK' /\ JumpOK'
       /\ \A x \in Block : heap'[x].live =>
            direct'[heap'[x].addr] = x \/ Father(x)' \in Doomed(t) \ {r}
  BY <1>2, <1>7, <1>8, <1>9, <1>10, <1>11, FamilyFreed
<1>13. pc'[t] \in {"run", "unlock"} /\ loc'[t].todo = {}
  <2>1. CASE Goto(t, "unlock") /\ UNCHANGED loc
    BY <1>0, <1>3, <2>1 DEF Goto
  <2>2. CASE Leave(t)
    <3>1. pc'[t] = "run" /\ loc'[t] = Idle
      BY <1>0, <2>2 DEF Leave, Goto
    <3> QED  BY <3>1 DEF Idle
  <2> QED  BY <2>1, <2>2 DEF Drop
<1>14. Registered(t)'
  BY <1>3, <1>12 DEF Registered
<1>15. CallOK(t)'
  BY <1>13 DEF CallOK, CallAt
<1> QED  BY <1>12, <1>14, <1>15 DEF BlockInv

(* The cell of a son that FillBlock64 makes.                               *)
LEMMA SonFields ==
  ASSUME NEW a, NEW c
  PROVE  LET n == [NewCell(a) EXCEPT !.native = TRUE, !.sized = TRUE, !.father = c]
         IN  /\ n.live /\ n.addr = a /\ n.native /\ n.sized /\ ~n.gone
             /\ n.father = c /\ n.sons = {}
  BY DEF NewCell

(* A complete block gets its sons.                                         *)
LEMMA SoloFinish ==
  ASSUME NEW CONSTANT t, Thread = {t}, TypeInv, BlockInv(t), FillFinish(t)
  PROVE  BlockInv(t)'
<1>0. /\ pc \in [Thread -> Label] /\ loc \in [Thread -> Local] /\ t \in Thread
      /\ heap \in [Block -> Cell] /\ NoBlock \notin Block /\ direct \in [Addr -> Ptr]
      /\ jmp \in [Addr -> Ptr] /\ loc[t].req \in Addr
  BY SoloTypes
<1>1. /\ pc[t] = "recheck" /\ pc'[t] = "filled" /\ jmp' = jmp /\ loc' = loc
  BY <1>0 DEF FillFinish, Goto
<1> DEFINE a == loc[t].req
           c == loc[t].cur
<1>2. a \in Addr
  BY <1>0
<1>3. c \in Block /\ Root(c) /\ heap[c].addr = a /\ ~heap[c].native /\ ~heap[c].done
  BY <1>1, <1>2 DEF BlockInv, CallOK, CallAt, TypeInv, PointerHeld
<1> DEFINE D == {s \in SonsOf[a] : direct[s] = NoBlock}
           SonAt(s) == [NewCell(s) EXCEPT !.native = TRUE, !.sized = TRUE, !.father = c]
<1>4. PICK son \in [D -> {b \in Block : ~heap[b].live}] :
        /\ \A s1, s2 \in DOMAIN son : s1 # s2 => son[s1] # son[s2]
        /\ heap' = [b \in Block |->
             IF b = c THEN Filled(b, a, {son[s] : s \in DOMAIN son})
             ELSE IF \E s \in DOMAIN son : son[s] = b
                  THEN SonAt(CHOOSE s \in DOMAIN son : son[s] = b)
                  ELSE heap[b]]
        /\ direct' = [d \in Addr |-> IF d \in DOMAIN son THEN son[d] ELSE direct[d]]
  BY DEF FillFinish
<1>a. \A s : /\ SonAt(s).live /\ SonAt(s).addr = s /\ SonAt(s).native /\ SonAt(s).sized
             /\ ~SonAt(s).gone /\ SonAt(s).father = c /\ SonAt(s).sons = {}
  BY SonFields
<1> HIDE DEF SonAt
<1>5. /\ DOMAIN son = D /\ D \subseteq Addr /\ a \notin D
      /\ \A s \in D : son[s] \in Block /\ ~heap[son[s]].live /\ direct[s] = NoBlock
      /\ \A s1, s2 \in D : son[s1] = son[s2] => s1 = s2
  BY <1>2, <1>4, DynablockAssumption
<1> DEFINE R == {son[s] : s \in D}
<1>6. loc[t].todo = {} /\ Doomed(t) = {} /\ Doomed(t)' = {}
  BY <1>1, NoneDoomed DEF Doomed, DoomedAt
<1>7. /\ heap'[c].live /\ heap'[c].addr = a /\ heap'[c].native /\ heap'[c].sized
      /\ ~heap'[c].need_test /\ ~heap'[c].gone
      /\ heap'[c].father = NoBlock /\ heap'[c].sons = R
  <2>1. heap'[c] = Filled(c, a, R)
    BY <1>3, <1>4, <1>5
  <2>2. heap[c] \in Cell /\ heap[c].live /\ heap[c].addr = a /\ heap[c].father = NoBlock
    BY <1>0, <1>3 DEF Root
  <2>3. ~heap[c].gone
    BY <1>3, <2>2 DEF BlockInv, Tree
  <2> HIDE DEF R
  <2> QED  BY <2>1, <2>2, <2>3 DEF Filled, Cell
<1>8. ASSUME NEW s \in D
      PROVE  /\ heap'[son[s]].live /\ heap'[son[s]].addr = s /\ heap'[son[s]].native
             /\ heap'[son[s]].sized /\ ~heap'[son[s]].gone
             /\ heap'[son[s]].father = c /\ heap'[son[s]].sons = {}
             /\ son[s] # c
  <2>1. son[s] \in Block /\ son[s] # c
    BY <1>3, <1>5 DEF Root
  <2>2. (CHOOSE z \in DOMAIN son : son[z] = son[s]) = s
    BY <1>5
  <2>3. heap'[son[s]] = SonAt(s)
    BY <1>4, <1>5, <2>1, <2>2
  <2> QED  BY <1>a, <2>1, <2>3
<1>9. ASSUME NEW x \in Block, x # c, x \notin R
      PROVE  heap'[x] = heap[x]
  BY <1>4, <1>5, <1>9
<1>10. ASSUME NEW x \in Block, heap[x].live
       PROVE  /\ x \notin R /\ heap[x].addr \in Addr \ D
              /\ direct[heap[x].addr] = x /\ direct'[heap[x].addr] = x
              /\ x # c => heap'[x] = heap[x]
  <2>1. x \notin R
    BY <1>5, <1>10
  <2>2. direct[heap[x].addr] = x /\ heap[x].addr \in Addr
    BY <1>0, <1>6, <1>10, CellTypes DEF BlockInv, Registered
  <2>3. heap[x].addr \notin D
    BY <1>0, <1>5, <2>2
  <2> QED  BY <1>4, <1>5, <1>9, <2>1, <2>2, <2>3
<1>11. ASSUME NEW x \in Block, heap'[x].live
       PROVE  x = c \/ x \in R \/ (heap[x].live /\ x # c /\ heap'[x] = heap[x])
  BY <1>9, <1>11
<1>12. ASSUME NEW x \in Block, heap[x].live, x # c
       PROVE  /\ Father(x) # c /\ Father(x) \in Block /\ heap[Father(x)].live
              /\ heap'[Father(x)] = heap[Father(x)] /\ Father(x)' = Father(x)
  <2>1. Father(x) # c
    BY <1>3, <1>12 DEF BlockInv, Tree, Father
  <2>2. Father(x) \in Block /\ heap[Father(x)].live
    BY <1>0, <1>12, FatherRoot DEF BlockInv, Root
  <2>3. heap'[x] = heap[x]
    BY <1>10, <1>12
  <2> QED  BY <1>10, <2>1, <2>2, <2>3 DEF Father
<1> HIDE DEF R
<1>13. Tree'
  <2> SUFFICES ASSUME NEW x \in Block, heap'[x].live
               PROVE  /\ ~heap'[x].gone
                      /\ heap'[x].sized <=> heap'[x].native
                      /\ \A s \in heap'[x].sons : heap'[s].live /\ heap'[s].father = x
                      /\ heap'[x].father # NoBlock =>
                           /\ heap'[x].native
                           /\ heap'[heap'[x].father].live
                           /\ heap'[heap'[x].father].father = NoBlock
                           /\ heap'[heap'[x].father].native
                           /\ x \in heap'[heap'[x].father].sons
    BY DEF Tree, Root
  <2>1. CASE x = c
    <3>1. \A s \in R : heap'[s].live /\ heap'[s].father = c
      BY <1>8 DEF R
    <3> QED  BY <1>7, <2>1, <3>1
  <2>2. CASE x \in R
    <3>1. PICK s \in D : x = son[s]
      BY <2>2 DEF R
    <3>2. /\ heap'[x].native /\ heap'[x].sized /\ ~heap'[x].gone
          /\ heap'[x].father = c /\ heap'[x].sons = {}
      BY <1>8, <3>1
    <3> QED  BY <1>7, <2>2, <3>2
  <2>3. CASE heap[x].live /\ x # c /\ heap'[x] = heap[x]
    <3>1. heap[x].sons \subseteq Block /\ heap[x].father \in Ptr
      BY <1>0, CellTypes
    <3>2. \A s \in heap[x].sons : s \in Block /\ heap[s].live /\ heap[s].father = x
      BY <2>3, <3>1 DEF BlockInv, Tree
    <3>3. \A s \in heap[x].sons : s # c
      BY <1>0, <1>3, <3>2 DEF Root
    <3>4. \A s \in heap[x].sons : heap'[s].live /\ heap'[s].father = x
      BY <1>10, <3>2, <3>3
    <3>5. heap[x].father # NoBlock =>
            /\ heap[x].native
            /\ heap[x].father = Father(x)
            /\ Root(heap[x].father)
            /\ heap[heap[x].father].native
            /\ x \in heap[heap[x].father].sons
      BY <2>3 DEF BlockInv, Tree, Father
    <3>6. heap'[Father(x)] = heap[Father(x)]
      BY <1>12, <2>3
    <3> QED  BY <2>3, <3>4, <3>5, <3>6 DEF BlockInv, Tree, Root
  <2> QED  BY <1>11, <2>1, <2>2, <2>3
<1>14. ASSUME NEW x \in Block, heap'[x].live
       PROVE  direct'[heap'[x].addr] = x
  <2>1. CASE x = c
    BY <1>3, <1>7, <1>10, <2>1 DEF Root
  <2>2. CASE x \in R
    <3>1. PICK s \in D : x = son[s]
      BY <2>2 DEF R
    <3>2. heap'[x].addr = s /\ s \in Addr
      BY <1>5, <1>8, <3>1
    <3> QED  BY <1>4, <1>5, <3>1, <3>2
  <2>3. CASE heap[x].live /\ x # c /\ heap'[x] = heap[x]
    BY <1>10, <2>3
  <2> QED  BY <1>11, <1>14, <2>1, <2>2, <2>3
<1>15. Unique'
  BY <1>14 DEF Unique
<1>16. DirectOK'
  <2> SUFFICES ASSUME NEW d \in Addr, direct'[d] # NoBlock
               PROVE  heap'[direct'[d]].live /\ heap'[direct'[d]].addr = d
    BY DEF DirectOK
  <2>1. CASE d \in D
    <3>1. direct'[d] = son[d]
      BY <1>4, <1>5, <2>1
    <3>2. heap'[son[d]].live /\ heap'[son[d]].addr = d
      BY <1>8, <2>1
    <3> QED  BY <3>1, <3>2
  <2>2. CASE d \notin D
    <3>1. direct'[d] = direct[d] /\ direct[d] \in Block
      BY <1>0, <1>4, <1>5, <2>2 DEF Ptr
    <3>2. heap[direct[d]].live /\ heap[direct[d]].addr = d
      BY <3>1 DEF BlockInv, DirectOK
    <3>3. CASE direct[d] = c
      BY <1>3, <1>7, <3>1, <3>2, <3>3
    <3>4. CASE direct[d] # c
      BY <1>10, <3>1, <3>2, <3>4
    <3> QED  BY <3>3, <3>4
  <2> QED  BY <2>1, <2>2
<1>17. JumpOK'
  <2> SUFFICES ASSUME NEW d \in Addr, jmp[d] # NoBlock
               PROVE  heap'[jmp[d]].live /\ heap'[jmp[d]].addr = d /\ Clean(jmp[d])'
    BY <1>1 DEF JumpOK
  <2>1. PICK x \in Block : x = jmp[d]
    BY <1>0 DEF Ptr
  <2>2. heap[x].live /\ heap[x].addr = d /\ Clean(x)
    BY <1>0, <2>1 DEF BlockInv, JumpOK
  <2>3. x # c
    BY <1>3, <2>2 DEF Clean
  <2>4. heap'[x] = heap[x]
    BY <1>10, <2>2, <2>3
  <2>5. Clean(x)'
    BY <1>12, <2>2, <2>3, <2>4 DEF Clean
  <2> QED  BY <1>1, <2>1, <2>2, <2>4, <2>5
<1>18. Registered(t)'
  BY <1>14 DEF Registered
<1>19. CallOK(t)'
  BY <1>1, <1>2, <1>3, <1>6, <1>7 DEF CallOK, CallAt, Root
<1> QED  BY <1>13, <1>15, <1>16, <1>17, <1>18, <1>19 DEF BlockInv

(* Nothing is in the tables at the start.                                  *)
LEMMA SoloInit ==
  ASSUME NEW CONSTANT t, Thread = {t}, Init
  PROVE  BlockInv(t)
<1>1. \A b \in Block : ~heap[b].live
  BY DeadFields DEF Init
<1>2. Tree /\ Unique /\ Registered(t)
  BY <1>1 DEF Tree, Unique, Registered
<1>3. DirectOK /\ JumpOK
  BY DEF Init, DirectOK, JumpOK
<1>4. CallOK(t)
  BY DEF Init, Idle, CallOK, CallAt
<1> QED  BY <1>2, <1>3, <1>4 DEF BlockInv

(* Every step of a program with one thread keeps the invariant.            *)
LEMMA SoloStep ==
  ASSUME NEW CONSTANT t, Thread = {t}, TypeInv, TypeInv', BlockInv(t), [Next]_vars
  PROVE  BlockInv(t)'
<1>1. CASE UNCHANGED vars
  <2>1. UNCHANGED tables /\ pc' = pc /\ loc' = loc
    BY <1>1 DEF vars, tables
  <2>2. CallAt(pc'[t], loc'[t].req, loc'[t].cur, loc'[t].todo)
    BY <2>1 DEF BlockInv, CallOK
  <2>3. DoomedAt(pc'[t], loc'[t].cur, loc'[t].todo) = Doomed(t)
    BY <2>1 DEF Doomed
  <2> QED  BY <2>1, <2>2, <2>3, QuietKeeps
<1>2. CASE Next
  <2>1. Guest(t) \/ DBGetBlock(t) \/ Handler(t) \/ Purge(t)
    BY <1>2 DEF Next
  <2>2. CASE Guest(t)
    BY <2>2, SoloChoose, SoloReturn, SoloFreeRange DEF Guest
  <2>3. CASE DBGetBlock(t)
    BY <2>3, SoloAddNew, SoloChoose, SoloMove, SoloFill, SoloFinish, SoloReturn, SoloDrop,
       SoloPublish, SoloRevalidate, SoloRelease DEF DBGetBlock, Fill
  <2>4. CASE Handler(t)
    BY <2>4, SoloMark, SoloReturn DEF Handler
  <2>5. CASE Purge(t)
    BY <2>5, SoloFreeDynablock, SoloRelease, SoloReturn DEF Purge
  <2> QED  BY <2>1, <2>2, <2>3, <2>4, <2>5
<1> QED  BY <1>1, <1>2

(* A program with one thread: direct holds live blocks only, and the       *)
(* father of a block it holds is alive, whichever blocks are filled,       *)
(* cancelled, validated, replaced and unmapped: no block is freed that is  *)
(* still to be found.                                                      *)
THEOREM DirectAlwaysAlive ==
  ASSUME NEW CONSTANT t, Thread = {t}
  PROVE  Spec => []DirectAlive
<1>1. TypeInv /\ BlockInv(t) => DirectAlive
  <2> SUFFICES ASSUME TypeInv, BlockInv(t), NEW a \in Addr, direct[a] # NoBlock
               PROVE  heap[direct[a]].live /\ heap[direct[a]].addr = a
                      /\ heap[Father(direct[a])].live
    BY DEF DirectAlive
  <2>1. direct[a] \in Block /\ heap[direct[a]].live /\ heap[direct[a]].addr = a
    BY SoloTypes DEF Ptr, BlockInv, DirectOK
  <2> QED  BY <2>1, SoloTypes, FatherRoot DEF BlockInv, Root
<1>2. Init => BlockInv(t)
  BY SoloInit
<1>3. TypeInv /\ TypeInv' /\ BlockInv(t) /\ [Next]_vars => BlockInv(t)'
  BY SoloStep
<1> QED  BY <1>1, <1>2, <1>3, TypeInit, TypeStep, PTL DEF Spec

(* A program with one thread: native code that jumps through the jump      *)
(* table lands in a live block that needs no test.                         *)
THEOREM JumpTableAlwaysClean ==
  ASSUME NEW CONSTANT t, Thread = {t}
  PROVE  Spec => []JumpTableClean
<1>1. TypeInv /\ BlockInv(t) => JumpTableClean
  <2> SUFFICES ASSUME TypeInv, BlockInv(t), NEW a \in Addr, jmp[a] # NoBlock
               PROVE  heap[jmp[a]].live /\ heap[jmp[a]].addr = a
                      /\ heap[Father(jmp[a])].live /\ Clean(jmp[a])
    BY DEF JumpTableClean
  <2>1. /\ jmp[a] \in Block /\ heap[jmp[a]].live /\ heap[jmp[a]].addr = a /\ Clean(jmp[a])
    BY SoloTypes DEF Ptr, BlockInv, JumpOK
  <2> QED  BY <2>1, SoloTypes, FatherRoot DEF BlockInv, Root
<1>2. Init => BlockInv(t)
  BY SoloInit
<1>3. TypeInv /\ TypeInv' /\ BlockInv(t) /\ [Next]_vars => BlockInv(t)'
  BY SoloStep
<1> QED  BY <1>1, <1>2, <1>3, TypeInit, TypeStep, PTL DEF Spec

-----------------------------------------------------------------------------
(* A root with native code is compared later with what it was translated   *)
(* from; while it needs no test, memory still holds that, and all its      *)
(* pages are protected.                                                    *)
CodeOK ==
  \A b \in Block : Root(b) /\ heap[b].native =>
    /\ heap[b].hash = heap[b].code
    /\ ~heap[b].need_test =>
         /\ heap[b].code = CodeAt(heap[b].addr)
         /\ \A p \in PagesOf[heap[b].addr] : dyn[p]

(* Inside a call: what was read stays true while it is translated or       *)
(* validated, the blocks of the page that the handler unprotects are       *)
(* marked, and those that start in the page that munmap takes away have    *)
(* left direct.                                                            *)
FillOK(t) ==
  /\ pc[t] \in {"translate", "recheck"} =>
       loc[t].hash = CodeAt(loc[t].req) /\ \A p \in PagesOf[loc[t].req] : dyn[p]
  /\ pc[t] = "recheck" => heap[loc[t].cur].code = CodeAt(loc[t].req)
  /\ pc[t] = "same" => CodeAt(heap[loc[t].cur].addr) = heap[loc[t].cur].hash
  /\ pc[t] = "unprotect" =>
       \A b \in Block : Root(b) /\ heap[b].native /\ loc[t].page \in PagesOf[heap[b].addr]
         => heap[b].need_test
  /\ pc[t] \in {"purge", "free"} =>
       /\ loc[t].page \in Unmapped
       /\ \A a \in Addr : FirstPage[a] = loc[t].page => direct[a] = NoBlock

CodeInv(t) == CodeOK /\ FillOK(t)

(* The labels at which a call relies on what memory holds.                 *)
Relying == {"translate", "recheck", "same", "unprotect", "purge", "free"}

(* Code is the same while the pages it lies in are.                        *)
LEMMA CodeAtSame ==
  ASSUME NEW a \in Addr, \A p \in PagesOf[a] : mem'[p] = mem[p]
  PROVE  CodeAt(a)' = CodeAt(a)
  BY DEF CodeAt

(* Steps that leave memory, its protection and the code of the blocks.     *)
LEMMA CodeKeeps ==
  ASSUME TypeInv, CodeOK, mem' = mem, \A p \in Page : dyn[p] => dyn'[p],
         \A b \in Block : Root(b)' /\ heap'[b].native =>
           /\ Root(b) /\ heap[b].native
           /\ heap'[b].hash = heap[b].hash /\ heap'[b].code = heap[b].code
           /\ heap'[b].addr = heap[b].addr
           /\ heap[b].need_test => heap'[b].need_test
  PROVE  CodeOK'
<1> SUFFICES ASSUME NEW b \in Block, Root(b)', heap'[b].native
             PROVE  /\ heap'[b].hash = heap'[b].code
                    /\ ~heap'[b].need_test =>
                         /\ heap'[b].code = CodeAt(heap[b].addr)'
                         /\ \A p \in PagesOf[heap'[b].addr] : dyn'[p]
  BY DEF CodeOK
<1>1. /\ Root(b) /\ heap[b].native
      /\ heap'[b].hash = heap[b].hash /\ heap'[b].code = heap[b].code
      /\ heap'[b].addr = heap[b].addr
      /\ heap[b].need_test => heap'[b].need_test
  OBVIOUS
<1>2. PICK a \in Addr : a = heap[b].addr
  BY CellTypes DEF TypeInv, TypeOK
<1>3. PagesOf[a] \subseteq Page
  BY DynablockAssumption
<1>4. CodeAt(a)' = CodeAt(a)
  BY CodeAtSame
<1>5. CodeAt(heap[b].addr)' = CodeAt(a)
  BY <1>1, <1>2, <1>4 DEF CodeAt
<1>6. /\ heap[b].hash = heap[b].code
      /\ ~heap[b].need_test =>
           /\ heap[b].code = CodeAt(a)
           /\ \A p \in PagesOf[a] : dyn[p]
  BY <1>1, <1>2 DEF CodeOK
<1> QED  BY <1>1, <1>2, <1>3, <1>5, <1>6

(* A call that relies on nothing.                                          *)
LEMMA NothingRelied ==
  ASSUME NEW CONSTANT t, pc'[t] \notin Relying
  PROVE  FillOK(t)'
  BY DEF Relying, FillOK

(* Steps that leave the blocks and memory, towards a label that relies on  *)
(* nothing.                                                                *)
LEMMA CodeMove ==
  ASSUME NEW CONSTANT t, Thread = {t}, TypeInv, CodeInv(t),
         \/ FillHot(t) \/ FillProtect(t) \/ FillNull(t) \/ FillSegv(t) \/ CancelFill(t)
         \/ FillWritten(t) \/ FillNoMemory(t) \/ UnlockFilled(t)
         \/ \E a \in Entry : Get(t, a)
         \/ \E p \in Page : Fault(t, p)
         \/ AddFound(t) \/ AddAppeared(t) \/ Return(t) \/ Test(t) \/ TryLock(t)
         \/ ValidateHot(t) \/ Again(t) \/ UnlockReturn(t)
  PROVE  CodeInv(t)'
<1>0. pc \in [Thread -> Label] /\ t \in Thread
  BY SoloTypes
<1>1. heap' = heap /\ mem' = mem
  BY DEF FillHot, FillProtect, FillNull, FillSegv, CancelFill, FillWritten, FillNoMemory,
         UnlockFilled, Get, Fault, AddFound, AddAppeared, Return, Test, TryLock, ValidateHot,
         Again, UnlockReturn, guest, tables
<1>2. \A p \in Page : dyn[p] => dyn'[p]
  BY DEF FillHot, FillProtect, FillNull, FillSegv, CancelFill, FillWritten, FillNoMemory,
         UnlockFilled, Get, Fault, AddFound, AddAppeared, Return, Test, TryLock, ValidateHot,
         Again, UnlockReturn, guest, Protect
<1>3. CodeOK'
  BY <1>1, <1>2, CodeKeeps DEF CodeInv, Root
<1>4. \E l \in Label \ Relying : Goto(t, l)
  BY DEF FillHot, FillProtect, FillNull, FillSegv, CancelFill, FillWritten, FillNoMemory,
         UnlockFilled, Get, Fault, AddFound, AddAppeared, Return, Test, TryLock, ValidateHot,
         Again, UnlockReturn, Leave, Label, Relying
<1>5. pc'[t] \notin Relying
  BY <1>0, <1>4 DEF Goto
<1> QED  BY <1>3, <1>5, NothingRelied DEF CodeInv

(* Steps that leave the blocks and memory, towards a label that relies on  *)
(* what the step has read.                                                 *)
LEMMA CodeRead ==
  ASSUME NEW CONSTANT t, Thread = {t}, TypeInv, CodeInv(t),
         \/ FillHash(t) \/ ValidateSame(t)
         \/ \E b \in Block : FreeDynablock(t, b)
  PROVE  CodeInv(t)'
<1>0. /\ pc \in [Thread -> Label] /\ loc \in [Thread -> Local] /\ t \in Thread /\ loc[t] \in Local
      /\ loc[t].req \in Addr /\ dyn \in [Page -> BOOLEAN]
  BY SoloTypes
<1>1. heap' = heap /\ mem' = mem /\ direct' = direct
  BY DEF FillHash, ValidateSame, FreeDynablock, guest, tables
<1>2. \A p \in Page : dyn[p] => dyn'[p]
  BY DEF FillHash, ValidateSame, FreeDynablock, guest, Protect
<1>3. CodeOK'
  BY <1>1, <1>2, CodeKeeps DEF CodeInv, Root
<1>4. CASE FillHash(t)
  <2>1. PICK a \in Addr : a = loc[t].req
    BY <1>0
  <2>2. pc'[t] = "translate" /\ loc'[t] = [loc[t] EXCEPT !.hash = CodeAt(a)]
    BY <1>0, <1>4, <2>1 DEF FillHash, Goto
  <2>3. loc'[t].req = a /\ loc'[t].hash = CodeAt(a)
    BY <1>0, <2>1, <2>2 DEF Local
  <2>4. PagesOf[a] \subseteq Page /\ FirstPage[a] \in Page
    BY DynablockAssumption
  <2>5. \A p \in PagesOf[a] : dyn'[p]
    <3>1. CASE PagesOf[a] = {FirstPage[a]}
      BY <1>2, <1>4, <2>1, <2>4, <3>1 DEF FillHash
    <3>2. CASE PagesOf[a] # {FirstPage[a]}
      BY <1>4, <2>1, <2>4, <3>2 DEF FillHash, Protect
    <3> QED  BY <3>1, <3>2
  <2>6. CodeAt(a)' = CodeAt(a)
    BY <1>1, CodeAtSame
  <2>7. CodeAt(loc[t].req)' = CodeAt(a)
    BY <2>3, <2>6 DEF CodeAt
  <2>8. FillOK(t)'
    BY <2>2, <2>3, <2>5, <2>7 DEF FillOK
  <2> QED  BY <1>3, <2>8 DEF CodeInv
<1>5. CASE ValidateSame(t)
  <2>1. /\ pc'[t] = "same" /\ loc' = loc
        /\ CodeAt(heap[loc[t].cur].addr) = heap[loc[t].cur].hash
    BY <1>0, <1>5 DEF ValidateSame, Goto
  <2>2. FillOK(t)'
    BY <1>1, <2>1 DEF FillOK, CodeAt
  <2> QED  BY <1>3, <2>2 DEF CodeInv
<1>6. CASE \E b \in Block : FreeDynablock(t, b)
  <2>1. PICK b \in Block : FreeDynablock(t, b)
    BY <1>6
  <2>2. /\ pc[t] = "purge" /\ pc'[t] \in {"purge", "free"}
        /\ loc'[t] = [loc[t] EXCEPT !.todo = loc[t].todo \ {b}, !.cur = b]
    BY <1>0, <2>1 DEF FreeDynablock, Goto
  <2>3. loc'[t].page = loc[t].page
    BY <1>0, <2>2 DEF Local
  <2>4. FillOK(t)'
    BY <1>1, <2>2, <2>3 DEF FillOK, CodeInv
  <2> QED  BY <1>3, <2>4 DEF CodeInv
<1> QED  BY <1>4, <1>5, <1>6

(* Blocks are made, filled, published and freed: none becomes a clean one. *)
LEMMA CodeBlocks ==
  ASSUME NEW CONSTANT t, Thread = {t}, TypeInv, BlockInv(t), CodeInv(t),
         \/ AddNew(t) \/ FillNoDynarec(t) \/ FillTranslate(t) \/ Drop(t) \/ Publish(t)
         \/ ValidateChanged(t) \/ FreeLocked(t)
  PROVE  CodeInv(t)'
<1>0. /\ pc \in [Thread -> Label] /\ loc \in [Thread -> Local] /\ t \in Thread /\ loc[t] \in Local
      /\ loc[t].req \in Addr /\ heap \in [Block -> Cell] /\ NoBlock \notin Block
  BY SoloTypes
<1>1. mem' = mem /\ dyn' = dyn
  BY DEF AddNew, FillNoDynarec, FillTranslate, Drop, Publish, ValidateChanged, FreeLocked, guest
<1>2. CASE AddNew(t)
  <2>1. PICK b \in Block : heap' = [heap EXCEPT ![b] = NewCell(loc[t].req)]
    BY <1>2 DEF AddNew
  <2>2. ~heap'[b].native /\ \A x \in Block \ {b} : heap'[x] = heap[x]
    BY <1>0, <2>1, NewFields
  <2>3. CodeOK'
    BY <1>1, <2>2, CodeKeeps DEF CodeInv, Root
  <2>4. pc'[t] \notin Relying
    BY <1>0, <1>2 DEF AddNew, Goto, Relying
  <2> QED  BY <2>3, <2>4, NothingRelied DEF CodeInv
<1>3. CASE FillNoDynarec(t) \/ FillTranslate(t)
  <2>1. PICK c \in Block : c = loc[t].cur /\ ~heap[c].native
    BY <1>3 DEF FillNoDynarec, FillTranslate, BlockInv, CallOK, CallAt, TypeInv, PointerHeld
  <2>2. /\ \A x \in Block \ {c} : heap'[x] = heap[x]
        /\ \/ FillNoDynarec(t) /\ heap'[c] = [heap[c] EXCEPT !.done = TRUE]
           \/ FillTranslate(t) /\ heap'[c] = [heap[c] EXCEPT !.code = CodeAt(loc[t].req)]
    BY <1>0, <1>3, <2>1 DEF FillNoDynarec, FillTranslate
  <2>3. heap[c] \in Cell
    BY <1>0
  <2>4. ~heap'[c].native
    BY <2>1, <2>2, <2>3 DEF Cell
  <2>5. CodeOK'
    BY <1>1, <2>2, <2>4, CodeKeeps DEF CodeInv, Root
  <2>6. CASE FillNoDynarec(t)
    <3>1. pc'[t] \notin Relying
      BY <1>0, <2>6 DEF FillNoDynarec, Goto, Relying
    <3> QED  BY <2>5, <3>1, NothingRelied DEF CodeInv
  <2>7. CASE FillTranslate(t)
    <3>1. pc[t] = "translate" /\ pc'[t] = "recheck" /\ loc' = loc
      BY <1>0, <2>7 DEF FillTranslate, Goto
    <3>2. heap'[c] = [heap[c] EXCEPT !.code = CodeAt(loc[t].req)]
      BY <1>0, <2>1, <2>7 DEF FillTranslate
    <3>3. heap'[c].code = CodeAt(loc[t].req)
      BY <2>3, <3>2 DEF Cell
    <3>4. CodeAt(loc[t].req)' = CodeAt(loc[t].req)
      BY <1>1, <3>1 DEF CodeAt
    <3>5. FillOK(t)'
      BY <1>1, <2>1, <3>1, <3>3, <3>4 DEF FillOK, CodeInv
    <3> QED  BY <2>5, <3>5 DEF CodeInv
  <2> QED  BY <1>3, <2>6, <2>7
<1>4. CASE Drop(t)
  <2>1. PICK r \in Block : r = loc[t].cur
    BY <1>4 DEF Drop, TypeInv, PointerHeld
  <2>2. heap' = [heap EXCEPT ![r] = DeadCell]
    BY <1>4, <2>1, SoloFreed DEF Drop
  <2>3. ~heap'[r].live /\ \A x \in Block \ {r} : heap'[x] = heap[x]
    BY <1>0, <2>2, DeadFields
  <2>4. CodeOK'
    BY <1>1, <2>3, CodeKeeps DEF CodeInv, Root
  <2>5. pc'[t] \in {"unlock", "run"}
    BY <1>0, <1>4 DEF Drop, Leave, Goto
  <2> QED  BY <2>4, <2>5, NothingRelied DEF CodeInv, Relying
<1>5. CASE Publish(t)
  <2>1. ASSUME NEW b \in Block
        PROVE  heap[b] \in Cell /\ (heap'[b] = heap[b] \/ heap'[b] = [heap[b] EXCEPT !.done = TRUE])
    BY <1>0, <1>5 DEF Publish
  <2>2. ASSUME NEW b \in Block
        PROVE  /\ heap'[b].live <=> heap[b].live
               /\ heap'[b].father = heap[b].father
               /\ heap'[b].native <=> heap[b].native
               /\ heap'[b].hash = heap[b].hash /\ heap'[b].code = heap[b].code
               /\ heap'[b].addr = heap[b].addr
               /\ heap[b].need_test => heap'[b].need_test
    <3>1. CASE heap'[b] = heap[b]
      BY <3>1
    <3>2. CASE heap'[b] = [heap[b] EXCEPT !.done = TRUE]
      BY <2>1, <3>2 DEF Cell
    <3> QED  BY <2>1, <3>1, <3>2
  <2>3. CodeOK'
    BY <1>1, <2>2, CodeKeeps DEF CodeInv, Root
  <2>4. pc'[t] \notin Relying
    BY <1>0, <1>5 DEF Publish, Goto, Relying
  <2> QED  BY <2>3, <2>4, NothingRelied DEF CodeInv
<1>6. CASE ValidateChanged(t) \/ FreeLocked(t)
  <2>1. PICK r \in Block : r = loc[t].cur /\ Root(r)
    BY <1>6 DEF ValidateChanged, FreeLocked, BlockInv, CallOK, CallAt, TypeInv, PointerHeld
  <2>2. ~heap[r].gone
    BY <2>1 DEF BlockInv, Tree, Root
  <2>3. Release(t, r)
    BY <1>6, <2>1, <2>2 DEF ValidateChanged, FreeLocked
  <2>4. /\ \A x \in Block : heap'[x].live => heap[x].live /\ heap'[x] = heap[x]
        /\ \A a \in Addr : direct[a] = NoBlock => direct'[a] = NoBlock
    BY <2>1, <2>3, ReleaseFreed
  <2>5. CodeOK'
    BY <1>1, <2>4, CodeKeeps DEF CodeInv, Root
  <2>6. CASE ValidateChanged(t)
    <3>1. pc'[t] \notin Relying
      BY <1>0, <2>6 DEF ValidateChanged, Goto, Relying
    <3> QED  BY <2>5, <3>1, NothingRelied DEF CodeInv
  <2>7. CASE FreeLocked(t)
    <3>1. pc[t] = "free" /\ pc'[t] = "purge" /\ loc' = loc
      BY <1>0, <2>7 DEF FreeLocked, Goto
    <3>2. FillOK(t)'
      BY <2>4, <3>1 DEF FillOK, CodeInv
    <3> QED  BY <2>5, <3>2 DEF CodeInv
  <2> QED  BY <1>6, <2>6, <2>7
<1> QED  BY <1>2, <1>3, <1>4, <1>5, <1>6

(* While memory has not changed under a translation, it is not cancelled.  *)
LEMMA NoFillChanged ==
  ASSUME NEW CONSTANT t, CodeInv(t)
  PROVE  ~FillChanged(t)
  BY DEF CodeInv, FillOK, FillChanged, Changed

(* A complete block was translated from what memory holds.                 *)
LEMMA CodeFinish ==
  ASSUME NEW CONSTANT t, Thread = {t}, TypeInv, BlockInv(t), CodeInv(t), FillFinish(t)
  PROVE  CodeInv(t)'
<1>0. /\ pc \in [Thread -> Label] /\ loc \in [Thread -> Local] /\ t \in Thread
      /\ loc[t].req \in Addr /\ heap \in [Block -> Cell] /\ NoBlock \notin Block
  BY SoloTypes
<1> DEFINE a == loc[t].req
           c == loc[t].cur
           D == {s \in SonsOf[a] : direct[s] = NoBlock}
           SonAt(s) == [NewCell(s) EXCEPT !.native = TRUE, !.sized = TRUE, !.father = c]
<1>1. /\ pc[t] = "recheck" /\ pc'[t] = "filled" /\ mem' = mem /\ dyn' = dyn
  BY <1>0 DEF FillFinish, Goto, guest
<1>2. c \in Block /\ Root(c) /\ heap[c].addr = a
  BY <1>1 DEF BlockInv, CallOK, CallAt, TypeInv, PointerHeld
<1>3. PICK son \in [D -> {b \in Block : ~heap[b].live}] :
        heap' = [b \in Block |->
             IF b = c THEN Filled(b, a, {son[s] : s \in DOMAIN son})
             ELSE IF \E s \in DOMAIN son : son[s] = b
                  THEN SonAt(CHOOSE s \in DOMAIN son : son[s] = b)
                  ELSE heap[b]]
  BY DEF FillFinish
<1>4. \A s : SonAt(s).father = c
  BY SonFields
<1> HIDE DEF SonAt
<1>5. ASSUME NEW b \in Block, b # c, Root(b)'
      PROVE  heap'[b] = heap[b]
  <2>1. heap'[b] = heap[b] \/ \E s : heap'[b] = SonAt(s)
    BY <1>3, <1>5
  <2> QED  BY <1>0, <1>2, <1>4, <1>5, <2>1 DEF Root
<1>6. /\ heap'[c].hash = CodeAt(a) /\ heap'[c].code = heap[c].code
      /\ heap'[c].addr = a
  <2> DEFINE R == {son[s] : s \in DOMAIN son}
  <2>1. heap'[c] = Filled(c, a, R)
    BY <1>2, <1>3
  <2>2. heap[c] \in Cell
    BY <1>0, <1>2
  <2> HIDE DEF R
  <2> QED  BY <1>2, <2>1, <2>2 DEF Filled, Cell
<1>7. heap[c].code = CodeAt(a) /\ \A p \in PagesOf[a] : dyn[p]
  BY <1>1 DEF CodeInv, FillOK
<1>8. CodeOK'
  <2> SUFFICES ASSUME NEW b \in Block, Root(b)', heap'[b].native
               PROVE  /\ heap'[b].hash = heap'[b].code
                      /\ ~heap'[b].need_test =>
                           /\ heap'[b].code = CodeAt(heap[b].addr)'
                           /\ \A p \in PagesOf[heap'[b].addr] : dyn'[p]
    BY DEF CodeOK
  <2>1. CodeAt(heap[b].addr)' = [p \in PagesOf[heap'[b].addr] |-> mem[p]]
    BY <1>1 DEF CodeAt
  <2>2. CASE b = c
    BY <1>1, <1>6, <1>7, <2>1, <2>2 DEF CodeAt
  <2>3. CASE b # c
    <3>1. heap'[b] = heap[b]
      BY <1>5, <2>3
    <3> QED  BY <1>1, <2>1, <3>1 DEF CodeInv, CodeOK, Root, CodeAt
  <2> QED  BY <2>2, <2>3
<1>9. pc'[t] \notin Relying
  BY <1>1 DEF Relying
<1> QED  BY <1>8, <1>9, NothingRelied DEF CodeInv

(* A block is clean again after its code was found unchanged.              *)
LEMMA CodeRevalidate ==
  ASSUME NEW CONSTANT t, Thread = {t}, TypeInv, BlockInv(t), CodeInv(t), Revalidate(t)
  PROVE  CodeInv(t)'
<1>0. /\ pc \in [Thread -> Label] /\ t \in Thread /\ heap \in [Block -> Cell]
  BY SoloTypes
<1>1. pc[t] = "same" /\ pc'[t] = "unlock" /\ mem' = mem
  BY <1>0 DEF Revalidate, Goto
<1>2. PICK c \in Block : c = loc[t].cur /\ Root(c) /\ heap[c].native
  BY <1>1 DEF BlockInv, CallOK, CallAt, TypeInv, PointerHeld
<1>3. PICK a \in Addr : a = heap[c].addr
  BY <1>0, CellTypes
<1>4. /\ heap' = [heap EXCEPT ![c] = [heap[c] EXCEPT !.need_test = FALSE]]
      /\ dyn' = [p \in Page |-> dyn[p] \/ p \in PagesOf[a]]
  BY <1>2, <1>3 DEF Revalidate, Protect
<1>5. /\ heap'[c].hash = heap[c].hash /\ heap'[c].code = heap[c].code /\ heap'[c].addr = a
      /\ \A x \in Block \ {c} : heap'[x] = heap[x]
  <2>1. heap[c] \in Cell /\ heap'[c] = [heap[c] EXCEPT !.need_test = FALSE]
    BY <1>0, <1>4
  <2> QED  BY <1>0, <1>3, <1>4, <2>1 DEF Cell
<1>6. CodeAt(a) = heap[c].hash /\ heap[c].hash = heap[c].code
  BY <1>1, <1>2, <1>3 DEF CodeInv, CodeOK, FillOK
<1>7. CodeOK'
  <2> SUFFICES ASSUME NEW b \in Block, Root(b)', heap'[b].native
               PROVE  /\ heap'[b].hash = heap'[b].code
                      /\ ~heap'[b].need_test =>
                           /\ heap'[b].code = CodeAt(heap[b].addr)'
                           /\ \A p \in PagesOf[heap'[b].addr] : dyn'[p]
    BY DEF CodeOK
  <2>1. CodeAt(heap[b].addr)' = [p \in PagesOf[heap'[b].addr] |-> mem[p]]
    BY <1>1 DEF CodeAt
  <2>2. CASE b = c
    <3>1. PagesOf[a] \subseteq Page
      BY DynablockAssumption
    <3> QED  BY <1>4, <1>5, <1>6, <2>1, <2>2, <3>1 DEF CodeAt
  <2>3. CASE b # c
    <3>1. heap'[b] = heap[b] /\ heap[b].addr \in Addr
      BY <1>0, <1>5, <2>3, CellTypes
    <3>2. PagesOf[heap[b].addr] \subseteq Page
      BY <3>1, DynablockAssumption
    <3> QED  BY <1>4, <2>1, <3>1, <3>2 DEF CodeInv, CodeOK, Root, CodeAt
  <2> QED  BY <2>2, <2>3
<1> QED  BY <1>1, <1>7, NothingRelied DEF CodeInv, Relying

(* The handler marks every block that has code in the page it unprotects.  *)
LEMMA CodeMark ==
  ASSUME NEW CONSTANT t, Thread = {t}, TypeInv, BlockInv(t), CodeInv(t), Mark(t)
  PROVE  CodeInv(t)'
<1>0. /\ pc \in [Thread -> Label] /\ loc \in [Thread -> Local] /\ t \in Thread
      /\ heap \in [Block -> Cell] /\ NoBlock \notin Block
  BY SoloTypes
<1>1. pc[t] = "mark" /\ mem' = mem /\ dyn' = dyn
  BY DEF Mark
<1>2. CASE ~dyn[loc[t].page]
  <2>1. heap' = heap /\ pc'[t] = "run"
    BY <1>0, <1>2 DEF Mark, Leave, Goto
  <2>2. CodeOK'
    BY <1>1, <2>1, CodeKeeps DEF CodeInv, Root
  <2> QED  BY <2>1, <2>2, NothingRelied DEF CodeInv, Relying
<1>3. CASE dyn[loc[t].page]
  <2> DEFINE hit == {direct[a] : a \in {a \in Addr : direct[a] # NoBlock}}
             M == {Father(b) : b \in {b \in hit : loc[t].page \in Spans(b)}}
             new == {b \in M : ~heap[b].need_test}
  <2>1. loc' = loc /\ pc'[t] = "unprotect"
    BY <1>0, <1>3 DEF Mark, Goto
  <2>2. heap' = [b \in Block |-> IF b \in new THEN [heap[b] EXCEPT !.need_test = TRUE]
                                 ELSE heap[b]]
    BY <1>3 DEF Mark, MarkRange
  <2>3. ASSUME NEW b \in Block, Root(b), heap[b].native, loc[t].page \in PagesOf[heap[b].addr],
               ~heap[b].need_test
        PROVE  b \in new
    <3>1. direct[heap[b].addr] = b /\ heap[b].addr \in Addr
      BY <1>0, <1>1, <2>3, NoneDoomed, CellTypes DEF BlockInv, Registered, Root
    <3>2. b \in hit
      BY <1>0, <3>1
    <3>3. loc[t].page \in Spans(b)
      BY <2>3 DEF Spans, BlockInv, Tree, Root
    <3>4. Father(b) = b
      BY <2>3 DEF Father, Root
    <3> QED  BY <2>3, <3>2, <3>3, <3>4
  <2> HIDE DEF new
  <2>4. ASSUME NEW b \in Block
        PROVE  /\ heap'[b].live <=> heap[b].live
               /\ heap'[b].father = heap[b].father
               /\ heap'[b].native <=> heap[b].native
               /\ heap'[b].hash = heap[b].hash /\ heap'[b].code = heap[b].code
               /\ heap'[b].addr = heap[b].addr
               /\ heap[b].need_test => heap'[b].need_test
               /\ b \in new => heap'[b].need_test
    <3>1. heap[b] \in Cell
      BY <1>0
    <3>2. CASE b \notin new
      BY <2>2, <3>2
    <3>3. CASE b \in new
      <4>1. heap'[b] = [heap[b] EXCEPT !.need_test = TRUE]
        BY <2>2, <3>3
      <4> QED  BY <3>1, <4>1 DEF Cell
    <3> QED  BY <3>2, <3>3
  <2>5. CodeOK'
    BY <1>1, <2>4, CodeKeeps DEF CodeInv, Root
  <2>6. FillOK(t)'
    BY <2>1, <2>3, <2>4 DEF FillOK, Root
  <2> QED  BY <2>5, <2>6 DEF CodeInv
<1> QED  BY <1>2, <1>3

(* The page becomes writable: its blocks were marked before.               *)
LEMMA CodeUnprotect ==
  ASSUME NEW CONSTANT t, Thread = {t}, TypeInv, CodeInv(t), Unprotect(t)
  PROVE  CodeInv(t)'
<1>0. /\ pc \in [Thread -> Label] /\ t \in Thread /\ heap \in [Block -> Cell]
      /\ dyn \in [Page -> BOOLEAN]
  BY SoloTypes
<1>1. /\ pc[t] = "unprotect" /\ pc'[t] = "run" /\ mem' = mem /\ heap' = heap
      /\ dyn' = [dyn EXCEPT ![loc[t].page] = FALSE]
  BY <1>0 DEF Unprotect, Leave, Goto, tables
<1>2. ASSUME NEW b \in Block, Root(b), heap[b].native, ~heap[b].need_test
      PROVE  \A p \in PagesOf[heap[b].addr] : dyn'[p]
  <2>1. loc[t].page \notin PagesOf[heap[b].addr]
    BY <1>1, <1>2 DEF CodeInv, FillOK
  <2>2. \A p \in PagesOf[heap[b].addr] : dyn[p]
    BY <1>2 DEF CodeInv, CodeOK
  <2> QED  BY <1>0, <1>1, <2>1, <2>2
<1>3. CodeOK'
  BY <1>1, <1>2 DEF CodeInv, CodeOK, Root, CodeAt
<1> QED  BY <1>1, <1>3, NothingRelied DEF CodeInv, Relying

(* A store goes through only where no clean block has code.                *)
LEMMA CodeWrite ==
  ASSUME NEW CONSTANT t, Thread = {t}, TypeInv, CodeInv(t),
         NEW p \in Page, NEW c \in Content, Write(t, p, c)
  PROVE  CodeInv(t)'
<1>0. /\ mem \in [Page -> Content] /\ heap \in [Block -> Cell]
  BY SoloTypes
<1>1. /\ pc[t] = "run" /\ pc' = pc /\ heap' = heap /\ dyn' = dyn /\ ~dyn[p]
      /\ \A q \in Page \ {p} : mem'[q] = mem[q]
  BY <1>0 DEF Write, tables
<1>2. ASSUME NEW b \in Block, Root(b), heap[b].native, ~heap[b].need_test
      PROVE  heap[b].code = CodeAt(heap[b].addr)'
  <2>1. PICK a \in Addr : a = heap[b].addr
    BY <1>0, CellTypes
  <2>2. /\ heap[b].code = CodeAt(a)
        /\ \A q \in PagesOf[a] : dyn[q]
    BY <1>2, <2>1 DEF CodeInv, CodeOK
  <2>3. \A q \in PagesOf[a] : mem'[q] = mem[q]
    BY <1>1, <2>2, DynablockAssumption
  <2>4. CodeAt(a)' = CodeAt(a)
    BY <2>3, CodeAtSame
  <2>5. CodeAt(heap[b].addr)' = CodeAt(a)
    BY <1>1, <2>1, <2>4 DEF CodeAt
  <2> QED  BY <2>2, <2>5
<1>3. CodeOK'
  BY <1>1, <1>2 DEF CodeInv, CodeOK, Root
<1> QED  BY <1>1, <1>3, NothingRelied DEF CodeInv, Relying

(* munmap takes the blocks that start in its page out of direct ...        *)
LEMMA CodeFreeRange ==
  ASSUME NEW CONSTANT t, Thread = {t}, TypeInv, CodeInv(t), NEW p \in Unmapped, FreeRange(t, p)
  PROVE  CodeInv(t)'
<1>0. /\ pc \in [Thread -> Label] /\ loc \in [Thread -> Local] /\ t \in Thread /\ loc[t] \in Local
      /\ direct \in [Addr -> Ptr]
  BY SoloTypes
<1> DEFINE A == {a \in Addr : FirstPage[a] = p /\ direct[a] # NoBlock}
           T == {Father(direct[a]) : a \in A}
<1>1. /\ pc'[t] = "purge" /\ mem' = mem /\ dyn' = dyn /\ heap' = heap
      /\ direct' = [a \in Addr |-> IF a \in A THEN NoBlock ELSE direct[a]]
      /\ loc'[t] = [loc[t] EXCEPT !.page = p, !.todo = T]
  BY <1>0 DEF FreeRange, Goto, guest
<1>2. loc'[t].page = p
  BY <1>0, <1>1 DEF Local
<1>3. CodeOK'
  BY <1>1, CodeKeeps DEF CodeInv, Root
<1>4. FillOK(t)'
  BY <1>1, <1>2 DEF FillOK
<1> QED  BY <1>3, <1>4 DEF CodeInv

(* ... so that when the page goes, no block is left with code in it.       *)
LEMMA CodeMunmap ==
  ASSUME NEW CONSTANT t, Thread = {t}, TypeInv, BlockInv(t), CodeInv(t),
         \A a \in Addr, p \in Unmapped : p \in PagesOf[a] => FirstPage[a] = p,
         NEW c \in Content, Munmap(t, c)
  PROVE  CodeInv(t)'
<1>0. /\ pc \in [Thread -> Label] /\ t \in Thread /\ heap \in [Block -> Cell]
      /\ mem \in [Page -> Content] /\ dyn \in [Page -> BOOLEAN] /\ NoBlock \notin Block
  BY SoloTypes
<1>1. /\ pc[t] = "purge" /\ loc[t].todo = {} /\ pc'[t] = "run" /\ heap' = heap
      /\ mem' = [mem EXCEPT ![loc[t].page] = c]
      /\ dyn' = [dyn EXCEPT ![loc[t].page] = FALSE]
  BY <1>0 DEF Munmap, Leave, Goto, tables
<1>2. ASSUME NEW b \in Block, Root(b), heap[b].native, ~heap[b].need_test
      PROVE  /\ heap[b].code = CodeAt(heap[b].addr)'
             /\ \A q \in PagesOf[heap[b].addr] : dyn'[q]
  <2>1. PICK a \in Addr : a = heap[b].addr
    BY <1>0, CellTypes
  <2>2. direct[a] = b
    BY <1>1, <1>2, <2>1 DEF BlockInv, Registered, Doomed, DoomedAt, Root
  <2>3. loc[t].page \notin PagesOf[a]
    BY <1>0, <1>1, <2>2 DEF CodeInv, FillOK
  <2>4. heap[b].code = CodeAt(a) /\ \A q \in PagesOf[a] : dyn[q]
    BY <1>2, <2>1 DEF CodeInv, CodeOK
  <2>5. \A q \in PagesOf[a] : mem'[q] = mem[q] /\ dyn'[q] = dyn[q]
    BY <1>0, <1>1, <2>3, DynablockAssumption
  <2>6. CodeAt(a)' = CodeAt(a)
    BY <2>5, CodeAtSame
  <2>7. CodeAt(heap[b].addr)' = CodeAt(a)
    BY <1>1, <2>1, <2>6 DEF CodeAt
  <2> QED  BY <2>1, <2>4, <2>5, <2>7
<1>3. CodeOK'
  BY <1>1, <1>2 DEF CodeInv, CodeOK, Root
<1> QED  BY <1>1, <1>3, NothingRelied DEF CodeInv, Relying

(* There is no block at the start.                                         *)
LEMMA CodeInit ==
  ASSUME NEW CONSTANT t, Thread = {t}, Init
  PROVE  CodeInv(t)
<1>1. \A b \in Block : ~heap[b].live
  BY DeadFields DEF Init
<1> QED  BY <1>1 DEF Init, CodeInv, CodeOK, FillOK, Root

(* Every step of a program with one thread keeps blocks and memory in      *)
(* step.                                                                   *)
LEMMA CodeStep ==
  ASSUME NEW CONSTANT t, Thread = {t}, TypeInv, BlockInv(t), CodeInv(t), [Next]_vars,
         \A a \in Addr, p \in Unmapped : p \in PagesOf[a] => FirstPage[a] = p
  PROVE  CodeInv(t)'
<1>1. CASE UNCHANGED vars
  BY <1>1 DEF vars, CodeInv, CodeOK, FillOK, Root, CodeAt
<1>2. CASE Next
  <2>1. Guest(t) \/ DBGetBlock(t) \/ Handler(t) \/ Purge(t)
    BY <1>2 DEF Next
  <2>2. CASE Guest(t)
    BY <2>2, CodeMove, CodeWrite, CodeFreeRange DEF Guest
  <2>3. CASE DBGetBlock(t)
    BY <2>3, CodeMove, CodeRead, CodeBlocks, NoFillChanged, CodeFinish, CodeRevalidate
       DEF DBGetBlock, Fill
  <2>4. CASE Handler(t)
    BY <2>4, CodeMark, CodeUnprotect DEF Handler
  <2>5. CASE Purge(t)
    BY <2>5, CodeRead, CodeBlocks, CodeMunmap DEF Purge
  <2> QED  BY <2>1, <2>2, <2>3, <2>4, <2>5
<1> QED  BY <1>1, <1>2

(* The father of a clean block in direct is a root that CodeOK speaks of.  *)
LEMMA CleanFather ==
  ASSUME NEW CONSTANT t, Thread = {t}, TypeInv, BlockInv(t), CodeInv(t),
         NEW a \in Addr, direct[a] # NoBlock, Clean(direct[a])
  PROVE  /\ heap[Father(direct[a])].code = CodeAt(heap[Father(direct[a])].addr)
         /\ \A p \in PagesOf[heap[Father(direct[a])].addr] : dyn[p]
<1>1. PICK b \in Block : b = direct[a] /\ heap[b].live /\ Clean(b)
  BY SoloTypes DEF Ptr, BlockInv, DirectOK
<1>2. /\ Father(b) \in Block /\ Root(Father(b)) /\ heap[Father(b)].native
      /\ ~heap[Father(b)].need_test
  BY <1>1, SoloTypes, FatherRoot DEF BlockInv, Clean
<1> QED  BY <1>1, <1>2 DEF CodeInv, CodeOK

(* A program with one thread, which unmaps only pages that code starts in  *)
(* if it lies there: a block that is run without a test was translated     *)
(* from what memory holds now.                                             *)
THEOREM CleanAlwaysMatchesMemory ==
  ASSUME NEW CONSTANT t, Thread = {t},
         \A a \in Addr, p \in Unmapped : p \in PagesOf[a] => FirstPage[a] = p
  PROVE  Spec => []CleanMatchesMemory
<1>1. TypeInv /\ BlockInv(t) /\ CodeInv(t) => CleanMatchesMemory
  BY CleanFather DEF CleanMatchesMemory
<1>2. Init => BlockInv(t) /\ CodeInv(t)
  BY SoloInit, CodeInit
<1>3. TypeInv /\ TypeInv' /\ BlockInv(t) /\ CodeInv(t) /\ [Next]_vars
        => BlockInv(t)' /\ CodeInv(t)'
  BY SoloStep, CodeStep
<1> QED  BY <1>1, <1>2, <1>3, TypeInit, TypeStep, PTL DEF Spec

(* Such a program never meets a page that it can write without a fault and *)
(* that holds code of a block which is run without a test.                 *)
THEOREM UnprotectedAlwaysMarked ==
  ASSUME NEW CONSTANT t, Thread = {t},
         \A a \in Addr, p \in Unmapped : p \in PagesOf[a] => FirstPage[a] = p
  PROVE  Spec => []UnprotectedAllMarked
<1>1. TypeInv /\ BlockInv(t) /\ CodeInv(t) => UnprotectedAllMarked
  BY CleanFather DEF UnprotectedAllMarked
<1>2. Init => BlockInv(t) /\ CodeInv(t)
  BY SoloInit, CodeInit
<1>3. TypeInv /\ TypeInv' /\ BlockInv(t) /\ CodeInv(t) /\ [Next]_vars
        => BlockInv(t)' /\ CodeInv(t)'
  BY SoloStep, CodeStep
<1> QED  BY <1>1, <1>2, <1>3, TypeInit, TypeStep, PTL DEF Spec

-----------------------------------------------------------------------------
(* The hot-page table.                                                     *)

(* The inductive invariant.  OnlyAddedPages needs IdleSlotsSingle: taking  *)
(* over an idle slot changes its first page and keeps its size.  The bound *)
(* on a run, part of the types, follows from its pages having been added.  *)
HotInv == HotTypeOK /\ IdleSlotsSingle /\ OnlyAddedPages

(* Giving one refusal shrinks a run or leaves it alone.                    *)
LEMMA CountDownInv ==
  ASSUME HotInv, NEW i \in Slot, i \in Active, CountDown(i),
         UNCHANGED <<hotpage, added, adds>>, lastAdded' = 0
  PROVE  HotInv'
<1> USE HotPageAssumption DEF HotInv, HotTypeOK
<1>0. hotpage_count[i] \in 1 .. Step
  BY DEF Active
<1>1. hotpage_count' \in [Slot -> 0 .. Step]
  BY <1>0 DEF CountDown
<1>2. hotpage_size' \in [Slot -> 0 .. MaxPage] /\ hotpages' \in Int
  BY DEF CountDown
<1>3. \A j \in Slot : hotpage_size'[j] \in 0 .. hotpage_size[j]
  BY DEF CountDown
<1>4. OnlyAddedPages'
  BY <1>3 DEF OnlyAddedPages, Region
<1>5. IdleSlotsSingle'
  BY <1>0 DEF CountDown, IdleSlotsSingle
<1> QED  BY <1>1, <1>2, <1>4, <1>5

(* Declaring a page hot adds that page to a run it touches, or starts a    *)
(* run of its own.                                                         *)
LEMMA AddInv ==
  ASSUME HotInv, NEW p \in HotPages, AddHotPage(p)
  PROVE  HotInv'
<1> USE HotPageAssumption DEF HotInv, HotTypeOK
<1>0. /\ adds' \in 0 .. MaxAdds
      /\ added' \in SUBSET HotPages
      /\ lastAdded' \in 0 .. MaxPage
      /\ added' = added \cup {p}
  BY DEF AddHotPage, HotPages
<1>a. p \in 1 .. MaxPage
  BY DEF HotPages
<1>b. ASSUME NEW i \in Slot, Rearm(i)
      PROVE  hotpage_count' \in [Slot -> 0 .. Step]
  BY <1>b DEF Rearm
<1>c. ASSUME NEW i \in Slot, Rearm(i),
             \A j \in Slot : j # i => hotpage_size'[j] = hotpage_size[j]
      PROVE  IdleSlotsSingle'
  BY <1>c DEF Rearm, IdleSlotsSingle
<1>1. ASSUME NEW i \in Slot, SameSlot(i, p)
      PROVE  HotInv'
  <2>1. HotTypeOK'
    BY <1>0, <1>1, <1>b DEF SameSlot
  <2>2. OnlyAddedPages'
    BY <1>0, <1>1 DEF SameSlot, OnlyAddedPages, Region
  <2> QED  BY <1>1, <1>c, <2>1, <2>2 DEF SameSlot
<1>2. ASSUME NEW i \in Slot, i \in Fits(p), GrowSlot(i, p)
      PROVE  HotInv'
  <2>1. hotpage[i] + hotpage_size[i] \in Region(i)
    BY DEF Region
  <2>2. hotpage[i] + hotpage_size[i] <= MaxPage
    BY <2>1 DEF OnlyAddedPages, HotPages
  <2>3. /\ \/ p = hotpage[i] + hotpage_size[i] + 1 /\ hotpage' = hotpage
           \/ p + 1 = hotpage[i] /\ hotpage' = [hotpage EXCEPT ![i] = p]
        /\ hotpage_size' = [hotpage_size EXCEPT ![i] = @ + 1]
    BY <1>2 DEF Fits, GrowSlot, JustAbove, JustBelow
  <2>4. hotpage' \in [Slot -> 0 .. MaxPage]
    BY <1>a, <2>3
  <2>5. hotpage_size[i] + 1 \in 0 .. MaxPage
    BY <1>a, <2>2, <2>3
  <2>6. hotpage_size' \in [Slot -> 0 .. MaxPage]
    BY <2>3, <2>5
  <2>7. \A j \in Slot : j # i => Region(j)' = Region(j)
    BY <2>3 DEF Region
  <2>8. Region(i)' \subseteq Region(i) \cup {p}
    BY <1>a, <2>3 DEF Region
  <2>9. OnlyAddedPages'
    BY <1>0, <2>7, <2>8 DEF OnlyAddedPages
  <2> QED  BY <1>0, <1>2, <1>b, <1>c, <2>3, <2>4, <2>6, <2>9 DEF GrowSlot
<1>3. ASSUME NEW i \in Slot, NewSlot(i, p)
      PROVE  HotInv'
  <2>1. hotpage' = [hotpage EXCEPT ![i] = p] /\ Rearm(i)
    BY <1>3 DEF NewSlot
  <2>2. hotpage' \in [Slot -> 0 .. MaxPage]
    BY <1>a, <2>1
  <2>3. hotpage_size' \in [Slot -> 0 .. MaxPage] /\ hotpages' \in Int
    BY <1>3 DEF NewSlot
  <2>4. Region(i)' = {p}
    <3>1. hotpage_size'[i] = 0
      BY <1>3 DEF NewSlot, IdleSlotsSingle
    <3> QED  BY <1>a, <2>1, <3>1 DEF Region
  <2>5. \A j \in Slot : j # i => Region(j)' = Region(j)
    BY <1>3, <2>1 DEF NewSlot, Region
  <2>6. OnlyAddedPages'
    BY <1>0, <2>4, <2>5 DEF OnlyAddedPages
  <2> QED  BY <1>0, <1>3, <1>b, <1>c, <2>1, <2>2, <2>3, <2>6 DEF NewSlot
<1> QED  BY <1>1, <1>2, <1>3 DEF AddHotPage, IsLowest

(* The invariant is inductive.                                             *)
LEMMA HotInvAlways == HotSpec => []HotInv
<1>1. HotInit => HotInv
  BY HotPageAssumption DEF HotInit, HotInv, HotTypeOK, IdleSlotsSingle, OnlyAddedPages, Region, Slot, HotPages
<1>2. HotInv /\ [HotNext]_hotVars => HotInv'
  <2> SUFFICES ASSUME HotInv, [HotNext]_hotVars PROVE HotInv'
    OBVIOUS
  <2>1. ASSUME NEW p \in HotPages, AddHotPage(p) PROVE HotInv'
    BY <2>1, AddInv
  <2>2. ASSUME NEW p \in HotPages, NEW q \in HotPages, AreaInHotPage(p, q) PROVE HotInv'
    <3>1. CASE UNCHANGED <<hotpage_size, hotpage_count, hotpages>>
      BY <2>2, <3>1, HotPageAssumption
      DEF AreaInHotPage, HotInv, HotTypeOK, IdleSlotsSingle, OnlyAddedPages, Region
    <3>2. ASSUME NEW i \in Slot, IsLowest(i, Hits(p, q)), CountDown(i) PROVE HotInv'
      BY <2>2, <3>2, CountDownInv DEF AreaInHotPage, IsLowest, Hits
    <3> QED  BY <2>2, <3>1, <3>2 DEF AreaInHotPage
  <2>3. CASE UNCHANGED hotVars
    BY <2>3 DEF hotVars, HotInv, HotTypeOK, IdleSlotsSingle, OnlyAddedPages, Region
  <2> QED  BY <2>1, <2>2, <2>3 DEF HotNext, IsInHotPage
<1> QED  BY <1>1, <1>2, PTL DEF HotSpec

(* Only declared pages are ever in the table, whatever NSlots, Step,       *)
(* MaxPage and MaxAdds are (dynablock.c, AddHotPage).                      *)
THEOREM OnlyAddedPagesAlways == HotSpec => []OnlyAddedPages
<1>1. HotInv => OnlyAddedPages
  BY DEF HotInv
<1> QED  BY <1>1, HotInvAlways, PTL

-----------------------------------------------------------------------------
(* There are finitely many slots in use.                                   *)
LEMMA ActiveFinite == IsFiniteSet(Active) /\ Cardinality(Active) \in Nat
<1>1. IsFiniteSet(Slot)
  BY HotPageAssumption, FS_Interval DEF Slot
<1> QED  BY <1>1, FS_Subset, FS_CardinalityType DEF Active

(* Arming a slot puts it among those in use.                               *)
LEMMA RearmActive ==
  ASSUME HotTypeOK, NEW i \in Slot, Rearm(i)
  PROVE  Cardinality(Active') = IF hotpage_count[i] = 0 THEN Cardinality(Active) + 1
                                ELSE Cardinality(Active)
<1>1. Active' = Active \cup {i}
  BY HotPageAssumption DEF Rearm, HotTypeOK, Active
<1>2. i \in Active <=> hotpage_count[i] # 0
  BY HotPageAssumption DEF HotTypeOK, Active
<1> QED  BY <1>1, <1>2, ActiveFinite, FS_AddElement

(* A refusal takes a slot out of use only if it was its last.              *)
LEMMA CountDownActive ==
  ASSUME HotTypeOK, NEW i \in Slot, i \in Active, CountDown(i)
  PROVE  Cardinality(Active') = IF hotpage_count[i] = 1 THEN Cardinality(Active) - 1
                                ELSE Cardinality(Active)
<1>1. Active' = IF hotpage_count[i] = 1 THEN Active \ {i} ELSE Active
  BY HotPageAssumption DEF CountDown, HotTypeOK, Active
<1> QED  BY <1>1, ActiveFinite, FS_RemoveElement

(* The counter that spares the scan of the table never says more than the  *)
(* table holds: whatever sequence of declarations, refusals and evictions, *)
(* hotpages is at most the number of slots in use (dynablock.c,            *)
(* AddHotPage, IsInHotPage, AreaInHotPage).                                *)
THEOREM CounterNeverAbove == HotSpec => []CounterNotAbove
<1>1. HotInit => CounterNotAbove
  <2> SUFFICES ASSUME HotInit PROVE CounterNotAbove
    OBVIOUS
  <2>1. hotpages = 0 /\ Cardinality(Active) \in Nat
    BY ActiveFinite DEF HotInit
  <2> QED  BY <2>1 DEF CounterNotAbove
<1>2. HotInv /\ CounterNotAbove /\ [HotNext]_hotVars => CounterNotAbove'
  <2> SUFFICES ASSUME HotInv, CounterNotAbove, [HotNext]_hotVars PROVE CounterNotAbove'
    OBVIOUS
  <2>0. /\ HotTypeOK /\ hotpages \in Int /\ Cardinality(Active) \in Nat
        /\ hotpages <= Cardinality(Active)
    BY ActiveFinite DEF HotInv, HotTypeOK, CounterNotAbove
  <2>1. ASSUME NEW p \in HotPages, AddHotPage(p) PROVE CounterNotAbove'
    <3>1. PICK i \in Slot : SameSlot(i, p) \/ GrowSlot(i, p) \/ NewSlot(i, p)
      BY <2>1 DEF AddHotPage
    <3>2. Rearm(i) /\ hotpage_count[i] \in Nat
      BY <2>0, <3>1, HotPageAssumption DEF SameSlot, GrowSlot, NewSlot, HotTypeOK
    <3>3. \/ hotpages' = hotpages
          \/ hotpages' = hotpages + 1 /\ hotpage_count[i] = 0
      BY <3>1, <3>2 DEF SameSlot, GrowSlot, NewSlot
    <3> QED  BY <2>0, <3>2, <3>3, RearmActive DEF CounterNotAbove
  <2>2. ASSUME NEW p \in HotPages, NEW q \in HotPages, AreaInHotPage(p, q) PROVE CounterNotAbove'
    <3>1. CASE UNCHANGED <<hotpage_size, hotpage_count, hotpages>>
      BY <3>1 DEF CounterNotAbove, Active
    <3>2. ASSUME NEW i \in Slot, IsLowest(i, Hits(p, q)), CountDown(i) PROVE CounterNotAbove'
      <4>1. i \in Active
        BY <3>2 DEF IsLowest, Hits
      <4>2. hotpages' = IF hotpage_count[i] = 1 THEN hotpages - 1 ELSE hotpages
        BY <3>2 DEF CountDown
      <4> QED  BY <2>0, <3>2, <4>1, <4>2, CountDownActive DEF CounterNotAbove
    <3> QED  BY <2>2, <3>1, <3>2 DEF AreaInHotPage
  <2>3. CASE UNCHANGED hotVars
    BY <2>3 DEF hotVars, CounterNotAbove, Active
  <2> QED  BY <2>1, <2>2, <2>3 DEF HotNext, IsInHotPage
<1> QED  BY <1>1, <1>2, HotInvAlways, PTL DEF HotSpec
=============================================================================
