----------------------------- MODULE GuestMutex -----------------------------
(***************************************************************************)
(* The mutexes of the guest on arm64 (src/libtools/threads.c): a host      *)
(* pthread_mutex_t does not fit into the guest's, so the first call on a   *)
(* guest mutex takes a slot of a table of host mutexes and writes where it *)
(* is, with a signature, into the guest's object (getAlignedMutexWithInit).*)
(*                                                                         *)
(* Every read and every store to the guest's object is a step; NewMutex    *)
(* and FreeMutex run under mutex_mutexes and are one step each.            *)
(***************************************************************************)
EXTENDS Integers, FiniteSets, Sequences

CONSTANTS
  Threads,
  Mutexes,    \* the guest's mutex objects
  Kinds,      \* mutex types, such as normal
  Recursive,  \* the kinds one thread may lock again
  BlockSize,  \* MUTEXES_SIZE
  MaxBlocks,  \* bound: blocks of the table
  MaxDepth,   \* bound: how often a recursive mutex is locked
  MaxRaced,   \* bound: once more mutexes were raced for, only calls under way go on
  None

Ops == {"lock", "trylock", "unlock", "init"}

ASSUME GuestMutexAssumption ==
  /\ BlockSize \in Nat \ {0} /\ MaxBlocks \in Nat \ {0} /\ MaxDepth \in Nat \ {0}
  /\ MaxRaced \in Nat
  /\ Recursive \subseteq Kinds
  /\ None \notin Threads \cup Mutexes \cup Kinds \cup Nat \cup Ops

VARIABLES
  blocks,  \* the table: a sequence of [free |-> n_free, taken |-> slots]
  host,    \* the host mutexes, by index k: kind, owner and depth
  obj,     \* the guest's objects, aligned_mutex_t
  alive,   \* the mutexes the program may use (not destroyed)
  call,    \* the call each thread is in
  want,    \* history: the kind the program gave each mutex
  held,    \* history: the threads that locked each mutex
  raced    \* history: mutexes two calls met on before they were installed

history == <<want, held, raced>>
vars == <<blocks, host, obj, alive, call, history>>

Slot == 0 .. BlockSize * MaxBlocks - 1
Calling(pc, op, g) == [pc |-> pc, op |-> op, g |-> g, k |-> None, m |-> None]
Idle == Calling("idle", None, None)

NewMutexesBlock == [free |-> BlockSize, taken |-> {}]
Fresh == [kind |-> None, owner |-> None, depth |-> 0]
Static(kind) == [self |-> None, sign |-> FALSE, kind |-> kind, k |-> None, m |-> None]

Taken == UNION {{(b - 1) * BlockSize + i : i \in blocks[b].taken} : b \in DOMAIN blocks}

-----------------------------------------------------------------------------
(* NewMutex: the first block with n_free, a new block if there is none,    *)
(* and in it the first slot that is not taken.                             *)
FirstFree(b) ==
  CHOOSE i \in 0 .. BlockSize - 1 :
    i \notin b.taken /\ \A j \in 0 .. i - 1 : j \in b.taken

NewMutex(bs, b) ==
  [bs EXCEPT ![b] = [free |-> @.free - 1, taken |-> @.taken \cup {FirstFree(@)}]]

(* The table with a block that has room, and the number of that block.     *)
Grown == IF \E b \in DOMAIN blocks : blocks[b].free # 0 THEN blocks
         ELSE Append(blocks, NewMutexesBlock)
Chosen(bs) == CHOOSE b \in DOMAIN bs :
                bs[b].free # 0 /\ \A c \in 1 .. b - 1 : bs[c].free = 0

(* Mutant of FreeMutex: the slot stays marked.                             *)
FreeMutexKeeps(bs, k) ==
  [bs EXCEPT ![k \div BlockSize + 1].free = @ + 1]
FreeMutex(bs, k) ==
  [bs EXCEPT ![k \div BlockSize + 1] = [free |-> @.free + 1, taken |-> @.taken \ {k % BlockSize}]]

(* Mutant of Installed: a copy of an installed mutex passes for it.        *)
InstalledBySign(g) == obj[g].sign
Installed(g) == obj[g].sign /\ obj[g].self = g

Init ==
  /\ blocks = << >>
  /\ host = [k \in Slot |-> Fresh]
  /\ want \in [Mutexes -> Kinds]
  /\ obj = [g \in Mutexes |-> Static(want[g])]
  /\ held = [g \in Mutexes |-> {}]
  /\ alive = Mutexes
  /\ call = [t \in Threads |-> Idle]
  /\ raced = {}

(* The slot in the hands of a call, from NewMutex to the end of the        *)
(* install.                                                                *)
Carried(t) ==
  IF \/ call[t].pc \in {"again", "giveback", "kind", "self", "sign", "index", "pointer"}
     \/ call[t].pc = "use" /\ call[t].op = "init"
  THEN {call[t].k} ELSE {}
(* The program may begin something new (the bound on races).               *)
MayBegin == Cardinality(raced) <= MaxRaced
Goto(t, pc) == call' = [call EXCEPT ![t].pc = pc]
In(g) == {t \in Threads : call[t].g = g}
(* The object of g is complete and no call is about to store to it.        *)
Settled(g) == Installed(g) /\ \A t \in In(g) : Carried(t) = {}

(* A thread calls pthread_mutex_lock, trylock, timedlock or unlock.        *)
Call(t, op, g) ==
  /\ MayBegin /\ call[t].pc = "idle" /\ g \in alive
  /\ op = "unlock" => Installed(g) /\ obj[g].m \in Slot /\ host[obj[g].m].owner = t
  /\ call' = [call EXCEPT ![t] = Calling("check", op, g)]
  /\ raced' = IF In(g) # {} /\ ~Settled(g)
              THEN raced \cup {g} ELSE raced
  /\ UNCHANGED <<blocks, host, obj, alive, want, held>>

(* pthread_mutex_init with the attribute kind, on an object nobody uses.   *)
(* The kind in its bytes is whatever was there.                            *)
CallInit(t, g, kind) ==
  /\ MayBegin /\ call[t].pc = "idle" /\ g \notin alive /\ In(g) = {}
  /\ want' = [want EXCEPT ![g] = kind]
  /\ call' = [call EXCEPT ![t] = Calling("new", "init", g)]
  /\ UNCHANGED <<blocks, host, obj, alive, held, raced>>

(* getAlignedMutexWithInit, first test.                                    *)
Check(t) ==
  /\ call[t].pc = "check"
  /\ call' = [call EXCEPT ![t] =
                IF Installed(@.g) THEN [@ EXCEPT !.pc = "use", !.m = obj[call[t].g].m]
                ELSE [@ EXCEPT !.pc = "new"]]
  /\ UNCHANGED <<blocks, host, obj, alive, history>>

TakeSlot(t) ==
  /\ call[t].pc = "new"
  /\ Len(Grown) <= MaxBlocks
  /\ LET b == Chosen(Grown) IN
       /\ blocks' = NewMutex(Grown, b)
       /\ call' = [call EXCEPT ![t].pc = IF call[t].op = "init" THEN "self" ELSE "again",
                               ![t].k = (b - 1) * BlockSize + FirstFree(Grown[b])]
  /\ UNCHANGED <<host, obj, alive, history>>

(* The second test, without mutex_mutexes.                                 *)
CheckAgain(t) ==
  /\ call[t].pc = "again"
  /\ call' = [call EXCEPT ![t] =
                IF Installed(@.g) THEN [@ EXCEPT !.pc = "giveback", !.m = obj[call[t].g].m]
                ELSE [@ EXCEPT !.pc = "kind"]]
  /\ UNCHANGED <<blocks, host, obj, alive, history>>

GiveBack(t) ==
  /\ call[t].pc = "giveback"
  /\ blocks' = FreeMutex(blocks, call[t].k)
  /\ Goto(t, "use")
  /\ UNCHANGED <<host, obj, alive, history>>

(* The kind of a copied mutex is that of the host mutex of the original:   *)
(* pthread_mutex_init writes no kind into the guest's bytes.               *)
OldKind(g) ==
  IF obj[g].sign THEN (IF obj[g].m \in Slot THEN host[obj[g].m].kind ELSE None)
  ELSE obj[g].kind
CopyKind(t) ==
  /\ call[t].pc = "kind"
  /\ host' = [host EXCEPT ![call[t].k].kind = OldKind(call[t].g)]
  /\ Goto(t, "self")
  /\ UNCHANGED <<blocks, obj, alive, history>>

(* The stores that install the host mutex, in the order of the code.       *)
SetSelf(t) ==
  /\ call[t].pc = "self"
  /\ obj' = [obj EXCEPT ![call[t].g].self = call[t].g]
  /\ Goto(t, "sign")
  /\ UNCHANGED <<blocks, host, alive, history>>
SetSign(t) ==
  /\ call[t].pc = "sign"
  /\ obj' = [obj EXCEPT ![call[t].g].sign = TRUE]
  /\ Goto(t, "index")
  /\ UNCHANGED <<blocks, host, alive, history>>
SetIndex(t) ==
  /\ call[t].pc = "index"
  /\ obj' = [obj EXCEPT ![call[t].g].k = call[t].k]
  /\ Goto(t, "pointer")
  /\ UNCHANGED <<blocks, host, alive, history>>
(* Mutant of SetPointer: the call goes on with the pointer it found.       *)
SetPointerOld(t) ==
  /\ call[t].pc = "pointer"
  /\ obj' = [obj EXCEPT ![call[t].g].m = call[t].k]
  /\ call' = [call EXCEPT ![t].pc = "use", ![t].m = obj[call[t].g].m]
  /\ UNCHANGED <<blocks, host, alive, history>>
SetPointer(t) ==
  /\ call[t].pc = "pointer"
  /\ obj' = [obj EXCEPT ![call[t].g].m = call[t].k]
  /\ call' = [call EXCEPT ![t].pc = "use", ![t].m = call[t].k]
  /\ UNCHANGED <<blocks, host, alive, history>>

-----------------------------------------------------------------------------
(* What pthread does with the host mutex (external).                       *)
MayLock(t, h) == h.owner = None \/ (h.owner = t /\ h.kind \in Recursive /\ h.depth < MaxDepth)

HostLock(t) ==
  LET m == call[t].m IN
  /\ call[t].pc = "use" /\ call[t].op \in {"lock", "trylock"} /\ m \in Slot
  /\ MayLock(t, host[m])
  /\ host' = [host EXCEPT ![m].owner = t, ![m].depth = @ + 1]
  /\ held' = [held EXCEPT ![call[t].g] = @ \cup {t}]
  /\ call' = [call EXCEPT ![t] = Idle]
  /\ UNCHANGED <<blocks, obj, alive, want, raced>>

(* EBUSY, or a timeout.                                                    *)
HostBusy(t) ==
  LET m == call[t].m IN
  /\ call[t].pc = "use" /\ call[t].op = "trylock" /\ m \in Slot
  /\ ~MayLock(t, host[m])
  /\ call' = [call EXCEPT ![t] = Idle]
  /\ UNCHANGED <<blocks, host, obj, alive, history>>

HostUnlock(t) ==
  LET m == call[t].m IN
  /\ call[t].pc = "use" /\ call[t].op = "unlock" /\ m \in Slot
  /\ host' = IF host[m].owner # t THEN host
             ELSE [host EXCEPT ![m].depth = @ - 1,
                               ![m].owner = IF host[m].depth = 1 THEN None ELSE @]
  /\ held' = IF host[m].depth > 1 THEN held ELSE [held EXCEPT ![call[t].g] = @ \ {t}]
  /\ call' = [call EXCEPT ![t] = Idle]
  /\ UNCHANGED <<blocks, obj, alive, want, raced>>

HostInit(t) ==
  /\ call[t].pc = "use" /\ call[t].op = "init"
  /\ host' = [host EXCEPT ![call[t].m] = [Fresh EXCEPT !.kind = want[call[t].g]]]
  /\ alive' = alive \cup {call[t].g}
  /\ call' = [call EXCEPT ![t] = Idle]
  /\ UNCHANGED <<blocks, obj, history>>

(* The pointer was not written yet: the call follows NULL.                 *)
HostNull(t) ==
  /\ call[t].pc = "use" /\ call[t].m = None
  /\ Goto(t, "crashed")
  /\ UNCHANGED <<blocks, host, obj, alive, history>>

-----------------------------------------------------------------------------
Unused(g) == In(g) = {} /\ (obj[g].sign => obj[g].m \in Slot /\ host[obj[g].m].owner = None)
Copies(g) == {c \in Mutexes : obj[c].sign /\ obj[c].self = g /\ c # g}

(* pthread_mutex_destroy.  The guest calls it for a mutex that nobody      *)
(* holds and that is not a copy; a mutex that was never used has no slot   *)
(* to give back.                                                           *)
Destroy(g) ==
  /\ MayBegin /\ g \in alive /\ Unused(g) /\ Copies(g) = {}
  /\ obj[g].sign => Installed(g)
  /\ alive' = alive \ {g}
  /\ IF obj[g].sign
     THEN /\ host' = [host EXCEPT ![obj[g].m].kind = None]
          /\ blocks' = FreeMutex(blocks, obj[g].k)
          /\ obj' = [obj EXCEPT ![g].sign = FALSE]
     ELSE UNCHANGED <<host, blocks, obj>>
  /\ UNCHANGED <<call, history>>

(* The program copies the bytes of a mutex over a dead one, and the copy   *)
(* is used as a mutex: this is what self is for.                           *)
CopyObject(g, c) ==
  /\ MayBegin /\ g \in alive /\ Unused(g) /\ Installed(g)
  /\ c \notin alive /\ In(c) = {}
  /\ obj' = [obj EXCEPT ![c] = obj[g]]
  /\ alive' = alive \cup {c}
  /\ want' = [want EXCEPT ![c] = want[g]]
  /\ UNCHANGED <<blocks, host, call, held, raced>>

Next ==
  \/ \E t \in Threads :
       \/ \E g \in Mutexes : \/ \E op \in Ops \ {"init"} : Call(t, op, g)
                             \/ \E kind \in Kinds : CallInit(t, g, kind)
       \/ Check(t) \/ TakeSlot(t) \/ CheckAgain(t) \/ GiveBack(t) \/ CopyKind(t)
       \/ SetSelf(t) \/ SetSign(t) \/ SetIndex(t) \/ SetPointer(t)
       \/ HostLock(t) \/ HostBusy(t) \/ HostUnlock(t) \/ HostInit(t) \/ HostNull(t)
  \/ \E g, c \in Mutexes : CopyObject(g, c)
  \/ \E g \in Mutexes : Destroy(g)

Spec == Init /\ [][Next]_vars

-----------------------------------------------------------------------------
(* Type invariant.                                                         *)
TypeOK ==
  /\ \A b \in DOMAIN blocks : /\ blocks[b].taken \subseteq 0 .. BlockSize - 1
                             /\ blocks[b].free \in 0 .. BlockSize
  /\ host \in [Slot -> [kind : Kinds \cup {None}, owner : Threads \cup {None},
                        depth : 0 .. MaxDepth]]
  /\ obj \in [Mutexes -> [self : Mutexes \cup {None}, sign : BOOLEAN, kind : Kinds,
                          k : Slot \cup {None}, m : Slot \cup {None}]]
  /\ alive \subseteq Mutexes /\ raced \subseteq Mutexes
  /\ want \in [Mutexes -> Kinds] /\ held \in [Mutexes -> SUBSET Threads]

HostOf(g) == IF g \in alive /\ Settled(g) /\ obj[g].m \in Slot THEN {obj[g].m} ELSE {}

(* n_free of a block is the number of its slots that are not taken, so the *)
(* unreachable part of NewMutex is unreachable and no block is passed over *)
(* while it has room.                                                      *)
FreeCount ==
  \A b \in DOMAIN blocks : blocks[b].free = BlockSize - Cardinality(blocks[b].taken)

(* A slot belongs to one mutex or to one call that installs it, and it is  *)
(* marked as taken: two mutexes of the guest never share a host mutex, a   *)
(* copied one and the original included, even when calls race.             *)
NoSharedHost ==
  /\ \A g, c \in Mutexes : g # c => HostOf(g) \cap HostOf(c) = {}
  /\ \A t, u \in Threads : t # u => Carried(t) \cap Carried(u) = {}
  /\ (UNION {Carried(t) : t \in Threads}) \cup (UNION {HostOf(g) : g \in Mutexes}) \subseteq Taken

(* As long as no two calls met on a mutex without a host mutex, every      *)
(* taken slot is in use: destroying and giving back lose none.             *)
NoneLost ==
  raced = {} =>
    Taken \subseteq (UNION {Carried(t) : t \in Threads}) \cup (UNION {HostOf(g) : g \in Mutexes})

(* The pool is exact: its counts are right and, without races, no slot is  *)
(* lost.                                                                   *)
PoolSound == TypeOK /\ FreeCount /\ NoneLost

(* As long as no two calls met on a mutex without a host mutex, mutexes    *)
(* exclude: the threads that locked one and did not unlock it are exactly  *)
(* the owner of its host mutex, and no call follows a pointer that is not  *)
(* there.  The host mutex is of the kind the program asked for, statically *)
(* or by pthread_mutex_init, a copied one included.  The condition is      *)
(* about all mutexes: a copy that is raced for has its own self and still  *)
(* the pointer of the original, whose host mutex a second call then locks. *)
Excludes ==
  raced = {} =>
    /\ \A g \in alive : held[g] = UNION {{host[m].owner} \ {None} : m \in HostOf(g)}
    /\ \A t \in Threads : call[t].pc # "crashed"
    /\ \A g \in Mutexes : \A m \in HostOf(g) : host[m].kind = want[g]
=============================================================================
