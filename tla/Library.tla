------------------------------- MODULE Library -------------------------------
(***************************************************************************)
(* Loading, initialising and closing libraries: AddNeededLib and its lists *)
(* (src/librarian), the order of the init and fini functions               *)
(* (src/elfs/elfloader.c) and the handles of dlopen and dlclose            *)
(* (src/wrapped/wrappedlibdl.c).                                           *)
(*                                                                         *)
(* A library is its name.  AddNeededLib calls itself for what a library    *)
(* needs: the calls under way are the stack calls, and no guest code runs  *)
(* until it is empty.  The init functions are guest code: they run one at  *)
(* a time and may call dlopen and dlclose themselves, so the calls of      *)
(* dlopen form a stack of their own.                                       *)
(***************************************************************************)
EXTENDS Integers, Sequences, SequencesExt

CONSTANTS
  Libs,       \* library names
  Needs,      \* Needs[l]: the DT_NEEDED entries of l, in order; Needs[Main] too
  Native,     \* the wrapped libraries
  Missing,    \* the libraries that cannot be found
  Main,       \* the program
  None,
  MaxOpens,   \* bound: calls of dlopen that load or count
  MaxDepth    \* bound: dlopen inside init functions

(* What x needs, directly or not, in the graph N of needed libraries: the  *)
(* least set that holds what x needs and what its own members need.        *)
ReachIn(N, x) ==
  {y \in Libs : \A S \in SUBSET Libs :
     Range(N[x]) \subseteq S /\ (\A z \in S : Range(N[z]) \subseteq S) => y \in S}
Reach == [x \in Libs \cup {Main} |-> ReachIn(Needs, x)]

(* A wrapped library is in no list while NewLibrary loads what it needs:   *)
(* one that needed itself would be created again and again, without end.   *)
(* The lists of setNeededLibs in src/wrapped have no such cycle.           *)
ASSUME LibraryAssumption ==
  /\ Native \subseteq Libs /\ Missing \subseteq Libs
  /\ Main \notin Libs /\ None \notin Libs \cup {Main}
  /\ Needs \in [Libs \cup {Main} -> Seq(Libs)]
  /\ MaxOpens \in Nat /\ MaxDepth \in Nat \ {0}
  /\ \A l \in Native : l \notin Reach[l]

VARIABLES
  maplib,       \* context->maplib, the libraries seen by all
  local_maplib, \* context->local_maplib
  needed,       \* needed[u]: lib->needed; also of the program, and of a dlopen (None)
  depended,     \* depended[l]: lib->depended
  active,       \* lib->active
  finalized,    \* lib->priv.n.finalized
  calls,        \* the calls of AddNeededLib under way, the innermost last
  initDone,     \* init_done of each ELF
  finiDone,     \* fini_done of each ELF
  deferedInit,  \* context->deferedInit
  defered,      \* context->deferedInitList
  dl,           \* the handles: library, count and dlopened
  stack,        \* calls of dlopen (and the start-up), the innermost last
  exiting,      \* endBox64 has begun
  maps,         \* the lists FreeLibrarian still has to free, the current first
  next,         \* its loop index in the current list
  frees,        \* the calls of freeLibraryRecurse under way, the innermost last
  entered,      \* the libraries with freed[] # 0
  freed,        \* the libraries with freed[] = 2
  failed,       \* history: some library was not found, or not reloaded
  reentered,    \* history: the libraries opened during a dlopen of them
  opens         \* bound counter

lists == <<maplib, local_maplib, needed, depended>>
inits == <<initDone, finiDone, deferedInit, defered>>
exitVars == <<exiting, maps, next, frees, entered, freed>>
bounds == <<failed, reentered, opens>>
vars == <<lists, active, finalized, calls, inits, dl, stack, exitVars, bounds>>

Emulated == Libs \ Native
User == Libs \cup {Main, None}   \* who may have a list of needed libraries
Owned == Range(maplib) \cup Range(local_maplib)

-----------------------------------------------------------------------------
(* AddNeededLib.  A call adds everything first ("add"); then the libraries *)
(* that are new in the list of me, those behind idx, get what they need    *)
(* and their init ("init"); "fail" is its return with an error.            *)
Call(me, local, idx, paths) ==
  [me |-> me, local |-> local, idx |-> idx, todo |-> paths, phase |-> "add"]

Cur == Last(calls)
Below == Last(Front(calls))        \* the call that made the call Cur
SetCur(c) == Append(Front(calls), c)
SetBelow(c) == Append(Front(Front(calls)), c)
Rest(c) == [c EXCEPT !.todo = Tail(@)]
Fail(c) == [c EXCEPT !.phase = "fail"]

At(phase) == calls # << >> /\ Cur.phase = phase
Adds(l) == At("add") /\ Cur.todo # << >> /\ l = Head(Cur.todo)
Inits(l) == At("init") /\ Cur.todo # << >> /\ l = Head(Cur.todo)

Add(s, l) == IF l \in Range(s) THEN s ELSE Append(s, l)
Record(me, l) ==
  /\ needed' = [needed EXCEPT ![me] = Add(@, l)]
  /\ depended' = IF me \in Libs THEN [depended EXCEPT ![l] = Add(@, me)] ELSE depended

(* MapLibRemoveLib: the libraries behind l move up.                        *)
MapLibRemoveLib(s, l) ==
  LET k == CHOOSE i \in DOMAIN s : s[i] = l
  IN [i \in 1 .. Len(s) - 1 |-> IF i < k THEN s[i] ELSE s[i + 1]]

(* Mutant of Promote: the library stays in the local list too.             *)
PromoteKeeps(l) == maplib' = Append(maplib, l) /\ UNCHANGED local_maplib
Promote(l) == maplib' = Append(maplib, l) /\ local_maplib' = MapLibRemoveLib(local_maplib, l)

(* The library is loaded.  One in the local list is promoted, unless the   *)
(* call is local.                                                          *)
AddLoaded(l) ==
  /\ Adds(l) /\ l \in Owned
  /\ Record(Cur.me, l)
  /\ IF l \in Range(maplib) \/ Cur.local THEN UNCHANGED <<maplib, local_maplib>> ELSE Promote(l)
  /\ calls' = SetCur(Rest(Cur))
  /\ UNCHANGED <<active, finalized, inits, dl, stack, exitVars, bounds>>

(* The end of AddNeededLib_add for a library that c created.               *)
AddNew(c, l) ==
  /\ Record(c.me, l)
  /\ maplib' = IF c.local THEN maplib ELSE Append(maplib, l)
  /\ local_maplib' = IF c.local THEN Append(local_maplib, l) ELSE local_maplib
  /\ active' = [active EXCEPT ![l] = TRUE]

AddEmulated(l) ==
  /\ Adds(l) /\ l \notin Owned \cup Missing \cup Native
  /\ AddNew(Cur, l)
  /\ calls' = SetCur(Rest(Cur))
  /\ UNCHANGED <<finalized, inits, dl, stack, exitVars, bounds>>

(* NewLibrary of a wrapped library loads what it needs first, and does     *)
(* without what fails.                                                     *)
NewNative(l) ==
  /\ Adds(l) /\ l \in Native \ (Owned \cup Missing)
  /\ calls' = Append(calls, Call(l, FALSE, Len(needed[l]), Needs[l]))
  /\ UNCHANGED <<lists, active, finalized, inits, dl, stack, exitVars, bounds>>

NativeReturns ==
  /\ Len(calls) > 1 /\ Below.phase = "add"
  /\ At("fail") \/ (At("init") /\ Cur.todo = << >>)
  /\ AddNew(Below, Cur.me)
  /\ calls' = SetBelow(Rest(Below))
  /\ UNCHANGED <<finalized, inits, dl, stack, exitVars, bounds>>

AddFails(l) ==
  /\ Adds(l) /\ l \in Missing \ Owned
  /\ calls' = SetCur(Fail(Cur)) /\ failed' = TRUE
  /\ UNCHANGED <<lists, active, finalized, inits, dl, stack, exitVars, reentered, opens>>

(* Mutant of NewOnes: the last one is left out.                            *)
NewButLast(c) == SubSeq(needed[c.me], c.idx + 1, Len(needed[c.me]) - 1)
NewOnes(c) == SubSeq(needed[c.me], c.idx + 1, Len(needed[c.me]))

StartInits ==
  /\ At("add") /\ Cur.todo = << >>
  /\ calls' = SetCur([Cur EXCEPT !.todo = NewOnes(Cur), !.phase = "init"])
  /\ UNCHANGED <<lists, active, finalized, inits, dl, stack, exitVars, bounds>>

(* AddNeededLib_init: nothing for a wrapped library; an emulated one loads *)
(* what it needs (LoadNeededLibs) and is finalized.                        *)
InitNative(l) ==
  /\ Inits(l) /\ l \in Native
  /\ calls' = SetCur(Rest(Cur))
  /\ UNCHANGED <<lists, active, finalized, inits, dl, stack, exitVars, bounds>>

InitEmulated(l) ==
  /\ Inits(l) /\ l \in Emulated
  /\ calls' = Append(calls, Call(l, FALSE, Len(needed[l]), Needs[l]))
  /\ UNCHANGED <<lists, active, finalized, inits, dl, stack, exitVars, bounds>>

(* FinalizeLibrary, with RunElfInit while the inits are deferred.          *)
(* Mutant of Finalize: the init of a library in the local list is lost.    *)
FinalizeGlobal(l) ==
  /\ finalized' = [finalized EXCEPT ![l] = TRUE]
  /\ defered' = IF finalized[l] \/ initDone[l] \/ l \notin Range(maplib) THEN defered ELSE Append(defered, l)
Finalize(l) ==
  /\ finalized' = [finalized EXCEPT ![l] = TRUE]
  /\ defered' = IF finalized[l] \/ initDone[l] THEN defered ELSE Append(defered, l)

NeededReturns ==
  /\ Len(calls) > 1 /\ Below.phase = "init"
  /\ At("init") /\ Cur.todo = << >>
  /\ Finalize(Cur.me)
  /\ calls' = SetBelow(Rest(Below))
  /\ UNCHANGED <<lists, active, initDone, finiDone, deferedInit, dl, stack, exitVars, bounds>>

NeededFails ==
  /\ Len(calls) > 1 /\ Below.phase = "init" /\ At("fail")
  /\ calls' = SetBelow(Fail(Below))
  /\ UNCHANGED <<lists, active, finalized, inits, dl, stack, exitVars, bounds>>

-----------------------------------------------------------------------------
(* A call that runs init functions: a dlopen that adds a handle for lib,   *)
(* one that counts on the handle, or the start-up (handle 0, lib Main).    *)
Frame(l, todo, dlopened, handle) ==
  [lib |-> l, todo |-> todo, running |-> None, dlopened |-> dlopened, handle |-> handle]

(* Start-up: LoadNeededLibs of the program has begun.                      *)
Init ==
  /\ maplib = << >> /\ local_maplib = << >>
  /\ needed = [u \in User |-> << >>] /\ depended = [l \in Libs |-> << >>]
  /\ active = [l \in Libs |-> FALSE] /\ finalized = [l \in Libs |-> FALSE]
  /\ calls = <<Call(Main, FALSE, 0, Needs[Main])>>
  /\ initDone = [l \in Libs |-> FALSE] /\ finiDone = [l \in Libs |-> FALSE]
  /\ deferedInit = TRUE /\ defered = << >>
  /\ dl = << >> /\ stack = <<Frame(Main, << >>, FALSE, 0)>>
  /\ exiting = FALSE /\ maps = << >> /\ next = 0 /\ frees = << >>
  /\ entered = {} /\ freed = {}
  /\ failed = FALSE /\ reentered = {} /\ opens = 0

Top == Last(stack)
SetTop(f) == Append(Front(stack), f)

(* The libraries are loaded: RunDeferedElfInit takes the list.             *)
LoadReturns ==
  /\ Len(calls) = 1 /\ At("init") /\ Cur.todo = << >>
  /\ calls' = << >>
  /\ stack' = SetTop([Top EXCEPT !.todo = defered])
  /\ deferedInit' = FALSE /\ defered' = << >>
  /\ UNCHANGED <<lists, active, finalized, initDone, finiDone, dl, exitVars, bounds>>

(* dlopen returns nothing; deferedInit stays set, and so does what was     *)
(* loaded.  When the libraries of the program fail, box64 ends: no step.   *)
LoadFails ==
  /\ Len(calls) = 1 /\ At("fail") /\ Cur.me = None
  /\ calls' = << >> /\ stack' = Front(stack)
  /\ UNCHANGED <<lists, active, finalized, inits, dl, exitVars, bounds>>

(* RunElfInit from the list of RunDeferedElfInit.  A dlopen that failed    *)
(* inside an init function leaves deferedInit set: the rest is deferred    *)
(* again.                                                                  *)
RunElfInit ==
  /\ calls = << >> /\ stack # << >> /\ Top.running = None /\ Top.todo # << >>
  /\ LET h == Head(Top.todo)
         run == ~initDone[h] /\ ~deferedInit
     IN /\ stack' = SetTop([Top EXCEPT !.todo = Tail(@), !.running = IF run THEN h ELSE None])
        /\ defered' = IF ~initDone[h] /\ deferedInit THEN Append(defered, h) ELSE defered
  /\ UNCHANGED <<lists, active, finalized, calls, initDone, finiDone, deferedInit, dl, exitVars, bounds>>

(* Guest code runs: the program itself or an init function.                *)
Guest == calls = << >> /\ ~exiting /\ (stack # << >> => Top.running # None)

InitReturns ==
  /\ Guest /\ stack # << >>
  /\ initDone' = [initDone EXCEPT ![Top.running] = TRUE]
  /\ finiDone' = [finiDone EXCEPT ![Top.running] = FALSE]
  /\ stack' = SetTop([Top EXCEPT !.running = None])
  /\ UNCHANGED <<lists, active, finalized, calls, deferedInit, defered, dl, exitVars, bounds>>

Handle(l, dlopened) == [lib |-> l, count |-> 1, dlopened |-> dlopened]

(* The inits are done: dlopen counts on the handle or adds one, the        *)
(* start-up neither.                                                       *)
OpenReturns ==
  /\ calls = << >> /\ stack # << >> /\ Top.running = None /\ Top.todo = << >>
  /\ dl' = IF Top.handle > 0 THEN [dl EXCEPT ![Top.handle].count = @ + 1]
           ELSE IF Top.lib = Main THEN dl
           ELSE Append(dl, Handle(Top.lib, Top.dlopened))
  /\ stack' = Front(stack)
  /\ UNCHANGED <<lists, active, finalized, calls, inits, exitVars, bounds>>

Known(l) == \E i \in DOMAIN dl : dl[i].lib = l
FirstHandle(l) == CHOOSE i \in DOMAIN dl : dl[i].lib = l /\ \A j \in 1 .. i - 1 : dl[j].lib # l

Opening(l) == \E i \in DOMAIN stack : stack[i].lib = l
NoteReentered(l) == reentered' = reentered \cup (IF Opening(l) THEN {l} ELSE {})

(* The handle i was closed for the last time: dlopen reloads the library.  *)
Shut(i) == dl[i].count = 0 /\ dl[i].dlopened /\ dl[i].lib \in Emulated

(* dlopen of a library that has a handle.  One that was closed is reloaded *)
(* and its init run first (ReloadLibrary).  When that fails, the file is   *)
(* gone or cannot be loaded or relocated again, dlopen does not notice:    *)
(* the handle counts.  With RTLD_NOLOAD dlopen returns nothing for a       *)
(* closed library and otherwise counts nothing.                            *)
Reopen(l) ==
  /\ Guest /\ Known(l) /\ opens < MaxOpens
  /\ LET i == FirstHandle(l)
     IN \/ /\ Shut(i) /\ Len(stack) < MaxDepth
           /\ active' = [active EXCEPT ![l] = TRUE]
           /\ stack' = Append(stack, Frame(l, <<l>>, TRUE, i))
           /\ UNCHANGED <<dl, failed>>
        \/ /\ dl' = [dl EXCEPT ![i].count = @ + 1] /\ UNCHANGED stack
           /\ active' = IF Shut(i) THEN [active EXCEPT ![l] = TRUE] ELSE active
           /\ failed' = (failed \/ Shut(i))
  /\ opens' = opens + 1 /\ NoteReentered(l)
  /\ UNCHANGED <<lists, finalized, calls, inits, exitVars>>

(* dlopen of another library: deferedInit is set and it is loaded, with a  *)
(* new list of needed libraries.  dlopened: it was in no list before.      *)
Dlopen(l, local) ==
  /\ Guest /\ ~Known(l) /\ opens < MaxOpens /\ Len(stack) < MaxDepth
  /\ deferedInit' = TRUE
  /\ needed' = [needed EXCEPT ![None] = << >>]
  /\ calls' = <<Call(None, local, 0, <<l>>)>>
  /\ stack' = Append(stack, Frame(l, << >>, l \notin Owned, 0))
  /\ opens' = opens + 1 /\ NoteReentered(l)
  /\ UNCHANGED <<maplib, local_maplib, depended, active, finalized, initDone, finiDone, defered, dl,
                 exitVars, failed>>

(* RunElfFini is guest code that calls neither dlopen nor dlclose.         *)
Fini(l) ==
  /\ finiDone' = [finiDone EXCEPT ![l] = TRUE]
  /\ initDone' = IF finiDone[l] THEN initDone ELSE [initDone EXCEPT ![l] = FALSE]

(* Mutant of LastClose: a library that was loaded before is finished too.  *)
LastCloseAny(i) == dl[i].count = 1
LastClose(i) == dl[i].count = 1 /\ dl[i].dlopened

Dlclose(i) ==
  /\ Guest /\ dl[i].count > 0
  /\ dl' = [dl EXCEPT ![i].count = @ - 1]
  /\ IF LastClose(i) /\ dl[i].lib \in Emulated
     THEN Fini(dl[i].lib) /\ active' = [active EXCEPT ![dl[i].lib] = FALSE]
     ELSE UNCHANGED <<initDone, finiDone, active>>
  /\ UNCHANGED <<lists, finalized, calls, deferedInit, defered, stack, exitVars, bounds>>

-----------------------------------------------------------------------------
(* endBox64: FreeLibrarian of the local and of the global libraries, from  *)
(* the newest; freeLibraryRecurse frees the dependents in the same list    *)
(* first.                                                                  *)
(* Mutant of FreeMaps: the global libraries go first.                      *)
FreeMapsGlobalFirst == <<maplib, local_maplib>>
FreeMaps == <<local_maplib, maplib>>

Exit ==
  /\ Guest /\ stack = << >>
  /\ exiting' = TRUE /\ maps' = FreeMaps /\ next' = Len(Head(FreeMaps))
  /\ UNCHANGED <<lists, active, finalized, calls, inits, dl, stack, frees, entered, freed, bounds>>

freeing == <<lists, active, finalized, calls, deferedInit, defered, dl, stack, exiting, bounds>>
Recurse(s, l) == Append(s, [lib |-> l, todo |-> depended[l]])

(* The loop of FreeLibrarian.                                              *)
FreeNext ==
  /\ exiting /\ maps # << >> /\ frees = << >> /\ next > 0
  /\ LET l == Head(maps)[next]
     IN /\ frees' = IF l \in entered THEN frees ELSE Recurse(frees, l)
        /\ entered' = entered \cup {l}
  /\ next' = next - 1
  /\ UNCHANGED <<freeing, initDone, finiDone, maps, freed>>

FreeMapDone ==
  /\ exiting /\ maps # << >> /\ frees = << >> /\ next = 0
  /\ maps' = Tail(maps) /\ next' = IF Len(maps) > 1 THEN Len(maps[2]) ELSE 0
  /\ UNCHANGED <<freeing, initDone, finiDone, frees, entered, freed>>

(* The loop of freeLibraryRecurse, over the dependents from the last.      *)
FreeDepended ==
  /\ frees # << >> /\ Last(frees).todo # << >>
  /\ LET u == Last(Last(frees).todo)
         rest == Append(Front(frees), [Last(frees) EXCEPT !.todo = Front(@)])
     IN IF u \in entered \/ u \notin Range(Head(maps))
        THEN frees' = rest /\ UNCHANGED entered
        ELSE frees' = Recurse(rest, u) /\ entered' = entered \cup {u}
  /\ UNCHANGED <<freeing, initDone, finiDone, maps, next, freed>>

Free1Library ==
  /\ frees # << >> /\ Last(frees).todo = << >>
  /\ LET l == Last(frees).lib
     IN /\ IF l \in Emulated THEN Fini(l) ELSE UNCHANGED <<initDone, finiDone>>
        /\ freed' = freed \cup {l}
  /\ frees' = Front(frees)
  /\ UNCHANGED <<freeing, maps, next, entered>>

Loading ==
  \/ \E l \in Libs : \/ AddLoaded(l) \/ AddEmulated(l) \/ NewNative(l) \/ AddFails(l)
                     \/ InitNative(l) \/ InitEmulated(l)
  \/ NativeReturns \/ StartInits \/ NeededReturns \/ NeededFails \/ LoadReturns \/ LoadFails

Next ==
  \/ Loading
  \/ RunElfInit \/ InitReturns \/ OpenReturns
  \/ \E l \in Libs : \/ Reopen(l)
                     \/ \E local \in BOOLEAN : Dlopen(l, local)
  \/ \E i \in DOMAIN dl : Dlclose(i)
  \/ Exit \/ FreeNext \/ FreeMapDone \/ FreeDepended \/ Free1Library

(* The init functions of the guest return, and dlopen goes on.             *)
Fairness == WF_vars(Loading) /\ WF_vars(RunElfInit) /\ WF_vars(InitReturns) /\ WF_vars(OpenReturns)
Spec == Init /\ [][Next]_vars /\ Fairness

-----------------------------------------------------------------------------
LibSeqs == Seq(Libs)
CallSet == [me : User, local : BOOLEAN, idx : Nat, todo : LibSeqs, phase : {"add", "init", "fail"}]
HandleSet == [lib : Libs, count : Nat, dlopened : BOOLEAN]
FrameSet == [lib : Libs \cup {Main}, todo : LibSeqs, running : Emulated \cup {None},
             dlopened : BOOLEAN, handle : Nat]
FreeSet == [lib : Libs, todo : LibSeqs]

(* The types.  A dlopen that counts does so on a handle that exists.       *)
TypeOK ==
  /\ maplib \in LibSeqs /\ local_maplib \in LibSeqs
  /\ needed \in [User -> LibSeqs] /\ depended \in [Libs -> LibSeqs]
  /\ active \in [Libs -> BOOLEAN] /\ finalized \in [Libs -> BOOLEAN]
  /\ calls \in Seq(CallSet)
  /\ initDone \in [Libs -> BOOLEAN] /\ finiDone \in [Libs -> BOOLEAN]
  /\ deferedInit \in BOOLEAN /\ defered \in LibSeqs
  /\ dl \in Seq(HandleSet)
  /\ stack \in Seq(FrameSet) /\ \A i \in DOMAIN stack : stack[i].handle <= Len(dl)
  /\ exiting \in BOOLEAN /\ maps \in Seq(LibSeqs) /\ next \in Nat
  /\ frees \in Seq(FreeSet) /\ entered \subseteq Libs /\ freed \subseteq Libs
  /\ failed \in BOOLEAN /\ reentered \subseteq Libs /\ opens \in 0 .. MaxOpens

(* Every library that a handle or a list of needed libraries names is      *)
(* owned by exactly one of the two librarians, once: endBox64 frees what   *)
(* each of them owns.                                                      *)
OwnedOnce ==
  /\ \A i, j \in DOMAIN maplib : maplib[i] = maplib[j] => i = j
  /\ \A i, j \in DOMAIN local_maplib : local_maplib[i] = local_maplib[j] => i = j
  /\ Range(maplib) \cap Range(local_maplib) = {}
  /\ \A i \in DOMAIN dl : dl[i].lib \in Owned
  /\ \A u \in User : Range(needed[u]) \subseteq Owned

(* The librarians, the lists of handles and of what is still to be         *)
(* initialised stay well formed, and no library is owned twice.            *)
ListsSound == TypeOK /\ OwnedOnce

Closed(x) == \E i \in DOMAIN dl : dl[i].lib = x /\ dl[i].dlopened /\ dl[i].count = 0

(* When no dlopen is under way, the library of an open handle is active    *)
(* and initialised, and so is everything it needs but what dlclose closed  *)
(* by a handle of its own.  This does not hold after a dlopen or a reload  *)
(* that failed, nor for a library opened by an init that its own dlopen    *)
(* runs.                                                                   *)
OpenIsLive ==
  stack = << >> /\ ~exiting /\ ~failed =>
    \A i \in DOMAIN dl :
      dl[i].count > 0 /\ dl[i].lib \notin reentered =>
        /\ active[dl[i].lib]
        /\ \A x \in (Reach[dl[i].lib] \cup {dl[i].lib}) \cap Emulated :
              initDone[x] \/ (x # dl[i].lib /\ Closed(x))

(* The init functions of l begin.                                          *)
InitBegins(l) ==
  /\ stack # << >> /\ Len(stack') = Len(stack)
  /\ Top.running = None /\ stack'[Len(stack)].running = l
Pending(x, i) == stack[i].running = x \/ x \in Range(stack[i].todo)

(* An init function begins after those of everything its library needs,    *)
(* but for what dlclose closed and what the dlopens around this one have   *)
(* still to initialise.  A library that needs itself, through others, is   *)
(* left out: within a cycle the first one to be finalized is ahead even of *)
(* libraries outside the cycle.                                            *)
DepsFirst ==
  [][\A l \in Emulated :
       InitBegins(l) /\ ~failed /\ l \notin Reach[l] =>
         \A x \in Reach[l] \cap Emulated :
           initDone[x] \/ Closed(x) \/ \E i \in 1 .. Len(stack) - 1 : Pending(x, i)]_vars

(* The fini functions of a library run only after its init functions did,  *)
(* at dlclose and at exit, unless a dlopen failed.                         *)
FiniAfterInit ==
  [][\A l \in Emulated : finiDone'[l] /\ ~finiDone[l] /\ ~failed => initDone[l]]_vars

(* At exit a library is finished and freed after all that were loaded and  *)
(* need it, in either list and whatever failed, unless it needs itself.    *)
ExitOrder ==
  [][\A l \in freed' \ freed :
       l \notin ReachIn(needed, l) =>
         \A u \in Owned : l \in ReachIn(needed, u) => u \in freed]_vars

(* The init of every library that was relocated eventually ran, whichever  *)
(* dlopen deferred it, unless a dlopen failed.                             *)
InitRuns ==
  \A l \in Emulated : finalized[l] ~> (initDone[l] \/ finiDone[l] \/ failed)
=============================================================================
