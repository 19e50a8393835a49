# A TLA+ model of box64

box64 runs x86-64 Linux programs on other 64-bit machines. It interprets x64
code or translates it to native code (the *dynarec*), and hands calls to common
libraries over to their native versions. This directory models the parts of box64
that are hardest to test: the life of translated code while the program's threads
run it, write to it, unmap it and change its protection; the memory such code
lives in; the flags that interpreter and native code compute late; the mutexes of
the guest; and the loading and unloading of libraries.

Paths below are relative to the repository. The file names under `src/src/` are
shortened to their last component where they are unique.

## 1. Inventory

### Components, their state and operations

| component | state | operations | hard behaviour | what makes it correct |
|---|---|---|---|---|
| **hot page table** (`dynablock.c:385-475`) | slots (`hotpage`, `hotpage_size`, `hotpage_count`), counter `hotpages` | `AddHotPage`, `IsInHotPage`, `AreaInHotPage` | slots are retired, grown, evicted in any order; a cached counter | only declared pages are refused; refusals end; the counter follows |
| **dynablock life cycle** (`dynablock.c`) | `dynablock_t` cells, `direct` per list, `mutex_dyndump` | `DBGetBlock`, `internalDBGetBlock`, `AddNewDynablock`, `FreeDynablock`, `FreeRangeDynablock`, `MarkRangeDynablock`, `cancelFillBlock` | unlocked reads of `direct`; a lock taken in one function and released in another; `siglongjmp` out of a critical section | a block run without a test matches memory; lock discipline; nothing is freed twice |
| **FillBlock64** (`dynarec_native.c`) | the block under construction, `current_helper` | four passes, hash, protection, sons | the code changes while it is read; a fault while it is read | a block made from changed code is dropped |
| **jump table** (`custommem.c`) | four-level table of native entry points | `addJumpTableIfDefault64`, `setJumpTableDefault64` | native code jumps through it with no test | entries stand for clean live blocks |
| **page protection** (`custommem.c:769-1100`) | `memprot`, `mutex_prot` | `protectDB`, `unprotectDB`, `isprotectedDB`, `setProtection`, `updateProtection`, `freeProtection` | two records (kernel and `memprot`) of one fact | `PROT_DYNAREC` means the kernel refuses writes |
| **map of guest memory** (`custommem.c:858-945`, `1123-1170`) | sorted list `mapmem` | `addMapMem`, `removeMapMem`, `findBlockNearHint`, `find47bitBlockNearHint` | loops over a list they change; unsigned sizes | the list is the set of mapped pages; a hole found is free |
| **memory calls** (`wrappedlibc.c:2188-2335`) | none of its own | `my_mmap64`, `my_mremap`, `my_munmap`, `my_mprotect` | the kernel call and box64's records are separate steps | the records follow the kernel |
| **fault handler** (`signals.c:749-1020`) | `glitch_pc`, `glitch_addr`, `glitch_prot`, `repeated_page` | `my_box64signalhandler` | runs inside any code of the thread | a legal store is recovered, an illegal one is not, none loops |
| guest signals (`signals.c`) | handler tables, alternate stack | sigaction, delivery | delivery while box64's mutexes are held | handlers run with no internal mutex |
| dispatcher (`dynarec.c`) | none | `LinkNext`, `DynaCall`, `DynaRun` | switching between engines | asks `DBGetBlock` for every block |
| **native code memory** (`custommem.c:350-566`) | arenas with chained marks, `first`, `maxfree`, `locked`, `helper`, `dblist` | `AllocDynarecMap`, `FreeDynarecMap`, `FindDynablockFromNativeAddress` | cached hints over a chain that splits and fuses | chunks are disjoint; hints are exact; live code finds its block |
| **custom allocator** (`custommem.c:64-348`) | arenas with chained marks, `maxfree` | `customMalloc`, `customRealloc`, `customFree` | splitting, fusing; a realloc that leaves its lock | chunks are disjoint, the chain is whole |
| **lazy flags** (`x64primop.h`, `x64primop.c`, `x64run_private.c`) | `df`, `op1`, `op2`, `res`, `eflags` | the arithmetic primitives, `UpdateFlags` | flags computed by a later instruction, from operands that may have changed | the flags are those of the last instruction that set them |
| **guest mutexes** (`threads.c:712-887`) | pool of host mutexes, the fields box64 keeps in the guest's object | `getAlignedMutexWithInit`, init, destroy, lock, trylock, unlock | creation of the host mutex on first use, store by store; copies of a mutex | one host mutex per guest mutex |
| threads (`threads.c`) | thread emulators | creation, cancellation, once | | sequential per thread |
| bridges (`bridge.c`) | bricks of slots, a map | `AddBridge`, `AddCheckBridge`, `AddVSyscall` | slots taken by several threads | a slot is given once |
| **libraries** (`librarian/`, `wrappedlibdl.c`, `elfloader.c:1053-1250`) | two librarians, lists of needed and dependent libraries, handles, deferred inits | `AddNeededLib`, `my_dlopen`, `my_dlclose`, `RunElfInit`, `RunElfFini`, `FreeLibrarian` | init functions call dlopen; cycles; a dlopen that fails half way | init after, fini before what is needed; nothing open is finished |
| TLS (`x64tls.c`) | per-thread area | growth | library loaded while threads run | the area covers every module |
| callbacks, ELF loader, DWARF, the rest of the interpreter, arm64 translator, system calls, wrapped libraries, alignment, GTK, start-up, android | see `PROJECT.json` | | sequential or bit-level | |

### How they interact

`LinkNext` (called by native code that has no direct successor) and `DynaRun`
ask `DBGetBlock` for a block. A new block goes through `FillBlock64`, which
protects its pages (`protectDB`), asks the hot page table, takes memory from the
native code arenas and is entered in the jump table. A store of any thread to a
protected page raises SIGSEGV; the handler calls `unprotectDB`, which marks the
blocks of the page (`MarkRangeDynablock` sets `need_test` and resets their jump
table entries) and gives the write permission back, and may declare the page
hot. The next `DBGetBlock` of a marked block compares its hash, and either
declares it clean and protects the pages again or frees it and translates anew.
The program's own `mmap`, `mprotect`, `mremap` and `munmap` go through wrappers
that change the kernel's mapping, the map of guest memory, `memprot` and the
blocks, one after the other. Native code takes its memory from `AllocDynarecMap`;
the fault handler finds the block of a native address with
`FindDynablockFromNativeAddress`. Interpreter and native code run the same program
alternately and leave each other pending flags in `emu`. `dlopen` loads libraries
and runs their init functions, which are guest code again.

Shared state: `direct` (read without a lock), the jump table (read by native
code), `memprot` (written under `mutex_prot`, read by `isprotectedDB` without
it), the block cells (written under `mutex_dyndump`, marked without it).

`PROJECT.json` lists every component with its status and, under `hazards`, 39
places of the code where something could go wrong that a test would hardly
reach, with the properties that cover each one.

## 2. Modules

| module | models | extends |
|---|---|---|
| `HotPage` | the hot page table | |
| `Dynablock` | the life of a block: lookup, fill, validation, SMC faults, munmap, by any number of threads | |
| `DynablockProofs` | types and lock discipline; what blocks have to do with memory, for one thread; the hot page table | `Dynablock`, `HotPage` |
| `MappedPages` | what the map of guest memory promises: a set of pages | |
| `MapMem` | the sorted list and its loops, and the searches for a hole | instance of `MappedPages` |
| `MapMemProofs` | shape of the list, the refinement, the search that finds nothing | `MapMem` |
| `MemProt` | memory calls, `memprot`, the kernel and the fault handler | |
| `MemProtProofs` | that `memprot` and the kernel agree, and what follows for stores and blocks | `MemProt` |
| `BlockChain` | the marks that chain the chunks of an arena: search, allocation, release | |
| `ChainProofs` | what the walks over the marks return, and that every operation keeps a sound chain | `BlockChain` |
| `Allocator` | what an allocator promises: disjoint chunks | |
| `CustomMem` | the custom allocator | `BlockChain`, instance of `Allocator` |
| `CustomMemProofs` | its theorems | `CustomMem`, `ChainProofs` |
| `DynarecMap` | the memory for native code | `BlockChain`, instance of `Allocator` |
| `DynarecMapProofs` | its theorems | `DynarecMap`, `ChainProofs` |
| `Primop` | instructions with deferred flags, as operators on `emu` | |
| `LazyFlags` | sequences of them, and the reference they are compared with | `Primop` |
| `GuestMutex` | the mutexes of the guest over those of the host | |
| `GuestMutexProofs` | the pool and mutual exclusion | `GuestMutex` |
| `Library` | librarians, init and fini functions, dlopen and dlclose | |
| `LibraryProofs` | its theorems | `Library` |
| `MC*` | instances for TLC | their module |

A definition whose comment begins "Mutant of" is a version of the one it names
with a mistake in it: no specification uses it, and the property it is listed
with in `PROJECT.json` must fail when it takes that one's place.

### HotPage

A slot `i` holds the pages `hotpage[i] .. hotpage[i] + hotpage_size[i]` and
`hotpage_count[i]` refusals. `IsInHotPage` and `AreaInHotPage` are one action,
`AreaInHotPage(first, last)` (a single page is an area of one): nothing happens
while `hotpages = 0`; otherwise the lowest slot in use that meets the area gives
one of its refusals (`CountDown`), and the last one retires the slot, shrinks it
to one page and decrements the counter. `AddHotPage` looks for the first slot
that holds the page or is adjacent to it, in use or not (`SameSlot`,
`GrowSlot`), and else takes the slot with the fewest refusals (`NewSlot`).
`added` and `lastAdded` are history, `adds` the bound. Init, next-state relation and
specification are called `HotInit`, `HotNext` and `HotSpec`, since `DynablockProofs`
extends both halves of `dynablock.c`.

### Dynablock

`heap` is the set of `dynablock_t` cells that malloc hands out and takes back;
a freed cell keeps its last fields, as freed memory does. `direct`, `jmp`, `mem`
and `dyn` are the direct arrays, the jump table, guest memory and the pages the
dynarec protects. `pc[t]` is the place of a thread in the code and `loc[t]` the
local variables of the call it is in. A step is what runs between two points
where another thread can interfere:

| code | actions |
|---|---|
| `internalDBGetBlock`, `AddNewDynablock` | `Get`, `AddNew`, `AddFound`, `AddAppeared` |
| `FillBlock64` | `FillHot`, `FillNoDynarec`, `FillProtect`, `FillNull`, `FillWritten`, `FillHash`, `FillNoMemory`, `FillTranslate`, `FillChanged`, `FillFinish` |
| fault in `FillBlock64`, `cancelFillBlock` | `FillSegv`, `CancelFill` |
| after `FillBlock64` | `UnlockFilled`, `Drop`, `Publish` |
| `DBGetBlock` | `Return`, `Test`, `TryLock`, `ValidateHot`, `ValidateSame`, `Revalidate`, `ValidateChanged`, `Again`, `UnlockReturn` |
| a store of the program | `Write`, `Fault`, then the handler: `Mark`, `Unprotect` |
| `munmap` | `FreeRange`, `FreeDynablock`, `FreeLocked`, `Munmap` |

Abstractions: a block at `a` always covers `PagesOf[a]` and has its inner jump
targets at `SonsOf[a]` (decoding is left out); the hash does not collide; the hot
page table may give either answer; all blocks lie in one list. `Revalidate` is
one step, though the code clears `need_test`, then protects, then fills the jump
table: the gap that matters, between the hash and the protection, is a step
boundary (`ValidateSame`, `Revalidate`). `mutex_prot` is a variable only while
`unprotectDB` holds it over two steps; `protectDB` is one step that waits for it.

### MapMem and MappedPages

`list` is the set of intervals of the linked list, in order of their start; the
head is the block that covers everything below `LOWEST`. Addresses are page
numbers, since both functions widen a range to whole pages first. `AddMapMem`
attaches the new block (or extends the one it touches), `Fuse` and `FuseEnd` are
the loop that swallows the following blocks. `RemoveMapMem` starts the walk;
`RemoveWhole`, `RemoveSplit`, `RemoveTail`, `RemoveHead`, `RemoveSkip` are the
branches of one iteration, `RemoveEnd` its exit. `FindBlock` is one call of
either search function (they only read), with sizes computed modulo `Wrap`, as
unsigned integers are. `MappedPages` has one atomic action per call on a set of
pages.

### MemProt

For each page: `mapped`, what the program asked for (`want`), what the kernel
enforces (`kern`), what box64 remembers (`prot`, with `"D"` for `PROT_DYNAREC`),
the state of its blocks (`db`) and whether the page still holds what they were
translated from (`fresh`). A memory call is one step for the kernel and one or two
for box64's records, in the order of the code:

| code | actions |
|---|---|
| `my_mmap64` | `Mmap`, `MmapBlocks`, `SetProtection` |
| `my_mprotect` | `Mprotect`, `MprotectBlocks`, `UpdateProtection` |
| `my_munmap` | `Munmap`, `MunmapKernel`, `FreeProtection` |
| `my_mremap` | `Mremap`/`MremapMoved`, `MremapGrow`/`MremapGrown`, `MremapShrink`/`FreeProtection` |
| translation, validation | `Translate` (`protectDB` and the block) |
| a store, `my_box64signalhandler` | `Store`, `StoreOk`, `HandleDynarec`, `HandleGlitch`, `HandleAgain`, `HandleSignal` |

`Mremap` is a move, to a free page or with `MREMAP_FIXED` over a mapped one.
`MremapGrow` stands for what leaves the old page mapped: growth, a second mapping
(`old_size` 0) and `MREMAP_DONTUNMAP`. `Mmap` goes to `SetProtection` at once when the
kernel did not know `MAP_FIXED_NOREPLACE` and gave another page. `cut` is history: the
pages that `mremap` cut off and whose blocks nobody has freed since.

A call works on one page. `HandleSignal` stands for every end of the handler that
does not retry the store: delivery to the program, or box64's own exit. The
kernel's part (`KernelMap`, `KernelUnmap`) is external code, modelled from its
use.

### BlockChain, CustomMem and DynarecMap

An arena is a function `mk` from the offsets of its marks to their two halves
(`prev`, `next`: a size and a fill bit), so that the same number is kept twice,
as in the code. `GetFirstBlock`, `GetMaxFreeFrom`, `GetMaxFreeBack`, `AllocBlock`
and `FreeBlock` are the functions of those names; the walks are over the set of
marks that following the sizes reaches.

`CustomMem`: `Malloc` and `FreeChunk` are a call under `mutex_blocks`.
`customRealloc` is three steps (`ReallocTry`, `ReallocMalloc`, `ReallocCopy`),
since it gives the mutex up between them. `expandBlock` grows nothing: it tests
the fill bit of the chunk itself, which is set, so only "big enough" succeeds
(`BigEnough`). Its only user is khash, whose sizes are multiples of 4 and not 0.

`DynarecMap`: every caller holds `mutex_dyndump`, so a call is one step:
`AllocDynarecMap` (`FindFree` in some arena, else `AddNew`), `AllocOversized`,
`FreeDynarecMap`. `helper` and `dblist` are kept, and `FindDynablock` walks the
helper bytes as the code does. A byte counts up to `HelperMax` instead of 255.

`chunks` is history in both: what the callers hold. It is the state of
`Allocator`, where a chunk appears disjoint from the others, changes its size or
goes away.

### Primop and LazyFlags

`emu` has the fields of `x64emu_t` that the flags need: `df` (the pending
instruction), `op1`, `op2`, `res` and the flags `fl`. `Add`, `Shl`, `Mul`, ... set
the pending fields (`Defer`), `Adc`, `Cmp`, `Rol`, ... compute at once, as the
functions do; `UpdateFlags` has one operator per kind of pending instruction. The width
is `W`. Most forms for 8, 16, 32 and 64 bits are the same text but for constants;
where they are not (`add64` and `adc64` with their halves, `inc32`, the shift counts
beyond the width) both are there. Of the divisions every form is there, since
their temporaries differ in width and sign: `div64` tests a signed copy of its quotient
(`Div64`), `idiv16` and `idiv32` take `abs` of a quotient as wide as the dividend
(`IdivAbs`, whose undefined case has two answers), and each width leaves other flags
(`DivFlags`). `Native*`
are the instructions that only arm64 code leaves pending. `LazyFlags` runs every
sequence of them; `Ref` computes results and flags bit by bit and from the
integers, with no carry chain.

### GuestMutex

`obj[g]` is the guest's object as box64 uses it (`self`, `sign`, `kind`, `k`, `m`),
`blocks` the pool with its counts, `host` the host mutexes. `call[t]` is the call
thread `t` is in. `Check`, `TakeSlot`, `CheckAgain`, `GiveBack`, `CopyKind`,
`SetSelf`, `SetSign`, `SetIndex` and `SetPointer` are the steps of
`getAlignedMutexWithInit`, in the order of its stores; `HostLock`, `HostBusy`,
`HostUnlock`, `HostInit` the host's part, which is external. `CopyObject` is a
program that copies a mutex, which the code provides for. `raced` is history: the
mutexes on which a call began while another was about to install; `held` and `want` what the program
believes to hold and asked for.

### Library

`maplib` and `local_maplib` are the two librarians; `needed`, `depended`, `active` and
`finalized` the fields of `library_t`. `AddNeededLib` recurses over the graph of
libraries: from `AddNeededLib_init` through `LoadNeededLibs`, and from `NewLibrary` of a
wrapped library. The calls under way are the stack `calls`, and a step is one
iteration of a loop or one return. A call is in phase `"add"` (a library that is loaded, `AddLoaded`;
created, `AddEmulated`; created after a call of its own, `NewNative` and `NativeReturns`; not
found, `AddFails`), then in phase `"init"` for the entries of its list that are new
(`StartInits`, `InitNative`, `InitEmulated`, `NeededReturns`), or it has failed (`NeededFails`).
`Finalize` defers the init. No guest code runs while `calls` is not empty.

Init functions are guest code and may call dlopen and dlclose: `stack` has a
frame for each dlopen under way, the start-up being the first. `LoadReturns` takes the deferred
list, `RunElfInit` and `InitReturns` run it, `OpenReturns` makes the handle;
`LoadFails` is a dlopen that returns nothing. `Dlopen` is for a library without a
handle, `Reopen` for one with, whose reload may fail unnoticed; `Dlclose` runs the fini functions. `Exit` begins
`endBox64`: `maps` and `next` are the loop of `FreeLibrarian` (`FreeNext`,
`FreeMapDone`), `frees` the calls of `freeLibraryRecurse` (`FreeDepended`,
`Free1Library`), `entered` and `freed` the two values of its array `freed[]`. `failed` and
`reentered` are history.

## 3. Runs

| run | checks | shows |
|---|---|---|
| `hotpage` | `OnlyAddedPages`, `CounterNotAbove`, `CoolsDown` | only pages declared hot are refused, the counter is at most the slots in use, refusals end |
| `dynablock_one` | `TypeOK`, `CleanMatchesMemory`, `UnprotectedAllMarked`, `JumpTableClean`, `DirectAlive` | in a program with one thread, a block that runs untested matches memory, and the tables hold live blocks only |
| `dynablock_two` | `LockDiscipline`, `NestedAddFindsEmpty`, `LockReleased` | the lock is owned exactly where the code assumes it, and always given back, the cancelled fill included |
| `dynablock_smc` | `ProtectedIsSafe` (violated) | the finding of section 4 |
| `mapmem` | `Coarsest`, `HeadStays`, `ImplementsPages`, `CallReturns`, `NullMeansFull` | the list is sorted, disjoint, fused; it implements `MappedPages`; the loops end; a search that gives up was right |
| `memprot` | `DynarecMeansProtected`, `UnmappedForgotten` | `memprot` and the kernel agree on every page the dynarec protects; an unmapped page is forgotten, but for the blocks of one that `mremap` cut off |
| `memprot_writable` | `CleanIsFresh`, `LegalStoreRecovered`, `StoreSettles` | for a JIT-like program: no stale block is run, legal stores are recovered, every store ends |
| `custommem` | `BlocksSound`, `MaxFreeTrue`, `CopyFits`, `ImplementsAllocator` | the two copies of every size agree, what is filled is what was given out, the cached maximum is exact, a realloc copies no more than fits, chunks are disjoint |
| `dynarecmap` | `MapsSound`, `NeverLocked`, `LookupFinds`, `ImplementsAllocator` | the same for native code, its hints and the lookup from a native address |
| `flags` | `FlagsRight`, `ResultRight` | whatever ran before, each instruction gives the result and, when asked, the flags of the architecture, with the exceptions of section 5 |
| `guestmutex` | `PoolSound`, `NoSharedHost`, `Excludes` | the pool's counts are exact and mutexes do not share a host mutex, races included; without races no slot is lost, the program's lock excludes and is of the kind asked for |
| `library` | `ListsSound`, `OpenIsLive`, `ExitOrder`, `DepsFirst`, `FiniAfterInit`, `InitRuns` | every library is owned once, what is open is initialised with what it needs, the orders of init and fini, no init is forgotten |

The type invariants of `HotPage`, `MapMem` and `MemProt` are parts of the inductive
invariants of section 6 and proved there; those of the newer modules are the first
conjuncts of `BlocksSound`, `MapsSound`, `PoolSound`, `ListsSound` and `ResultRight`,
each of which is a conjunction of named parts.

### Bounds, and why they are enough

- `HotPage`: two slots, so that eviction chooses between slots; five pages, so
  that two runs can grow towards each other and a page stays outside;
  `Step = 2`, so that a slot can be at full, one and zero; `MaxAdds = 4`
  declarations, which fill, grow, evict and re-arm.
- `Dynablock`, one thread: a block over two pages with a son in the second, a
  block that starts in the second page itself, a block left to the interpreter;
  four cells, one more than can be reachable at once; two contents, since all
  that matters is whether a page changed. The page that is unmapped is the first
  one (see section 5 for the second).
- `Dynablock`, two threads: one address, one page, two cells. The lock is about
  the order of two threads' steps at one entry; a third thread adds nothing that
  the theorem does not cover. No symmetry is used where liveness is checked.
- `MapMem`: seven pages, `LOWEST` at two and a granularity of two give room for
  three blocks with holes, aligned and not; `Limit = 6` so that the limit itself
  is met; `Wrap = 32` only has to exceed the pages.
- `MemProt`: two pages, so that one can be moved or grown into the other; every
  protection that makes a difference (`PROT_WRITE` implies `PROT_READ`, so `{"W"}`
  is RW). One thread: with several, the calls are not atomic and the properties
  fail (section 5). In `memprot_writable` no page is executable without being
  writable, and nothing is moved or mapped over. 197261 and 8309 states.

- `CustomMem`: marks of 8 as in the code, two arenas of 52 and sizes 4, 12 and 40,
  which split an arena, leave a remainder too small to be worth a mark and, for 40,
  need an arena of their own that is larger than 52;
  two threads, so that both neighbours of a freed chunk are free, filled or absent,
  and calls come between the steps of a realloc.
- `DynarecMap`: two dynablocks, two maps of 16 with marks of 2, `HelperMax = 3`,
  sizes 1, 4, 6 and 13: below and above the range of a helper byte, and one too
  large for a map, which takes a map of its own.
- `LazyFlags`: 8 bits, where shift counts reach beyond the width, and operands at
  the boundaries (0, 1, the sign bit, all ones and their neighbours); sequences of
  two instructions, the second of which meets the flags the first left pending. The
  high half of a dividend begins as 1, the sign bit or all ones, so that
  a first division already meets the limits: 547707 states.
- `GuestMutex`: two threads, two mutexes, two blocks of two slots, so that the pool grows and is
  reused: 125104 states up to symmetry. `MaxRaced = 0` lets the calls under way when a
  first race begins run to their end, but begins no new ones (`MayBegin`). That is a
  bound of the run only: without it the instance has more than 13 million states,
  smaller ones give the same answer, and the theorems hold for every `MaxRaced`.
- `Library`: two dlopens, one inside an init function of the other or not, over eight
  libraries with a cycle, a dependency shared with the program, a wrapped library that
  loads an emulated one, another whose own dependency is missing and which does
  without, and one that fails for it: 32213 states.

### Fairness

- `HotPage`: weak fairness of the lookup of each page, since the program keeps
  reaching its code. It is used for `CoolsDown`. The number of declarations is
  bounded: a program that writes to its code for ever keeps it hot, as intended.
- `Dynablock`, `MemProt`: weak fairness, per thread, of the steps inside
  `DBGetBlock`, the handler and the memory calls: the kernel schedules every
  runnable thread. Nothing is assumed of what the program chooses to do, nor
  of which of several outcomes (hot, cancelled, filled) a fill has. A thread that
  waits for a mutex is not enabled and gets no promise: strong fairness of
  mutexes is not assumed, and `LockReleased` does not need it.
- `MapMem`: weak fairness of the loop of the current call.
- `Library`: weak fairness of the steps of a dlopen under way and of the return of
  init functions, since a program whose init function does not return never
  starts. Nothing is assumed of what init functions open and close.

Deadlock is checked except where the system may stop: `flags` (sequences of a
bounded length), `custommem` (`MaxBlocks` can leave both threads inside a realloc
that finds no room; the code would map another block), `guestmutex` (the program
may deadlock itself) and `library` (the program exits).

## 4. Finding

`dynablock_smc` states what a comment of the code says, and TLC refutes it:
`DBGetBlock` hashes the code, then clears `need_test`, then protects the pages
(`dynablock.c:496-514`). A store of another thread between the hash and the
protection goes unseen, and the block is clean over code it was not made from.

## 5. Properties that hold only under the stated restriction

These were tried under weaker restrictions and fail there; `hazards` has the
lines. No run repeats them.

- `HotAfterAdd` (`HotPage`), what the signal handler counts on, fails: growing a
  *retired* slot by an adjacent page does not count the slot again
  (`dynablock.c:444-456`), and while `hotpages` is 0 the page just declared hot is
  not refused.
- `FreesOnlyLive` (`Dynablock`) fails with two threads: `FreeDynablock` reads `gone`
  before it takes the lock and not again under it (`dynablock.c:62-69`). A thread
  that unmaps a son's page frees the father that another has just replaced.
- `FoundIsFree` (`MapMem`) fails with a granularity of four: the start of a hole is
  rounded up to 64K, and its size, `end-addr+1`, wraps if the next block starts
  before that (`custommem.c:1141-1146`).
- `NoForbiddenStore` (`MemProt`) fails: a page keeps `PROT_DYNAREC` when the program
  makes it read-only (`custommem.c:972-975`); the handler then gives it
  `PROT_WRITE`, and its test for the write permission is always true
  (`signals.c:875`).
- `CleanIsFresh` fails for a page that is not writable when it is translated: it is
  not recorded (`custommem.c:790-794`), and making it writable later neither marks
  the blocks nor takes the permission.
- `UnprotectedAllMarked` fails with two threads: `unprotectDB` marks the blocks
  and then unprotects, without `mutex_dyndump`, and a fill may complete in between.
- `JumpTableClean` fails with two threads: a block enters the jump table after
  the lock is released, and overwrites a reset that came in between.
- `CleanMatchesMemory` fails when the second page of a block is unmapped: only
  blocks that *start* in the range are freed.
- `CleanIsFresh` fails with `MAP_FIXED` over translated code: an executable
  mapping only adds lists.
- `LegalStoreRecovered` fails with `mremap`: the moved page keeps the kernel's
  protection and loses `PROT_DYNAREC`.
- `StoreSettles` fails with pages that are executable and not writable: the
  handler takes the second fault for a glitch again, for ever.
- `DynarecMeansProtected` and `UnmappedForgotten` fail with two threads: one may
  unmap or shrink a page between the other's kernel call and `setProtection`.
- `CopyFits` and `ChainsSound` (of `BlocksSound`) fail with sizes khash does not ask for: a realloc
  from 7 to 5 bytes compares rounded sizes but copies the old one, and a
  chunk of size 0 that is freed looks like the end of the chain.
- `LookupFinds` leaves out addresses a multiple of 255 into a chunk from
  `FindFreeDynarecMap`: helper byte 255 is not written (`custommem.c:384-388`), and
  keeps what was there. Entries of `dblist` are never deleted, since the key looked
  for is the mark's address (`custommem.c:469`): a lookup in freed memory can
  return a freed block.
- `FlagsRight` leaves out (`NotKept`): `inc` and `dec`, which keep CF without
  computing it when it is pending, except `inc32` and `inc64` after `shr`; shifts and
  double shifts by 0, which drop the pending flags or clear OF; `sar` by 1, which
  does not clear OF; `d_adc64`, which tests bit 48 of a 33-bit sum, so that CF is 0;
  native `rol` and `ror` by 0, which set CF.
- `ResultRight` leaves out (`LimitLost`) the divisions that the wide forms answer where
  the processor traps: `div64` by 1 of a dividend whose sign bit is set
  (`x64primop.c:1504` compares signed), and `idiv16` and `idiv32` of the smallest
  dividend by 1 or -1 (`abs` at 1351 and 1377 is undefined there). The other way round,
  a signed quotient that is the smallest number traps though it fits, and the
  property allows it.
- `Excludes` and `NoneLost` (of `PoolSound`) hold only until two calls meet on a mutex that
  has no host mutex yet (`raced`): two threads that first
  use a statically initialised mutex at once. The second test ("check again, it
  might be created now") comes after `mutex_mutexes` is released and before the four
  stores, so both may install: two host mutexes for one, a slot that is lost, or a
  thread that sees `self` and `sign` before `m`. For a copied mutex `self` alone
  makes it look installed while `m` still is the original's: the second call then locks
  the host mutex of the original. That is why the condition is about all mutexes,
  and not about each one.
- `UnmappedForgotten` leaves out the blocks of the pages in `cut`: when `mremap` shrinks a
  mapping, the size it passes to `cleanDBFromAddressRange` is negative and wraps
  (`wrappedlibc.c:2266`), and the blocks stay until the page is unmapped again,
  mapped `PROT_NONE` or moved away.
- `FreeCount` (of `PoolSound`) and `NoSharedHost` need a program that destroys no locked mutex (the
  slot is freed although the host answers EBUSY) and no copy that was never used
  (its slot is the original's).
- `OpenIsLive`, `DepsFirst`, `FiniAfterInit` and `InitRuns` leave out everything after
  a dlopen that failed (`failed`): `deferedInit` stays set (`wrappedlibdl.c:150-158`),
  so that the init of a library that is opened again waits for the next dlopen that
  succeeds, the list of an outer dlopen is deferred again, and a retry of the failed
  dlopen succeeds with a dependency that was neither relocated nor initialised. At
  exit the fini functions of such libraries run though no init did. A reload that
  fails counts as such a dlopen: `ReloadLibrary` returns 1 (`library.c:465-484`) and
  `my_dlopen` does not look (`wrappedlibdl.c:130-134`), so that the handle is open and no
  init has run.
- `OpenIsLive` leaves out what was closed by a handle of its own, which `dlclose`
  finishes even if an open library needs it, and libraries opened again by an init
  that their own dlopen runs (`reentered`), which get two handles. `DepsFirst` leaves
  out what is pending in the list of an outer dlopen, which a dlopen of an init function
  may need, what was closed, and cycles.

What the code is exposed to and no property states, besides the hazards that
PROJECT.json lists with a note:

- `AddHotPage` runs in a signal handler under `mutex_dynarec_prot`, the lookups under
  `mutex_dyndump`: a lookup can meet a slot between two stores (`dynablock.c:433`).
- A cancelled fill does not reset `current_helper`: a later SIGSEGV under
  `mutex_dyndump` would jump into a frame that has returned (`dynablock.c:343`).
- `MarkRangeDynablock` looks at earlier lists only if the list of the address has a
  `direct` array (`dynablock.c:218`), and `munmap` of the second page of a block over
  two lists frees nothing (`dynablock.c:186`).
- `isprotectedDB` reads `memprot` without its mutex (`custommem.c:847`), and between
  the kernel's `mprotect` and `updateProtection` a store of another thread to a
  protected page is not seen (`wrappedlibc.c:2317`).
- The handler decides from the byte it read before `unprotectDB` whether the program
  may write (`signals.c:875`), and the fini array is read as 32-bit addresses
  (`elfloader.c:1236`).

## 6. Proofs

Checked by TLAPS, for every value of the constants that satisfies the modules'
assumptions.

- **`DynablockProofs!OnlyAddedPagesAlways`** (about `HotPage`). Inductive invariant: the types,
  `IdleSlotsSingle` and `OnlyAddedPages`. A slot that is grown must already hold
  declared pages only, in use or not. Assumed: page 1 is never code (nothing is
  mapped below `LOWEST`), so that a slot never used, whose page is 0, is not
  adjacent to any.
- **`DynablockProofs!CounterNeverAbove`** (about `HotPage`). `hotpages` never exceeds the number of
  slots in use, by the same split of steps: `CountDown` retires a slot exactly when
  it decrements, and a slot that is grown or renewed is counted at most once.
- **`DynablockProofs!TypeCorrect`**: types, from the invariant that a thread
  which follows its block pointer has one (`PointerHeld`).
- **`DynablockProofs!LockDisciplineAlways`, `NestedAddAlwaysFindsEmpty`,
  `MutualExclusion`**, for any number of threads. The two invariants are
  inductive together: the owner follows the program counter only if the nested
  `AddNewDynablock` never takes its unlocking branch; and that the entry stays
  empty follows from its owner being alone in the section where entries are
  filled. The steps are sorted by where they start and end: inside the section,
  outside it, or across its border.
- **`DynablockProofs!DirectAlwaysAlive`, `JumpTableAlwaysClean`**, for one
  thread and any addresses, pages and cells. The invariant `BlockInv` has to say
  how blocks hang together: fathers and sons live and die together and point to
  each other (`Tree`), two live blocks never start at one address (`Unique`), and
  every live block is in `direct` or belongs to the call in progress
  (`Registered`, `CallOK`). Without `Unique`, freeing a block could empty the entry
  of another; without `Registered`, a second block could be made for an address
  that has one.
- **`DynablockProofs!CleanAlwaysMatchesMemory`, `UnprotectedAlwaysMarked`**, if
  in addition a page that can be unmapped is the first page of every block that
  touches it. `CodeInv` adds to `BlockInv` that the hash of a clean block is that of
  its pages and that they are protected (`CodeOK`), less what the handler is
  about to mark or the fill has not finished (`FillOK`). The restriction is one the code needs:
  `munmap` frees the blocks that *start* in the range (section 5).
- **`MapMemProofs!AlwaysCoarsest`, `HeadAlwaysStays`**: `ListInv` adds what holds
  inside the loops (blocks before the one being fused are apart from it; blocks
  the removal has passed are outside its range; the cursor is reset between
  calls).
- **`MapMemProofs!ListImplementsPages`**: under the mapping `Mapped` (the blocks
  of the list and the one being fused, less the range that is being removed), the
  call's first step is the abstract step and every iteration a stutter.
- **`MapMemProofs!NullAlwaysMeansFull`**: the free range that a search overlooked
  would begin after the last block that begins before it; between that block and the
  next lies a hole that contains the range, and rounding up to the granularity does not
  pass an aligned page, so that the search would have been offered it. The
  range must not pass the end of the address space, where the unsigned sizes wrap.
- **`MemProtProofs!DynarecAlwaysProtected`, `UnmappedAlwaysForgotten`**, for a
  program with one thread, any pages and any protections, `mremap` included; the blocks
  of a page in `cut` are all that may stay behind. Between the kernel's
  step and box64's the two records disagree on the page under the call, so that
  `ProtInv` says that every *other* page is settled, and what the call has done
  to its own page so far.

- **`MemProtProofs!LegalStoreAlwaysRecovered`**, for one thread without `mremap`
  that moves (`Moved = {}`): to `ProtInv`, `LegalInv` adds that a page the program
  may write is writable for the kernel or carries `PROT_DYNAREC`, except for what
  the call in progress still owes its own page.
- **`MemProtProofs!CleanAlwaysFresh`**, for one thread without `MAP_FIXED`, moves or
  shrinking, and executable pages that are writable: `CleanInv` adds that
  a page with clean blocks carries `PROT_DYNAREC`, so that `ProtInv` keeps it protected. All these
  restrictions are behaviours of section 5 in which the property fails.
- **`GuestMutexProofs!PoolAlwaysSound`, `NeverSharedHost`, `AlwaysExcludes`**, for any
  number of threads, mutexes, blocks and slots. `MutexInv` says who owns a slot at
  every step of `getAlignedMutexWithInit` (`SlotsExclusive`: a call that carries a
  slot, or a mutex that is installed, and never two of them), that a
  mutex under `pthread_mutex_init` has no company (`InitAlone`), and, as long as `raced`
  is empty, that at most one call installs a mutex (`Unraced`). A second strengthening,
  `IndexOwned`, is needed for what happens after a race, when calls, copies and
  destroys go on: once no call is about to store an index, the one stored names a taken
  slot that is nobody else's, though it need not be the one the object points to. The count of a
  block (`FreeCount`) is by cardinality, from the library's facts on finite sets. Nothing
  in the proofs uses the bound `MaxRaced`.
- **`ChainProofs`** is the ground for the next two. What the run checks of a chain
  (`ChainSound`) walks it with recursive functions and is not inductive. `Chained`
  says the same mark by mark: the subblock after a mark ends at the next mark, whose
  `prev` agrees in size and flag, no mark lies in between, and two free subblocks are
  never neighbours. `AllocChained` and `FreeChained` prove that `allocBlock` and
  `freeBlock` keep it, with or without a remainder and for all four
  combinations of neighbours; `ChainedIsSound` that it implies `ChainSound`. What a
  walk returns is proved without induction: a set is named that satisfies the
  walk's equation (the marks from here on, the least one with room, the greatest free
  size), and two functions that satisfy it are equal, since otherwise
  there would be a last mark at which they differ (`SameForward`, `SameBackward`).
- **`CustomMemProofs!BlocksAlwaysSound`, `MaxFreeAlwaysTrue`, `CopyAlwaysFits`,
  `CustomMemImplementsAllocator`**, for any number of threads, blocks and sizes. `ArenaInv`:
  every block is `Chained` and its `maxfree` is the greatest free subblock, or 0 if that
  one is not worth a mark; the filled subblocks are the callers' chunks, each with
  room for what was asked; and a realloc under way holds its chunks alone, the old one
  smaller than what it asked for, which is why the copy made without the lock fits.
  That chunks are disjoint is not in the invariant: it follows from `Chained`.
- **`DynarecMapProofs!MapsAlwaysSound`, `NeverLockedAlways`, `LookupAlwaysFinds`,
  `DynarecMapImplementsAllocator`**, for any sizes, any number of maps and any `HelperMax`.
  `MapInv` adds to the chains that `first` is the first free subblock (`FirstOK`), so that
  a search from there misses nothing and a map whose `maxfree` promises room has it;
  that no byte of the helper leads out of its map (`HelperOK`), whence the walk
  back exists; and what the bytes over each chunk in use say (`HelperFor`: all but
  the one at `HelperMax`). A step keeps the bytes of the other chunks although
  `FindFreeDynarecMap` writes one byte behind its chunk and `ActuallyFreeDynarecMap`
  clears from the mark on: both only reach marks, which lie between the chunks
  (`FilledApart`).

- **`LibraryProofs!ListsSoundTheorem`**, for any graph of libraries, cycles included.
  `Structure` says of every call under way what it was given, what it has added and what it
  waits for (`CallOK`), that calls for libraries go down the graph
  (`CallsOK`), that `depended` is the converse of `needed` and that what a library needs is
  global (`GraphOK`). The delicate step is `NativeReturns`: the library a wrapped one
  is added as must not have been added by the calls in between, which load what it
  needs. Hence the assumption that no wrapped library needs itself: with one, the
  code would create it again and again, since it is in no list while `initNativeLib`
  loads. Reachability needs no induction: `ReachIn` is the least
  closed set, so that it is enough to exhibit a closed set (`ReachLeast`).
- **`LibraryProofs!ExitOrderTheorem`**, whatever failed before. `ExitOK`: the calls of
  `freeLibraryRecurse` are a path up the graph, and a freed library has its
  dependents in the same list freed, or entered and on that path, which then closes a cycle.
  Across the lists it holds because what a library needs is global and the
  local list is freed first. From direct to all dependents, for a library `l`: if an owned library that needs it were not
  freed, the libraries other than `l` that do not need it or are not freed would be a
  closed set without `l`.
- **`LibraryProofs!DepsFirstTheorem`, `FiniAfterInitTheorem`**. `Running` has four layers:
  nothing loaded is forgotten (`Complete`: finalized, or some call will come to it, and a
  finalized library has all it needs in its list); each list of inits has a library behind
  what it needs, unless that is done or pending in a frame further out (`InitsOK`
  with `Ordered`); a dlopen with another above it is inside an init function
  (`Waiting`); and fini functions have run only for libraries with a closed handle of
  their own (`FiniOK`, `OneDlopened`). `Ordered` is where cycles are left out:
  `Complete` alone gives that all a library needs is finalized *before* it only if
  no call under way is waiting for that library.
- **`LibraryProofs!OpenIsLiveTheorem`** adds `OneHandle`: a library that was not
  `reentered` has one handle, or one frame, or a frame that counts on its closed handle, and
  is inactive only when closed.

Only model-checked: the liveness properties (`CoolsDown`, `LockReleased`,
`CallReturns`, `StoreSettles`, `InitRuns`), which need fairness, and those of `LazyFlags`, since
`Primop` uses `Bitwise`. Both are out of the prover's reach. Every other property of a
passing run is a theorem.

## 7. Not modelled

Most of the repository is text that a model could only repeat. Of its 155000
lines, some 65000 are tables of wrapped functions and generated glue
(`wrapped/*_private.h`, `wrapped/generated`), with no control of their own; some
40000 are `switch` statements over opcodes, one case per instruction, in the
interpreter and again in the translator, with their helpers; the rest of the
wrappers convert arguments. The map covers the code that has state shared between
calls or threads, and that is a few thousand lines.

- What instructions mean beyond integer arithmetic and its flags, decoding, and
  what is emitted for them (interpreter, arm64 translator): operations on 64- and
  128-bit values. In the modelled part: `aaa`, `aas`, `aad`, `aam`, `daa`, `das`,
  `shld16`, `shrd16`.
- Wrapped libraries, structure alignment, GTK and android shims: conversions of
  arguments, mostly generated, without state.
- ELF reading, relocation and dumps, symbol lookup, start-up: sequential.
- Bridges: a table filled under a mutex, but for one test outside it (`hazards`).
- Guest signals beyond the fault handler; threads beyond their mutexes; TLS growth.
- In the modelled parts: `DBAlternateBlock`; the several lists of 64K a range may
  cross; leaving the running block after it wrote to itself; the on-demand levels
  of `memprot` and of the jump table; `MAP_32BIT` retries; pages that
  share their memory, as those that `mremap` with `old_size` 0 maps twice do;
  several threads in the list of mapped memory, which has no lock; half-written
  slots of the hot page table; mmap that fails; `BOX64_ALLOWMISSINGLIBS`,
  `LD_PRELOAD` and `dlopen(NULL)`; two threads in dlopen, which has no lock; fini
  functions that call dlopen or dlclose; relocation that fails in a first load; the two
  libraries whose needs `AddNeededLib_init` completes itself (`librarian.c:322-329`).

## 8. Plan

Done, in this order: `HotPage`, `Dynablock`, `MapMem` over `MappedPages` (refinement
proved), `MemProt`, `BlockChain` with `CustomMem` and `DynarecMap` over `Allocator`,
`Primop` and `LazyFlags`, `GuestMutex`, `Library`; then the proofs of section 6.

Next:

1. The handler's own state (`current_helper`, its jump buffer) composed with
   `Dynablock`.
2. The geometry of the lists as a refinement of `MarkRange` and `FreeRange`.
3. Proofs: which of the properties of `Dynablock` survive with several threads if
   the unlocked reads of section 5 are taken out.
