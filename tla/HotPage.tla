------------------------------ MODULE HotPage ------------------------------
(***************************************************************************)
(* The hot-page table of the dynarec (src/dynarec/dynablock.c).  A page of *)
(* x64 code that keeps being written to is declared hot: for a while no    *)
(* block is translated from it and no marked block of it is revalidated,   *)
(* so that the program runs in the interpreter instead of being translated *)
(* and invalidated over and over.                                          *)
(*                                                                         *)
(* The table is an array of slots.  A slot holds a run of consecutive      *)
(* pages [page .. page+size] and the number of refusals it still has to    *)
(* give.  "hotpages" caches the number of slots in use, so that the common *)
(* case (no hot page at all) costs one comparison.  Addresses are page     *)
(* numbers (addr >> 12): the code rounds them before it compares.          *)
(*                                                                         *)
(* Each function is one action.  AddHotPage runs under mutex_dynarec_prot  *)
(* and the two lookups under mutex_dyndump, so a lookup may in fact read a *)
(* slot half-written by AddHotPage; what such a lookup can get wrong is    *)
(* one refusal, and it is not modelled.                                    *)
(***************************************************************************)
EXTENDS Integers, FiniteSets

CONSTANTS
  NSlots,     \* MAX_HOTPAGE
  Step,       \* HOTPAGE_STEP: the refusals given to a page that becomes hot
  LowPage, MaxPage,  \* the pages of x64 code are LowPage..MaxPage
  MaxAdds     \* bound: how many times the signal handler declares a page hot

ASSUME HotPageAssumption ==
  /\ NSlots \in Nat \ {0}
  /\ Step \in Nat \ {0}
  /\ LowPage \in Nat \ {0, 1}   \* nothing is mapped below LOWEST (custommem.c)
  /\ MaxPage \in Nat \ {0}
  /\ MaxAdds \in Nat

Slot == 0 .. NSlots - 1
HotPages == LowPage .. MaxPage

VARIABLES
  hotpage,        \* hotpage[i]: first page of slot i (0 in a slot never used)
  hotpage_size,   \* hotpage_size[i]: pages of slot i beyond the first
  hotpage_count,  \* hotpage_count[i]: refusals left in slot i
  hotpages,       \* cached number of slots in use
  added,          \* history: the pages AddHotPage was ever called with
  lastAdded,      \* history: the page of the last call if it was AddHotPage, or 0
  adds            \* number of AddHotPage calls so far (bounded by MaxAdds)

hotVars == <<hotpage, hotpage_size, hotpage_count, hotpages, added, lastAdded, adds>>

HotInit ==
  /\ hotpage       = [i \in Slot |-> 0]
  /\ hotpage_size  = [i \in Slot |-> 0]
  /\ hotpage_count = [i \in Slot |-> 0]
  /\ hotpages  = 0
  /\ added     = {}
  /\ lastAdded = 0
  /\ adds      = 0

-----------------------------------------------------------------------------
(* The pages of slot i, and the slots that still refuse.                   *)
Region(i) == hotpage[i] .. hotpage[i] + hotpage_size[i]
Active    == {i \in Slot : hotpage_count[i] > 0}

(* The slots that IntervalIntersects finds for the pages first..last.      *)
Hits(first, last) ==
  {i \in Active : first <= hotpage[i] + hotpage_size[i] /\ hotpage[i] <= last}

(* What IsInHotPage and AreaInHotPage answer for these pages.              *)
Refuses(first, last) == hotpages # 0 /\ Hits(first, last) # {}

IsLowest(i, S) == i \in S /\ \A j \in S : i <= j

(* Mutant of CountDown: no refusal is consumed.                            *)
CountDownForgotten(i) == UNCHANGED <<hotpage_count, hotpages, hotpage_size>>

(* Slot i gives one refusal; the last one retires the slot.                *)
CountDown(i) ==
  /\ hotpage_count' = [hotpage_count EXCEPT ![i] = @ - 1]
  /\ IF hotpage_count[i] = 1
       THEN /\ hotpages' = hotpages - 1
            /\ hotpage_size' = [hotpage_size EXCEPT ![i] = 0]
       ELSE UNCHANGED <<hotpages, hotpage_size>>

(* IsInHotPage(addr) is the case first = last; AreaInHotPage(start, end)   *)
(* the general one.  The lowest slot that matches answers.                 *)
AreaInHotPage(first, last) ==
  /\ lastAdded' = 0
  /\ UNCHANGED <<hotpage, added, adds>>
  /\ \/ /\ ~ Refuses(first, last)
        /\ UNCHANGED <<hotpage_size, hotpage_count, hotpages>>
     \/ /\ Refuses(first, last)
        /\ \E i \in Slot : IsLowest(i, Hits(first, last)) /\ CountDown(i)

IsInHotPage(p) == AreaInHotPage(p, p)

-----------------------------------------------------------------------------
(* The three ways a slot, in use or not, is taken over for page p.         *)
Covers(i, p)   == p \in Region(i)
JustAbove(i, p) == p = hotpage[i] + hotpage_size[i] + 1
JustBelow(i, p) == p + 1 = hotpage[i]
Fits(p) == {i \in Slot : Covers(i, p) \/ JustAbove(i, p) \/ JustBelow(i, p)}

Rearm(i) == hotpage_count' = [hotpage_count EXCEPT ![i] = Step]

(* The page is in slot i already.                                          *)
SameSlot(i, p) ==
  /\ Covers(i, p)
  /\ hotpages' = IF hotpage_count[i] = 0 THEN hotpages + 1 ELSE hotpages
  /\ Rearm(i)
  /\ UNCHANGED <<hotpage, hotpage_size>>

(* Mutant of GrowSlot: a page below the run does not become its first page. *)
GrowSlotUpOnly(i, p) ==
  /\ ~ Covers(i, p)
  /\ hotpage_size' = [hotpage_size EXCEPT ![i] = @ + 1]
  /\ Rearm(i)
  /\ UNCHANGED <<hotpage, hotpages>>

(* The page touches the run of slot i, which grows by one page.            *)
GrowSlot(i, p) ==
  /\ ~ Covers(i, p)
  /\ hotpage_size' = [hotpage_size EXCEPT ![i] = @ + 1]
  /\ hotpage' = IF JustAbove(i, p) THEN hotpage ELSE [hotpage EXCEPT ![i] = p]
  /\ Rearm(i)
  /\ UNCHANGED hotpages

(* No slot fits: the one with the fewest refusals left is taken over.      *)
IsMinimum(i) ==
  \A j \in Slot : /\ hotpage_count[i] <= hotpage_count[j]
                  /\ j < i => hotpage_count[i] < hotpage_count[j]

(* Mutant of NewSlot: an eviction is counted as a new slot.                *)
NewSlotCountsTwice(i, p) ==
  /\ hotpages' = hotpages + 1
  /\ hotpage_size' = [hotpage_size EXCEPT ![i] = 0]
  /\ hotpage' = [hotpage EXCEPT ![i] = p]
  /\ Rearm(i)

NewSlot(i, p) ==
  /\ IF hotpage_count[i] > 0
       THEN /\ hotpage_size' = [hotpage_size EXCEPT ![i] = 0]
            /\ UNCHANGED hotpages
       ELSE /\ hotpages' = hotpages + 1
            /\ UNCHANGED hotpage_size
  /\ hotpage' = [hotpage EXCEPT ![i] = p]
  /\ Rearm(i)

AddHotPage(p) ==
  /\ adds < MaxAdds
  /\ adds' = adds + 1
  /\ added' = added \cup {p}
  /\ lastAdded' = p
  /\ \/ \E i \in Slot : IsLowest(i, Fits(p)) /\ (SameSlot(i, p) \/ GrowSlot(i, p))
     \/ /\ Fits(p) = {}
        /\ \E i \in Slot : IsMinimum(i) /\ NewSlot(i, p)

-----------------------------------------------------------------------------
HotNext ==
  \/ \E p \in HotPages : AddHotPage(p)
  \/ \E p \in HotPages : IsInHotPage(p)
  \/ \E p \in HotPages, q \in HotPages : p < q /\ AreaInHotPage(p, q)

(* The program keeps reaching its code: every page is asked for forever.   *)
HotFairness == \A p \in HotPages : WF_hotVars(IsInHotPage(p))

HotSpec == HotInit /\ [][HotNext]_hotVars /\ HotFairness

-----------------------------------------------------------------------------
(* Every variable stays in its type: counts never go below 0 nor above     *)
(* HOTPAGE_STEP, and no run is longer than the pages there are.            *)
HotTypeOK ==
  /\ hotpage       \in [Slot -> 0 .. MaxPage]
  /\ hotpage_size  \in [Slot -> 0 .. MaxPage]
  /\ hotpage_count \in [Slot -> 0 .. Step]
  /\ hotpages  \in Int
  /\ added     \in SUBSET HotPages
  /\ lastAdded \in 0 .. MaxPage
  /\ adds      \in 0 .. MaxAdds

(* Only pages that were declared hot are refused: whatever slots are       *)
(* extended, retired and taken over, a run never grows over a page the     *)
(* program did not write to.  (Page 0, which an unused slot holds, cannot  *)
(* be mapped.)  dynablock.c, AddHotPage.                                   *)
OnlyAddedPages == \A i \in Slot : Region(i) \subseteq added \cup {0}

(* A slot that has given its last refusal holds a single page: the code    *)
(* relies on it when it takes an idle slot over without resetting its size *)
(* (dynablock.c, the else branch at the end of AddHotPage).                *)
IdleSlotsSingle == \A i \in Slot : hotpage_count[i] = 0 => hotpage_size[i] = 0

(* The cached counter never exceeds the number of slots in use, so a       *)
(* lookup that scans the table because of it scans it for a reason.        *)
CounterNotAbove == hotpages <= Cardinality(Active)

(* A page that stops being written to cools down: it is translated again.  *)
CoolsDown == \A p \in HotPages : <>[](~ Refuses(p, p))

(* What the signal handler counts on when it declares a page hot: the next *)
(* attempt to translate the page is refused.  This fails (README, sec. 5). *)
HotAfterAdd == lastAdded # 0 => Refuses(lastAdded, lastAdded)
=============================================================================
