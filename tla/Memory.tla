------------------------------- MODULE Memory -------------------------------
(***************************************************************************)
(* Address spaces (mm/vmm.c) over frames with reference counts (mm/pmm.c)  *)
(* and swap slots (io/swap.c): demand paging, copy-on-write fork and swap. *)
(*                                                                         *)
(* Every operation runs under vmm_lock, so each is one action; a range is  *)
(* one page long.  A page table is a function from pages to entries; the   *)
(* frame of its root stands for the frames of all its levels.  The choice  *)
(* of a free frame (module Pmm), of a free slot, and of the page to swap   *)
(* out (a clock hand over all page tables) are left open.                  *)
(***************************************************************************)
EXTENDS Integers, FiniteSets

CONSTANTS
  Space, Page, Frame, Slot, Value,
  Zero, NoPage, NoFrame,
  MaxRefs,      \* UINT16_MAX, the limit of frame_refs
  MaxSwapRefs,  \* 255, where a slot's count sticks
  Prots         \* the protections mprotect is called with

ASSUME MemoryAssumption ==
  /\ IsFiniteSet(Space) /\ IsFiniteSet(Page)
  /\ Zero \in Value /\ NoPage \notin Value /\ NoFrame \notin Frame \cup Slot
  /\ MaxRefs \in Nat /\ MaxSwapRefs \in Nat \ {0, 1}
  /\ Prots \subseteq {"none", "read", "write"}

VARIABLES
  root,        \* the root table's frame, NoFrame when the space is not in use
  pte,         \* page tables
  used,        \* frame_bitmap
  frame_refs,  \* references to a frame beyond the first
  data,        \* contents of the frames
  swap_refs,   \* entries that refer to a slot
  disk         \* contents of the slots

vars == <<root, pte, used, frame_refs, data, swap_refs, disk>>

Entry == [kind : {"none", "present", "swap"}, at : Frame \cup Slot \cup {NoFrame},
          writable : BOOLEAN, user : BOOLEAN, cow : BOOLEAN, anon : BOOLEAN]
Empty == [kind |-> "none", at |-> NoFrame,
          writable |-> FALSE, user |-> FALSE, cow |-> FALSE, anon |-> FALSE]

TypeOK ==
  /\ root \in [Space -> Frame \cup {NoFrame}]
  /\ pte \in [Space -> [Page -> Entry]]
  /\ used \in SUBSET Frame
  /\ frame_refs \in [Frame -> 0 .. MaxRefs]
  /\ data \in [Frame -> Value]
  /\ swap_refs \in [Slot -> 0 .. MaxSwapRefs]
  /\ disk \in [Slot -> Value]

Init ==
  /\ root = [s \in Space |-> NoFrame]
  /\ pte = [s \in Space |-> [p \in Page |-> Empty]]
  /\ used = {}
  /\ frame_refs = [f \in Frame |-> 0]
  /\ data = [f \in Frame |-> Zero]
  /\ swap_refs = [i \in Slot |-> 0]
  /\ disk = [i \in Slot |-> Zero]

-----------------------------------------------------------------------------
(* Frames and slots.  A list of frames or slots to release holds each at   *)
(* most once: no page table refers to one twice.                           *)

Live(s) == root[s] # NoFrame
FreeFrames == Frame \ used
FreeSlots == {i \in Slot : swap_refs[i] = 0}

(* Mutant of KeepsFrame: the frame goes with its first mapping. *)
KeepsFrameNever(f) == FALSE

(* Mutant of KeepsFrame: the last mapping only drops a reference too. *)
KeepsFrameAlways(f) == TRUE

(* pmm_free_page: drop a reference, or free the frame with the last. *)
KeepsFrame(f) == frame_refs[f] > 0

FreePages(F) ==
  /\ used' = used \ {f \in F : ~KeepsFrame(f)}
  /\ frame_refs' = [f \in Frame |-> IF f \in F /\ KeepsFrame(f) THEN frame_refs[f] - 1
                                                               ELSE frame_refs[f]]

(* Mutant of SwapFreed: a saturated count goes down too. *)
SwapFreedSaturated(I, refs) == [i \in Slot |-> IF i \in I THEN refs[i] - 1 ELSE refs[i]]

(* swap_free of each slot in I: a count that has reached its limit stays   *)
(* there for ever.                                                         *)
SwapFreed(I, refs) ==
  [i \in Slot |-> IF i \in I /\ refs[i] \notin {0, MaxSwapRefs} THEN refs[i] - 1 ELSE refs[i]]

FramesOf(s) == {pte[s][p].at : p \in {q \in Page : pte[s][q].kind = "present"}}
SlotsOf(s) == {pte[s][p].at : p \in {q \in Page : pte[s][q].kind = "swap"}}

-----------------------------------------------------------------------------
(* Mapping.                                                                *)

(* vmm_create_address_space. *)
Create(s) ==
  /\ ~Live(s)
  /\ \E f \in FreeFrames :
       /\ root' = [root EXCEPT ![s] = f]
       /\ used' = used \cup {f}
       /\ data' = [data EXCEPT ![f] = Zero]
  /\ UNCHANGED <<pte, frame_refs, swap_refs, disk>>

(* vmm_map_new_pages (mmap, the heap, the stack) and, with anon false, the *)
(* segments that elf.c maps.  Without a free frame nothing changes.        *)
MapNew(s, p, writable, anon) ==
  /\ Live(s)
  /\ pte[s][p].kind = "none"
  /\ \E f \in FreeFrames :
       /\ used' = used \cup {f}
       /\ data' = [data EXCEPT ![f] = Zero]
       /\ pte' = [pte EXCEPT ![s][p] = [kind |-> "present", at |-> f, writable |-> writable,
                                        user |-> TRUE, cow |-> FALSE, anon |-> anon]]
  /\ UNCHANGED <<root, frame_refs, swap_refs, disk>>

(* vmm_unmap_range. *)
Unmap(s, p) ==
  /\ Live(s)
  /\ pte[s][p].kind # "none"
  /\ pte' = [pte EXCEPT ![s][p] = Empty]
  /\ \/ /\ pte[s][p].kind = "present"
        /\ FreePages({pte[s][p].at})
        /\ UNCHANGED swap_refs
     \/ /\ pte[s][p].kind = "swap"
        /\ swap_refs' = SwapFreed({pte[s][p].at}, swap_refs)
        /\ UNCHANGED <<used, frame_refs>>
  /\ UNCHANGED <<root, data, disk>>

(* vmm_destroy_address_space. *)
Destroy(s) ==
  /\ Live(s)
  /\ root' = [root EXCEPT ![s] = NoFrame]
  /\ pte' = [pte EXCEPT ![s] = [p \in Page |-> Empty]]
  /\ FreePages(FramesOf(s) \cup {root[s]})
  /\ swap_refs' = SwapFreed(SlotsOf(s), swap_refs)
  /\ UNCHANGED <<data, disk>>

-----------------------------------------------------------------------------
(* Swap.                                                                   *)

Evictable(e) ==
  e.kind = "present" /\ e.user /\ e.anon /\ frame_refs[e.at] = 0

SwappedOut(e, i) == [e EXCEPT !.kind = "swap", !.at = i]
SwappedIn(e, f) == [e EXCEPT !.kind = "present", !.at = f]

(* swap_out_one_locked; when the write fails it puts everything back. *)
SwapOut(s, p) ==
  LET e == pte[s][p]
  IN /\ Evictable(e)
     /\ \E i \in FreeSlots :
          /\ pte' = [pte EXCEPT ![s][p] = SwappedOut(e, i)]
          /\ swap_refs' = [swap_refs EXCEPT ![i] = 1]
          /\ disk' = [disk EXCEPT ![i] = data[e.at]]
     /\ FreePages({e.at})
     /\ UNCHANGED <<root, data>>

(* swap_in_locked, where the caller turns the entry into e: into a free    *)
(* frame, or into the frame of a page that is swapped out to make room.    *)
(* When the read fails it gives the frame back.                            *)
SwapInAs(s, p, e) ==
  LET i == pte[s][p].at
  IN /\ pte[s][p].kind = "swap"
     /\ \/ /\ \E f \in FreeFrames :
                /\ used' = used \cup {f}
                /\ data' = [data EXCEPT ![f] = disk[i]]
                /\ pte' = [pte EXCEPT ![s][p] = SwappedIn(e, f)]
           /\ swap_refs' = SwapFreed({i}, swap_refs)
           /\ UNCHANGED <<frame_refs, disk>>
        \/ /\ FreeFrames = {}
           /\ \E r \in Space, q \in Page, j \in FreeSlots :
                LET f == pte[r][q].at
                IN /\ Evictable(pte[r][q])
                   /\ disk' = [disk EXCEPT ![j] = data[f]]
                   /\ data' = [data EXCEPT ![f] = disk[i]]
                   /\ pte' = [pte EXCEPT ![r][q] = SwappedOut(@, j), ![s][p] = SwappedIn(e, f)]
                   /\ swap_refs' = SwapFreed({i}, [swap_refs EXCEPT ![j] = 1])
           /\ UNCHANGED <<used, frame_refs>>
     /\ UNCHANGED root

-----------------------------------------------------------------------------
(* Access, page faults, protection and fork.                               *)

(* A user instruction, or the kernel for the process, writes a page. *)
Store(s, p, v) ==
  LET e == pte[s][p]
  IN /\ e.kind = "present" /\ e.user /\ e.writable
     /\ data' = [data EXCEPT ![e.at] = v]
     /\ UNCHANGED <<root, pte, used, frame_refs, swap_refs, disk>>

(* vmm_handle_cow_fault of an access to a page that is swapped out. *)
SwapFault(s, p) == SwapInAs(s, p, pte[s][p])

(* Mutant of Resolved: the entry keeps the frame it shares. *)
ResolvedInPlace(e, f) == [e EXCEPT !.writable = TRUE, !.cow = FALSE]

Resolved(e, f) == [e EXCEPT !.at = f, !.writable = TRUE, !.cow = FALSE]

(* cow_resolve_slot, of a write to a copy-on-write page: the last owner    *)
(* keeps the frame, the others get a copy.                                 *)
CowFault(s, p) ==
  LET e == pte[s][p]
  IN /\ e.kind = "present" /\ e.user /\ ~e.writable /\ e.cow
     /\ \/ /\ frame_refs[e.at] = 0
           /\ pte' = [pte EXCEPT ![s][p] = Resolved(e, e.at)]
           /\ UNCHANGED <<used, frame_refs, data>>
        \/ /\ frame_refs[e.at] > 0
           /\ \E f \in FreeFrames :
                /\ used' = used \cup {f}
                /\ frame_refs' = [frame_refs EXCEPT ![e.at] = @ - 1]
                /\ data' = [data EXCEPT ![f] = data[e.at]]
                /\ pte' = [pte EXCEPT ![s][p] = Resolved(e, f)]
     /\ UNCHANGED <<root, swap_refs, disk>>

(* vmm_page_prot_locked: the entry keeps its copy-on-write mark. *)
Protected(e, prot) ==
  [e EXCEPT !.user = prot # "none", !.writable = prot = "write" /\ ~e.cow]

(* vmm_protect_range; a page that is swapped out is swapped in first.  A   *)
(* missing page is mapped (MapNew).                                        *)
Protect(s, p, prot) ==
  LET e == Protected(pte[s][p], prot)
  IN \/ /\ pte[s][p].kind = "present"
        /\ pte' = [pte EXCEPT ![s][p] = e]
        /\ UNCHANGED <<root, used, frame_refs, data, swap_refs, disk>>
     \/ SwapInAs(s, p, e)

(* Mutant of Shared: the parent goes on writing the frame. *)
SharedByChild(e) == e

(* clone_table_level: what becomes of the parent's entry, and of a copy.   *)
Shared(e) ==
  IF e.kind = "present" /\ e.user /\ e.writable
  THEN [e EXCEPT !.writable = FALSE, !.cow = TRUE] ELSE e

(* vmm_clone_address_space, which takes a reference to every frame and     *)
(* slot. *)
Clone(s, c) ==
  /\ Live(s)
  /\ ~Live(c)
  /\ \A f \in FramesOf(s) : frame_refs[f] < MaxRefs
  /\ \A i \in SlotsOf(s) : swap_refs[i] < MaxSwapRefs
  /\ \E f \in FreeFrames :
       /\ root' = [root EXCEPT ![c] = f]
       /\ used' = used \cup {f}
       /\ data' = [data EXCEPT ![f] = Zero]
  /\ LET shared == [p \in Page |-> Shared(pte[s][p])]
     IN pte' = [pte EXCEPT ![s] = shared,
                           ![c] = [p \in Page |-> IF pte[s][p].kind = "present"
                                                  THEN shared[p] ELSE pte[s][p]]]
  /\ frame_refs' = [f \in Frame |-> frame_refs[f] + IF f \in FramesOf(s) THEN 1 ELSE 0]
  /\ swap_refs' = [i \in Slot |-> swap_refs[i] + IF i \in SlotsOf(s) THEN 1 ELSE 0]
  /\ UNCHANGED disk

(* The same when a table cannot be allocated or a count is at its limit:   *)
(* the copy of the pages in done is undone, but the parent's entries stay  *)
(* marked, and a slot's count that has reached its limit stays there.      *)
CloneFails(s, done) ==
  LET dup == {pte[s][p].at : p \in {q \in done : pte[s][q].kind = "swap"}}
  IN /\ Live(s)
     /\ FreeFrames # {}
     /\ \A i \in dup : swap_refs[i] < MaxSwapRefs
     /\ \A p \in done : pte[s][p].kind = "present" => frame_refs[pte[s][p].at] < MaxRefs
     /\ pte' = [pte EXCEPT ![s] = [p \in Page |-> IF p \in done THEN Shared(pte[s][p])
                                                                ELSE pte[s][p]]]
     /\ swap_refs' = [i \in Slot |-> IF i \in dup /\ swap_refs[i] = MaxSwapRefs - 1
                                     THEN MaxSwapRefs ELSE swap_refs[i]]
     /\ UNCHANGED <<root, used, frame_refs, data, disk>>

Next ==
  \E s \in Space :
    \/ Create(s) \/ Destroy(s)
    \/ \E p \in Page :
         \/ Unmap(s, p) \/ SwapOut(s, p) \/ SwapFault(s, p) \/ CowFault(s, p)
         \/ \E writable, anon \in BOOLEAN : MapNew(s, p, writable, anon)
         \/ \E prot \in Prots : Protect(s, p, prot)
         \/ \E v \in Value : Store(s, p, v)
    \/ \E c \in Space : Clone(s, c)
    \/ \E done \in SUBSET Page : CloneFails(s, done)

Spec == Init /\ [][Next]_vars

-----------------------------------------------------------------------------
(* Properties.                                                             *)

(* The entries of the page tables in table that refer to x. *)
Refs(table, kind, x) ==
  {m \in Space \X Page : table[m[1]][m[2]].kind = kind /\ table[m[1]][m[2]].at = x}
Mappings(f) == Refs(pte, "present", f)
Roots(f) == {s \in Space : root[s] = f}
Entries(i) == Refs(pte, "swap", i)

(* pmm_free_page returns a frame to the allocator exactly when its last    *)
(* mapping goes: frame_refs counts the others, across fork, failed fork,   *)
(* copy, swap and exit, so that no frame is reused while it is mapped and  *)
(* none is lost.                                                           *)
FramesCounted ==
  \A f \in Frame :
    Cardinality(Mappings(f)) + Cardinality(Roots(f))
      = IF f \in used THEN frame_refs[f] + 1 ELSE 0

(* The same for swap_free and swap slots, except that a count that has     *)
(* once reached its limit never goes down: such a slot may be lost, but it *)
(* is never reused while an entry refers to it.                            *)
SlotsCounted ==
  \A i \in Slot :
    \/ swap_refs[i] = Cardinality(Entries(i))
    \/ swap_refs[i] = MaxSwapRefs /\ Cardinality(Entries(i)) < MaxSwapRefs

(* A page that is writable without a fault (cow_resolve_slot,              *)
(* clone_table_level, vmm_page_prot_locked) has its frame to itself.       *)
WritableIsPrivate ==
  \A s \in Space, p \in Page :
    pte[s][p].kind = "present" /\ pte[s][p].writable => frame_refs[pte[s][p].at] = 0

Private == INSTANCE PrivateMemory WITH
  live <- {s \in Space : Live(s)},
  memory <- [s \in Space |-> [p \in Page |->
               IF pte[s][p].kind = "none" THEN NoPage
               ELSE IF pte[s][p].kind = "present" THEN data[pte[s][p].at]
               ELSE disk[pte[s][p].at]]]

(* vmm_clone_address_space copies: whatever is shared, copied on a fault,  *)
(* swapped out and swapped in, each process sees its own writes and no     *)
(* others.                                                                 *)
ImplementsPrivateMemory == Private!PMSpec

=============================================================================
