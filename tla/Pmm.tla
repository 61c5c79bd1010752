--------------------------------- MODULE Pmm ---------------------------------
(***************************************************************************)
(* The physical memory manager (mm/pmm.c): a bitmap of frames, a count of  *)
(* the free ones, the cursor where the next search starts, and a table of  *)
(* extra references.  Every operation runs under pmm_lock.                 *)
(*                                                                         *)
(* runs are the runs of frames that kernel code has and will give back     *)
(* with pmm_free_contiguous; any other frame that is used, except those of *)
(* the reference table, goes back with pmm_free_page.                      *)
(***************************************************************************)
EXTENDS Integers, FiniteSets, FiniteSetsExt

CONSTANTS
  frame_limit,  \* the frames are 1 .. frame_limit - 1; frame 0 is never used
  MaxRefs,      \* UINT16_MAX
  MaxRun        \* bound on the length of a run

ASSUME PmmAssumption ==
  frame_limit \in Nat \ {0, 1} /\ MaxRefs \in Nat /\ MaxRun \in Nat \ {0}

VARIABLES
  usable,       \* frames the boot loader's memory map says are usable
  table,        \* frames of the reference table, {} when there is no table
  frame_bitmap, free_frames, allocation_cursor, frame_refs,
  runs,         \* runs given out, as <<first frame, length>>
  got           \* <<n, f>>: the latest request, for n frames, returned f, 0 if it failed

vars == <<usable, table, frame_bitmap, free_frames, allocation_cursor, frame_refs, runs, got>>

Frame == 1 .. frame_limit - 1
Run(f, n) == f .. f + n - 1
RunFrames == UNION {Run(r[1], r[2]) : r \in runs}

TypeOK ==
  /\ usable \in SUBSET Frame /\ table \in SUBSET Frame
  /\ frame_bitmap \in SUBSET Frame
  /\ free_frames \in 0 .. frame_limit - 1
  /\ allocation_cursor \in 1 .. frame_limit
  /\ frame_refs \in [Frame -> 0 .. MaxRefs]
  /\ runs \in SUBSET (Frame \X (2 .. MaxRun))
  /\ got \in (0 .. MaxRun) \X (0 .. frame_limit - 1)

(* pmm_init: the reference table takes the first usable frames, here one,  *)
(* or cannot be had.                                                       *)
Init ==
  /\ usable \in (SUBSET Frame) \ {{}}
  /\ table \in {{}, {Min(usable)}}
  /\ frame_bitmap = (Frame \ usable) \cup table
  /\ free_frames = Cardinality(usable \ table)
  /\ allocation_cursor = IF table = {} THEN 1 ELSE Min(usable) + 1
  /\ frame_refs = [f \in Frame |-> 0]
  /\ runs = {}
  /\ got = <<0, 0>>

-----------------------------------------------------------------------------
Free(f) == f \notin frame_bitmap

(* The two passes of a search: from the cursor up, then below the cursor.  *)
(* A run lies wholly in one of them.                                       *)
Fits(f, n, lo, hi) == f >= lo /\ f + n <= hi /\ \A g \in Run(f, n) : Free(g)

(* Mutant of Passes: the search does not start again from the bottom. *)
OnePass(n) == <<{f \in Frame : Fits(f, n, allocation_cursor, frame_limit)}, {}>>

Passes(n) ==
  <<{f \in Frame : Fits(f, n, allocation_cursor, frame_limit)},
    {f \in Frame : Fits(f, n, 1, allocation_cursor)}>>

Found(n) ==
  LET p == Passes(n)
  IN IF p[1] # {} THEN Min(p[1]) ELSE IF p[2] # {} THEN Min(p[2]) ELSE 0

(* Mutant of Taken: only the first frame of a run is marked. *)
TakenFirst(f, n) == {f}

Taken(f, n) == Run(f, n)

Take(f, n) ==
  /\ frame_bitmap' = frame_bitmap \cup Taken(f, n)
  /\ free_frames' = free_frames - n
  /\ allocation_cursor' = f + n
  /\ got' = <<n, f>>
  /\ UNCHANGED <<usable, table, frame_refs>>

Fail(n) ==
  /\ got' = <<n, 0>>
  /\ UNCHANGED <<usable, table, frame_bitmap, free_frames, allocation_cursor, frame_refs, runs>>

(* pmm_allocate_page. *)
AllocatePage ==
  LET f == IF free_frames = 0 THEN 0 ELSE Found(1)
  IN IF f = 0 THEN Fail(1) ELSE Take(f, 1) /\ UNCHANGED runs

(* pmm_allocate_contiguous, of more than one frame. *)
AllocateContiguous(n) ==
  LET f == IF n > free_frames THEN 0 ELSE Found(n)
  IN IF f = 0 THEN Fail(n) ELSE Take(f, n) /\ runs' = runs \cup {<<f, n>>}

ReleaseCursor(F) == Min({allocation_cursor} \cup F)

Release(F) ==
  /\ frame_bitmap' = frame_bitmap \ F
  /\ free_frames' = free_frames + Cardinality(F \cap frame_bitmap)
  /\ allocation_cursor' = ReleaseCursor(F \cap frame_bitmap)

(* pmm_free_contiguous, by the owner of a run. *)
FreeContiguous(r) ==
  /\ r \in runs
  /\ Release(Run(r[1], r[2]))
  /\ runs' = runs \ {r}
  /\ UNCHANGED <<usable, table, frame_refs, got>>

(* A frame somebody has got from pmm_allocate_page. *)
Owned(f) == f \in (usable \cap frame_bitmap) \ (table \cup RunFrames)

(* Mutant of LastReference: the last owner only drops a reference too. *)
NoReference(f) == FALSE

LastReference(f) == table = {} \/ frame_refs[f] = 0

(* pmm_free_page, by an owner. *)
FreePage(f) ==
  /\ Owned(f)
  /\ IF LastReference(f)
     THEN Release({f}) /\ UNCHANGED frame_refs
     ELSE /\ frame_refs' = [frame_refs EXCEPT ![f] = @ - 1]
          /\ UNCHANGED <<frame_bitmap, free_frames, allocation_cursor>>
  /\ UNCHANGED <<usable, table, runs, got>>

(* pmm_frame_ref, by an owner; without a table, or at the limit, it fails. *)
FrameRef(f) ==
  /\ Owned(f)
  /\ table # {}
  /\ frame_refs[f] < MaxRefs
  /\ frame_refs' = [frame_refs EXCEPT ![f] = @ + 1]
  /\ UNCHANGED <<usable, table, frame_bitmap, free_frames, allocation_cursor, runs, got>>

Next ==
  \/ AllocatePage
  \/ \E n \in 2 .. MaxRun : AllocateContiguous(n)
  \/ \E r \in runs : FreeContiguous(r)
  \/ \E f \in Frame : FreePage(f) \/ FrameRef(f)

Spec == Init /\ [][Next]_vars

-----------------------------------------------------------------------------
(* Properties.                                                             *)

(* free_frames, which decides whether a search is made at all and what     *)
(* pmm_free_bytes tells the swap daemon and the OOM killer, is the number  *)
(* of clear bits.                                                          *)
FreeCounted == free_frames = Cardinality(Frame \ frame_bitmap)

Store == INSTANCE FrameStore WITH
  Managed <- Frame,
  owners <- [f \in Frame |-> IF f \in frame_bitmap THEN frame_refs[f] + 1 ELSE 0]

(* Whatever the cursor, the runs and the references have been through,     *)
(* pmm_allocate_page and pmm_allocate_contiguous give out frames without   *)
(* an owner, and a page is refused only when there is none.                *)
ImplementsFrameStore == Store!FSSpec

=============================================================================
