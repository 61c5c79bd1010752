------------------------------ MODULE PmmProofs ------------------------------
(***************************************************************************)
(* The physical memory manager for every number of frames, every limit on  *)
(* references and every length of runs: the count of free frames is right, *)
(* and it implements FrameStore.                                           *)
(*                                                                         *)
(* The refinement needs what no line of pmm.c says: a frame that is free   *)
(* has no reference left over, and the runs that are given out are in use, *)
(* unshared and apart from each other.                                     *)
(***************************************************************************)
EXTENDS Pmm, FiniteSetTheorems, TLAPS

NoStrayReference ==
  /\ \A f \in Frame \ frame_bitmap : frame_refs[f] = 0
  /\ table = {} => \A f \in Frame : frame_refs[f] = 0

RunsHeld ==
  \A r \in runs : \A g \in Run(r[1], r[2]) : g \in frame_bitmap /\ frame_refs[g] = 0

RunsApart ==
  \A q, r \in runs : q # r => Run(q[1], q[2]) \cap Run(r[1], r[2]) = {}

PmmInv == TypeOK /\ FreeCounted /\ NoStrayReference /\ RunsHeld /\ RunsApart

(* A non-empty set of naturals has a least member, which is what Min       *)
(* gives.                                                                  *)
LEMMA MinIsLeast ==
  ASSUME NEW S \in SUBSET Nat, S # {}
  PROVE  Min(S) \in S /\ \A x \in S : Min(S) <= x
<1>1. \E x \in S : \A y \in S : ~(<<y, x>> \in OpToRel(<, Nat))
  BY NatLessThanWellFounded, WFMin, Zenon
<1>2. ASSUME NEW x \in Nat, NEW y \in Nat, ~(<<y, x>> \in OpToRel(<, Nat))
      PROVE  x <= y
  BY <1>2 DEF OpToRel
<1>3. \E x \in S : \A y \in S : x <= y
  BY <1>1, <1>2, Zenon
<1> QED
  BY <1>3, Zenon DEF Min

(* A set of frames is finite and has at most all the frames. *)
LEMMA FramesBounded ==
  ASSUME NEW S \in SUBSET Frame
  PROVE  IsFiniteSet(S) /\ Cardinality(S) \in 0 .. frame_limit - 1
<1>1. IsFiniteSet(Frame) /\ Cardinality(Frame) = frame_limit - 1
  BY PmmAssumption, FS_Interval DEF Frame
<1> QED
  BY <1>1, PmmAssumption, FS_Subset, FS_CardinalityType

(* What a search returns is the start of a run of free frames. *)
LEMMA SearchIsSound ==
  ASSUME TypeOK, NEW n \in 1 .. MaxRun, Found(n) # 0
  PROVE  /\ Found(n) \in Frame /\ Found(n) + n \in 1 .. frame_limit
         /\ Run(Found(n), n) \subseteq Frame \ frame_bitmap
<1> DEFINE up == {f \in Frame : Fits(f, n, allocation_cursor, frame_limit)}
           low == {f \in Frame : Fits(f, n, 1, allocation_cursor)}
<1>1. Found(n) \in up \cup low
  <2>1. up \in SUBSET Nat /\ low \in SUBSET Nat
    BY PmmAssumption DEF Frame
  <2> HIDE DEF up, low
  <2> QED
    BY <2>1, MinIsLeast, Zenon DEF Found, Passes, up, low
<1>2. Found(n) \in Frame /\ Found(n) + n <= frame_limit /\ \A g \in Run(Found(n), n) : Free(g)
  <2>1. /\ Found(n) \in Frame /\ \A g \in Run(Found(n), n) : Free(g)
        /\ Found(n) + n <= frame_limit \/ Found(n) + n <= allocation_cursor
    BY <1>1, Zenon DEF Fits
  <2>2. allocation_cursor \in Int /\ allocation_cursor <= frame_limit /\ Found(n) + n \in Int
    BY <2>1, PmmAssumption DEF TypeOK, Frame
  <2>3. Found(n) + n <= frame_limit
    BY <2>1, <2>2, PmmAssumption
  <2> QED
    BY <2>1, <2>3, Zenon
<1> QED
  BY <1>2, PmmAssumption DEF Run, Free, Frame

(* A search for one frame misses none. *)
LEMMA SearchIsComplete ==
  ASSUME TypeOK, Found(1) = 0
  PROVE  Frame \subseteq frame_bitmap
<1> DEFINE up == {f \in Frame : Fits(f, 1, allocation_cursor, frame_limit)}
           low == {f \in Frame : Fits(f, 1, 1, allocation_cursor)}
<1>1. up \in SUBSET Nat /\ low \in SUBSET Nat /\ 0 \notin up \cup low
  BY PmmAssumption DEF Frame
<1>2. up = {} /\ low = {}
  <2> HIDE DEF up, low
  <2> QED
    BY <1>1, MinIsLeast DEF Found, Passes, up, low
<1>3. ASSUME NEW f \in Frame, Free(f) PROVE f \in up \cup low
  <2>1. Run(f, 1) = {f} /\ f + 1 <= frame_limit /\ f >= 1
    BY PmmAssumption DEF Run, Frame
  <2> QED
    BY <1>3, <2>1, PmmAssumption DEF Fits, Frame, TypeOK
<1> QED
  BY <1>2, <1>3, Zenon DEF Free

(* Marking a run of free frames takes as many frames from the free ones. *)
LEMMA CountTaken ==
  ASSUME FreeCounted, NEW f \in Frame, NEW n \in 1 .. MaxRun,
         Run(f, n) \subseteq Frame \ frame_bitmap
  PROVE  Cardinality(Frame \ (frame_bitmap \cup Run(f, n))) = free_frames - n
<1>1. Cardinality(Run(f, n)) = n
  BY PmmAssumption, FS_Interval DEF Run, Frame
<1>2. IsFiniteSet(Frame \ frame_bitmap)
  BY FramesBounded, Zenon
<1>3. Frame \ (frame_bitmap \cup Run(f, n)) = (Frame \ frame_bitmap) \ Run(f, n)
  BY Zenon
<1>4. (Frame \ frame_bitmap) \cap Run(f, n) = Run(f, n)
  BY Zenon
<1>5. Cardinality((Frame \ frame_bitmap) \ Run(f, n))
        = Cardinality(Frame \ frame_bitmap) - Cardinality((Frame \ frame_bitmap) \cap Run(f, n))
  BY <1>2, FS_Difference, Zenon
<1> QED
  BY <1>1, <1>3, <1>4, <1>5, Zenon DEF FreeCounted

(* Clearing bits gives back as many frames as were marked. *)
LEMMA CountReleased ==
  ASSUME TypeOK, FreeCounted, NEW F
  PROVE  Cardinality(Frame \ (frame_bitmap \ F)) = free_frames + Cardinality(F \cap frame_bitmap)
<1> DEFINE G == F \cap frame_bitmap
<1>1. IsFiniteSet(Frame \ frame_bitmap) /\ IsFiniteSet(G)
  BY FramesBounded, Zenon DEF TypeOK
<1>2. Frame \ (frame_bitmap \ F) = (Frame \ frame_bitmap) \cup G
  BY Zenon DEF TypeOK
<1>3. (Frame \ frame_bitmap) \cap G = {}
  BY Zenon
<1>4. Cardinality(Frame \ frame_bitmap) \in Nat /\ Cardinality(G) \in Nat
  BY <1>1, FS_CardinalityType, Zenon
<1>5. Cardinality((Frame \ frame_bitmap) \cup G)
        = Cardinality(Frame \ frame_bitmap) + Cardinality(G)
            - Cardinality((Frame \ frame_bitmap) \cap G)
  BY <1>1, FS_Union, Zenon
<1>6. Cardinality({}) = 0
  BY FS_EmptySet, Zenon
<1>7. Cardinality(Frame \ (frame_bitmap \ F)) = free_frames + Cardinality(G) - 0
  BY <1>2, <1>3, <1>5, <1>6, Zenon DEF FreeCounted
<1> QED
  BY <1>4, <1>7 DEF FreeCounted

(* At first the frames that are not usable, and those of the table, are    *)
(* marked.                                                                 *)
LEMMA PmmInitially == Init => PmmInv
<1> SUFFICES ASSUME Init PROVE PmmInv
  BY Zenon
<1>1. usable \in SUBSET Nat /\ usable # {} /\ usable \subseteq Frame
  BY PmmAssumption DEF Init, Frame
<1>2. Min(usable) \in usable
  BY <1>1, MinIsLeast, Zenon
<1>3. Frame \ frame_bitmap = usable \ table
  BY <1>1, Zenon DEF Init
<1>4. FreeCounted
  BY <1>3, Zenon DEF Init, FreeCounted
<1>5. free_frames \in 0 .. frame_limit - 1
  BY <1>4, FramesBounded, Zenon DEF FreeCounted
<1>6. allocation_cursor \in 1 .. frame_limit
  <2>1. Min(usable) \in 1 .. frame_limit - 1
    BY <1>1, <1>2, Zenon DEF Frame
  <2>2. allocation_cursor \in {1, Min(usable) + 1}
    BY Zenon DEF Init
  <2> QED
    BY <2>1, <2>2, PmmAssumption
<1>7. TypeOK
  <2>1. table \in SUBSET Frame
    BY <1>1, <1>2, Zenon DEF Init
  <2>2. frame_refs \in [Frame -> 0 .. MaxRefs]
    BY PmmAssumption DEF Init
  <2>3. got \in (0 .. MaxRun) \X (0 .. frame_limit - 1)
    BY PmmAssumption DEF Init
  <2> QED
    BY <1>1, <1>5, <1>6, <2>1, <2>2, <2>3, Zenon DEF Init, TypeOK
<1> QED
  BY <1>4, <1>7, Zenon DEF Init, PmmInv, NoStrayReference, RunsHeld, RunsApart

(* Taking a run of free frames. *)
LEMMA TakeKeeps ==
  ASSUME PmmInv, NEW f \in Frame, NEW n \in 1 .. MaxRun, f + n \in 1 .. frame_limit,
         Run(f, n) \subseteq Frame \ frame_bitmap, Take(f, n)
  PROVE  /\ frame_bitmap' \in SUBSET Frame /\ free_frames' \in 0 .. frame_limit - 1
         /\ allocation_cursor' \in 1 .. frame_limit
         /\ got' \in (0 .. MaxRun) \X (0 .. frame_limit - 1)
         /\ FreeCounted' /\ NoStrayReference'
<1>1. frame_bitmap' = frame_bitmap \cup Run(f, n)
  BY Zenon DEF Take, Taken
<1>2. FreeCounted'
  BY <1>1, CountTaken, Zenon DEF Take, PmmInv, FreeCounted
<1>3. frame_bitmap' \in SUBSET Frame /\ free_frames' \in 0 .. frame_limit - 1
  BY <1>1, <1>2, FramesBounded, Zenon DEF PmmInv, TypeOK, FreeCounted
<1>4. allocation_cursor' \in 1 .. frame_limit /\ got' \in (0 .. MaxRun) \X (0 .. frame_limit - 1)
  BY PmmAssumption DEF Take, Frame
<1>5. NoStrayReference'
  BY <1>1, Zenon DEF Take, PmmInv, NoStrayReference
<1> QED
  BY <1>2, <1>3, <1>4, <1>5, Zenon

(* Clearing the bits of frames without extra references. *)
LEMMA ReleaseKeeps ==
  ASSUME PmmInv, NEW F \in SUBSET frame_bitmap, \A g \in F : frame_refs[g] = 0,
         Release(F), UNCHANGED <<table, frame_refs>>
  PROVE  /\ frame_bitmap' = frame_bitmap \ F
         /\ frame_bitmap' \in SUBSET Frame /\ free_frames' \in 0 .. frame_limit - 1
         /\ allocation_cursor' \in 1 .. frame_limit
         /\ FreeCounted' /\ NoStrayReference'
<1>1. frame_bitmap' = frame_bitmap \ F
  BY Zenon DEF Release
<1>2. FreeCounted'
  BY <1>1, CountReleased, Zenon DEF Release, PmmInv, FreeCounted
<1>3. frame_bitmap' \in SUBSET Frame /\ free_frames' \in 0 .. frame_limit - 1
  BY <1>1, <1>2, FramesBounded, Zenon DEF PmmInv, TypeOK, FreeCounted
<1>4. allocation_cursor' \in 1 .. frame_limit
  <2> DEFINE S == {allocation_cursor} \cup (F \cap frame_bitmap)
  <2>1. S \in SUBSET (1 .. frame_limit) /\ S # {} /\ S \in SUBSET Nat
    BY PmmAssumption DEF PmmInv, TypeOK, Frame
  <2>2. Min(S) \in S
    BY <2>1, MinIsLeast, Zenon
  <2> QED
    BY <2>1, <2>2, Zenon DEF Release, ReleaseCursor
<1>5. NoStrayReference'
  BY <1>1, Zenon DEF PmmInv, NoStrayReference
<1> QED
  BY <1>1, <1>2, <1>3, <1>4, <1>5, Zenon

(* pmm_allocate_page takes a free frame, and fails only when all are in    *)
(* use.                                                                    *)
LEMMA PageOrNone ==
  ASSUME PmmInv, AllocatePage
  PROVE  \/ Fail(1) /\ Frame \subseteq frame_bitmap
         \/ \E f \in Frame : /\ f + 1 \in 1 .. frame_limit
                             /\ Run(f, 1) \subseteq Frame \ frame_bitmap
                             /\ Take(f, 1) /\ UNCHANGED runs
<1>1. CASE free_frames = 0
  <2>1. Frame \ frame_bitmap = {}
    BY <1>1, FramesBounded, FS_EmptySet, Zenon DEF PmmInv, FreeCounted
  <2> QED
    BY <1>1, <2>1, Zenon DEF AllocatePage
<1>2. CASE free_frames # 0 /\ Found(1) = 0
  BY <1>2, SearchIsComplete, Zenon DEF AllocatePage, PmmInv
<1>3. CASE free_frames # 0 /\ Found(1) # 0
  <2>1. 1 \in 1 .. MaxRun
    BY PmmAssumption
  <2> QED
    BY <1>3, <2>1, SearchIsSound, Zenon DEF AllocatePage, PmmInv
<1> QED
  BY <1>1, <1>2, <1>3, Zenon

(* pmm_allocate_contiguous takes a run of free frames or fails. *)
LEMMA RunOrNone ==
  ASSUME PmmInv, NEW n \in 2 .. MaxRun, AllocateContiguous(n)
  PROVE  \/ Fail(n)
         \/ \E f \in Frame : /\ f + n \in 1 .. frame_limit
                             /\ Run(f, n) \subseteq Frame \ frame_bitmap
                             /\ Take(f, n) /\ runs' = runs \cup {<<f, n>>}
<1>1. n \in 1 .. MaxRun
  BY PmmAssumption
<1>2. CASE n > free_frames \/ Found(n) = 0
  BY <1>2, Zenon DEF AllocateContiguous
<1>3. CASE ~(n > free_frames) /\ Found(n) # 0
  BY <1>1, <1>3, SearchIsSound, Zenon DEF AllocateContiguous, PmmInv
<1> QED
  BY <1>2, <1>3, Zenon

(* The operations keep the invariant.  An allocation that finds nothing. *)
LEMMA FailKeeps ==
  ASSUME PmmInv, NEW n \in 1 .. MaxRun, Fail(n)
  PROVE  PmmInv'
<1>1. got' \in (0 .. MaxRun) \X (0 .. frame_limit - 1)
  BY PmmAssumption DEF Fail
<1>2. TypeOK'
  BY <1>1, Zenon DEF Fail, PmmInv, TypeOK
<1> QED
  BY <1>2, Zenon DEF Fail, PmmInv, FreeCounted, NoStrayReference, RunsHeld, RunsApart

(* pmm_allocate_page. *)
LEMMA PageKeeps ==
  ASSUME PmmInv, NEW f \in Frame, f + 1 \in 1 .. frame_limit,
         Run(f, 1) \subseteq Frame \ frame_bitmap, Take(f, 1), UNCHANGED runs
  PROVE  PmmInv'
<1>1. 1 \in 1 .. MaxRun
  BY PmmAssumption
<1>2. TypeOK' /\ FreeCounted' /\ NoStrayReference'
  BY <1>1, TakeKeeps, Zenon DEF Take, PmmInv, TypeOK
<1>3. RunsHeld' /\ RunsApart'
  BY Zenon DEF Take, PmmInv, RunsHeld, RunsApart
<1> QED
  BY <1>2, <1>3, Zenon DEF PmmInv

(* pmm_allocate_contiguous, which gives out a run. *)
LEMMA RunKeeps ==
  ASSUME PmmInv, NEW n \in 2 .. MaxRun, NEW f \in Frame, f + n \in 1 .. frame_limit,
         Run(f, n) \subseteq Frame \ frame_bitmap, Take(f, n), runs' = runs \cup {<<f, n>>}
  PROVE  PmmInv'
<1>1. n \in 1 .. MaxRun
  BY PmmAssumption
<1>2. frame_bitmap' = frame_bitmap \cup Run(f, n) /\ frame_refs' = frame_refs
  BY Zenon DEF Take, Taken
<1>3. TypeOK' /\ FreeCounted' /\ NoStrayReference'
  BY <1>1, TakeKeeps DEF Take, PmmInv, TypeOK
<1>4. RunsHeld'
  BY <1>2 DEF PmmInv, RunsHeld, NoStrayReference
<1>5. RunsApart'
  <2>1. \A r \in runs : Run(r[1], r[2]) \cap Run(f, n) = {}
    BY Zenon DEF PmmInv, RunsHeld
  <2> QED
    BY <2>1 DEF PmmInv, RunsApart
<1> QED
  BY <1>3, <1>4, <1>5, Zenon DEF PmmInv

(* pmm_free_contiguous. *)
LEMMA FreeContiguousKeeps ==
  ASSUME PmmInv, NEW r \in runs, FreeContiguous(r)
  PROVE  PmmInv'
<1> DEFINE F == Run(r[1], r[2])
<1>1. F \in SUBSET frame_bitmap /\ \A g \in F : frame_refs[g] = 0
  BY Zenon DEF PmmInv, RunsHeld
<1>2. Release(F) /\ runs' = runs \ {r} /\ UNCHANGED <<usable, table, frame_refs, got>>
  BY Zenon DEF FreeContiguous
<1>3. TypeOK' /\ FreeCounted' /\ NoStrayReference' /\ frame_bitmap' = frame_bitmap \ F
  <2> HIDE DEF F
  <2> QED
    BY <1>1, <1>2, ReleaseKeeps, Zenon DEF PmmInv, TypeOK
<1>4. RunsHeld' /\ RunsApart'
  BY <1>2, <1>3, Zenon DEF PmmInv, RunsHeld, RunsApart
<1> QED
  BY <1>3, <1>4, Zenon DEF PmmInv

(* pmm_free_page: the last reference, or one of several. *)
LEMMA FreePageKeeps ==
  ASSUME PmmInv, NEW f \in Frame, FreePage(f)
  PROVE  PmmInv'
<1>1. f \in frame_bitmap /\ \A r \in runs : f \notin Run(r[1], r[2])
  BY Zenon DEF FreePage, Owned, RunFrames
<1>2. UNCHANGED <<usable, table, runs, got>>
  BY Zenon DEF FreePage
<1>3. CASE LastReference(f)
  <2>1. frame_refs[f] = 0 /\ Release({f}) /\ UNCHANGED frame_refs
    BY <1>3, Zenon DEF FreePage, LastReference, PmmInv, NoStrayReference
  <2>2. TypeOK' /\ FreeCounted' /\ NoStrayReference' /\ frame_bitmap' = frame_bitmap \ {f}
    BY <1>1, <1>2, <2>1, ReleaseKeeps, Zenon DEF PmmInv, TypeOK
  <2>3. RunsHeld' /\ RunsApart'
    BY <1>1, <1>2, <2>1, <2>2 DEF PmmInv, RunsHeld, RunsApart
  <2> QED
    BY <2>2, <2>3, Zenon DEF PmmInv
<1>4. CASE ~LastReference(f)
  <2>1. /\ table # {} /\ frame_refs[f] # 0 /\ frame_refs' = [frame_refs EXCEPT ![f] = @ - 1]
        /\ UNCHANGED <<frame_bitmap, free_frames, allocation_cursor>>
    BY <1>4, Zenon DEF FreePage, LastReference
  <2>2. TypeOK'
    BY <1>2, <2>1, PmmAssumption DEF PmmInv, TypeOK
  <2> QED
    BY <1>1, <1>2, <2>1, <2>2, Zenon DEF PmmInv, TypeOK, FreeCounted, NoStrayReference, RunsHeld, RunsApart
<1> QED
  BY <1>3, <1>4, Zenon

(* pmm_frame_ref. *)
LEMMA FrameRefKeeps ==
  ASSUME PmmInv, NEW f \in Frame, FrameRef(f)
  PROVE  PmmInv'
<1>1. /\ f \in frame_bitmap /\ \A r \in runs : f \notin Run(r[1], r[2])
      /\ table # {} /\ frame_refs[f] < MaxRefs
      /\ frame_refs' = [frame_refs EXCEPT ![f] = @ + 1]
      /\ UNCHANGED <<usable, table, frame_bitmap, free_frames, allocation_cursor, runs, got>>
  BY Zenon DEF FrameRef, Owned, RunFrames
<1>2. TypeOK'
  BY <1>1, PmmAssumption DEF PmmInv, TypeOK
<1> QED
  BY <1>1, <1>2 DEF PmmInv, TypeOK, FreeCounted, NoStrayReference, RunsHeld, RunsApart

(* The invariant holds of every state. *)
THEOREM PmmInvariant == Spec => []PmmInv
<1>1. PmmInv /\ [Next]_vars => PmmInv'
  <2> SUFFICES ASSUME PmmInv, [Next]_vars PROVE PmmInv'
    BY Zenon
  <2>1. CASE UNCHANGED vars
    BY <2>1, Zenon DEF vars, PmmInv, TypeOK, FreeCounted, NoStrayReference, RunsHeld, RunsApart
  <2>2. CASE AllocatePage
    <3>1. 1 \in 1 .. MaxRun
      BY PmmAssumption
    <3> QED
      BY <2>2, <3>1, PageOrNone, FailKeeps, PageKeeps, Zenon
  <2>3. ASSUME NEW n \in 2 .. MaxRun, AllocateContiguous(n) PROVE PmmInv'
    <3>1. n \in 1 .. MaxRun
      BY PmmAssumption
    <3> QED
      BY <2>3, <3>1, RunOrNone, FailKeeps, RunKeeps, Zenon
  <2>4. ASSUME NEW r \in runs, FreeContiguous(r) PROVE PmmInv'
    BY <2>4, FreeContiguousKeeps, Zenon
  <2>5. ASSUME NEW f \in Frame, FreePage(f) \/ FrameRef(f) PROVE PmmInv'
    BY <2>5, FreePageKeeps, FrameRefKeeps, Zenon
  <2> QED
    BY <2>1, <2>2, <2>3, <2>4, <2>5, Zenon DEF Next
<1> QED
  BY <1>1, PmmInitially, PTL DEF Spec

(* The cursor stays within the frames and a count of references within its *)
(* limit.                                                                  *)
THEOREM PmmTypeCorrect == Spec => []TypeOK
BY PmmInvariant, PTL DEF PmmInv

(* free_frames is the number of clear bits in every state, for every       *)
(* number of frames.                                                       *)
THEOREM FreeFramesCounted == Spec => []FreeCounted
BY PmmInvariant, PTL DEF PmmInv

-----------------------------------------------------------------------------
(* The refinement of FrameStore, operation by operation.                   *)

Owners == [f \in Frame |-> IF f \in frame_bitmap THEN frame_refs[f] + 1 ELSE 0]

(* The frames without an owner are those that are not marked. *)
LEMMA UnownedIsFree ==
  ASSUME PmmInv
  PROVE  Store!Unowned = Frame \ frame_bitmap
BY DEF Store!Unowned, PmmInv, TypeOK

(* Taking a run gives each of its frames one owner. *)
LEMMA TakeGives ==
  ASSUME PmmInv, NEW f \in Frame, NEW n \in 1 .. MaxRun,
         Run(f, n) \subseteq Frame \ frame_bitmap, Take(f, n)
  PROVE  Store!Give(Run(f, n)) /\ got' = <<n, f>>
<1>1. frame_bitmap' = frame_bitmap \cup Run(f, n) /\ frame_refs' = frame_refs /\ got' = <<n, f>>
  BY Zenon DEF Take, Taken
<1>2. Owners' = [g \in Frame |-> IF g \in Run(f, n) THEN 1 ELSE Owners[g]]
  BY <1>1 DEF Owners, PmmInv, NoStrayReference, TypeOK
<1> QED
  BY <1>1, <1>2, UnownedIsFree, Zenon DEF Store!Give, Owners

(* A search that is begun with the cursor anywhere gives what FrameStore   *)
(* allows.                                                                 *)
LEMMA AllocateGives ==
  ASSUME PmmInv,
         AllocatePage \/ \E n \in 2 .. MaxRun : AllocateContiguous(n)
  PROVE  Store!FSNext
<1>1. CASE AllocatePage
  <2>1. CASE Fail(1) /\ Frame \subseteq frame_bitmap
    <3>1. Store!Unowned = {}
      BY <2>1, UnownedIsFree, Zenon
    <3>2. got' = <<1, 0>> /\ UNCHANGED Owners
      BY <2>1, Zenon DEF Fail, Owners
    <3> QED
      BY <3>1, <3>2, Zenon DEF Store!FSNext, Store!GetPage, Owners
  <2>2. ASSUME NEW f \in Frame, Run(f, 1) \subseteq Frame \ frame_bitmap, Take(f, 1)
        PROVE  Store!FSNext
    <3>1. 1 \in 1 .. MaxRun /\ Run(f, 1) = {f}
      BY PmmAssumption DEF Run, Frame
    <3>2. Store!Give({f}) /\ got' = <<1, f>> /\ f \in Store!Unowned
      BY <2>2, <3>1, TakeGives, UnownedIsFree, Zenon
    <3> QED
      BY <3>2, Zenon DEF Store!FSNext, Store!GetPage
  <2> QED
    BY <1>1, <2>1, <2>2, PageOrNone, Zenon
<1>2. ASSUME NEW n \in 2 .. MaxRun, AllocateContiguous(n) PROVE Store!FSNext
  <2>1. CASE Fail(n)
    <3>1. got' = <<n, 0>> /\ UNCHANGED Owners
      BY <2>1, Zenon DEF Fail, Owners
    <3> QED
      BY <3>1, Zenon DEF Store!FSNext, Store!GetRun, Owners
  <2>2. ASSUME NEW f \in Frame, Run(f, n) \subseteq Frame \ frame_bitmap, Take(f, n)
        PROVE  Store!FSNext
    <3>1. n \in 1 .. MaxRun
      BY PmmAssumption
    <3>2. Store!Give(f .. f + n - 1) /\ got' = <<n, f>>
      BY <2>2, <3>1, TakeGives, Zenon DEF Run
    <3> QED
      BY <3>2, Zenon DEF Store!FSNext, Store!GetRun
  <2> QED
    BY <1>2, <2>1, <2>2, RunOrNone, Zenon
<1> QED
  BY <1>1, <1>2, Zenon

(* Giving back a run, or one of several owners' page. *)
LEMMA FreePuts ==
  ASSUME PmmInv,
         \/ \E r \in runs : FreeContiguous(r)
         \/ \E f \in Frame : FreePage(f) \/ FrameRef(f)
  PROVE  Store!FSNext
<1>1. ASSUME NEW r \in runs, FreeContiguous(r) PROVE Store!FSNext
  <2> DEFINE F == r[1] .. r[1] + r[2] - 1
  <2>1. r[1] \in Frame /\ r[2] \in 2 .. MaxRun
    BY Zenon DEF PmmInv, TypeOK
  <2>2. \A g \in F : g \in Frame /\ g \in frame_bitmap /\ frame_refs[g] = 0
    BY Zenon DEF PmmInv, RunsHeld, TypeOK, Run
  <2>3. frame_bitmap' = frame_bitmap \ F /\ UNCHANGED <<frame_refs, got>>
    BY <1>1, Zenon DEF FreeContiguous, Release, Run
  <2> HIDE DEF F
  <2>4. Owners' = [g \in Frame |-> IF g \in F THEN 0 ELSE Owners[g]]
    BY <2>3, Zenon DEF Owners
  <2>5. \A g \in F : g \in Frame /\ Owners[g] = 1
    BY <2>2 DEF Owners
  <2>6. Store!PutRun(r[1], r[2])
    BY <2>3, <2>4, <2>5, Zenon DEF Store!PutRun, Owners, F
  <2> QED
    BY <2>1, <2>6, Zenon DEF Store!FSNext
<1>2. ASSUME NEW f \in Frame, FreePage(f) PROVE Store!FSNext
  <2>1. f \in frame_bitmap /\ frame_refs[f] \in Nat /\ Owners[f] = frame_refs[f] + 1
    BY <1>2 DEF FreePage, Owned, Owners, PmmInv, TypeOK
  <2>2. Owners' = [Owners EXCEPT ![f] = @ - 1]
    <3>1. CASE LastReference(f)
      <4>1. /\ frame_refs[f] = 0 /\ frame_bitmap' = frame_bitmap \ {f}
            /\ UNCHANGED frame_refs
        BY <1>2, <3>1, Zenon DEF FreePage, Release, LastReference, PmmInv, NoStrayReference
      <4>2. Owners[f] - 1 = 0
        BY <2>1, <4>1
      <4> QED
        BY <2>1, <4>1, <4>2, Zenon DEF Owners
    <3>2. CASE ~LastReference(f)
      <4>1. /\ frame_refs' = [frame_refs EXCEPT ![f] = @ - 1]
            /\ UNCHANGED frame_bitmap
        BY <1>2, <3>2, Zenon DEF FreePage
      <4>2. frame_refs'[f] + 1 = Owners[f] - 1
        BY <2>1, <4>1 DEF PmmInv, TypeOK
      <4>3. \A g \in Frame \ {f} : frame_refs'[g] = frame_refs[g]
        BY <4>1, Zenon DEF PmmInv, TypeOK
      <4>4. frame_bitmap' = frame_bitmap
        BY <4>1, Zenon
      <4> QED
        BY <2>1, <4>2, <4>3, <4>4, Zenon DEF Owners
    <3> QED
      BY <3>1, <3>2, Zenon
  <2>3. Store!PutPage(f)
    BY <1>2, <2>1, <2>2 DEF Store!PutPage, Owners, FreePage
  <2> QED
    BY <2>3, Zenon DEF Store!FSNext
<1>3. ASSUME NEW f \in Frame, FrameRef(f) PROVE Store!FSNext
  <2>1. f \in frame_bitmap /\ frame_refs[f] \in Nat /\ Owners[f] = frame_refs[f] + 1
    BY <1>3 DEF FrameRef, Owned, Owners, PmmInv, TypeOK
  <2>2. Owners' = [Owners EXCEPT ![f] = @ + 1]
    <3>1. frame_refs' = [frame_refs EXCEPT ![f] = @ + 1] /\ frame_bitmap' = frame_bitmap
      BY <1>3, Zenon DEF FrameRef
    <3>2. frame_refs'[f] + 1 = Owners[f] + 1
      BY <2>1, <3>1 DEF PmmInv, TypeOK
    <3>3. \A g \in Frame \ {f} : frame_refs'[g] = frame_refs[g]
      BY <3>1, Zenon DEF PmmInv, TypeOK
    <3>4. frame_bitmap' = frame_bitmap
      BY <3>1, Zenon
    <3> QED
      BY <2>1, <3>2, <3>3, <3>4, Zenon DEF Owners
  <2>3. Store!Share(f)
    BY <1>3, <2>1, <2>2 DEF Store!Share, Owners, FrameRef
  <2> QED
    BY <2>3, Zenon DEF Store!FSNext
<1> QED
  BY <1>1, <1>2, <1>3, Zenon

(* The bitmap, the cursor, the count and the references together implement *)
(* a store that gives each frame to those who own it and refuses a page    *)
(* only when every frame has an owner.                                     *)
THEOREM PmmRefinement == Spec => ImplementsFrameStore
<1>1. Init => Store!FSInit
  <2> SUFFICES ASSUME Init PROVE Store!FSInit
    BY Zenon
  <2>1. Owners \in [Frame -> {0, 1}] /\ got = <<0, 0>>
    BY DEF Init, Owners
  <2> QED
    BY <2>1, Zenon DEF Store!FSInit, Owners
<1>2. PmmInv /\ [Next]_vars => [Store!FSNext]_(Store!fsVars)
  <2> SUFFICES ASSUME PmmInv, [Next]_vars PROVE [Store!FSNext]_(Store!fsVars)
    BY Zenon
  <2>1. CASE UNCHANGED vars
    BY <2>1, Zenon DEF vars, Store!fsVars
  <2> QED
    BY <2>1, AllocateGives, FreePuts, Zenon DEF Next
<1> QED
  BY <1>1, <1>2, PmmInvariant, PTL DEF Spec, ImplementsFrameStore, Store!FSSpec

=============================================================================
