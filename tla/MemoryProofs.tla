---------------------------- MODULE MemoryProofs ----------------------------
(***************************************************************************)
(* Address spaces, for every number of them, of pages, frames and slots,   *)
(* and every limit on references: frames and slots are counted right, and, *)
(* as long as mprotect gives no right to write, memory is private and      *)
(* implements PrivateMemory, where each address space has pages of its own *)
(* and there is neither sharing nor swap.                                  *)
(*                                                                         *)
(* The counts are inductive once it is known that entries are placed where *)
(* they can be counted, that a table refers to a frame or slot only once,  *)
(* and that a free frame has no reference (CountInv).  What one changed    *)
(* entry, table or root does to a count is proved once; then, that every   *)
(* operation keeps the invariant.  Privacy is argued by operation: what    *)
(* each may make writable, and that it changes no content but those of the *)
(* pages it is about, wherever a page is kept before and after.            *)
(***************************************************************************)
EXTENDS Memory, FiniteSetTheorems, TLAPS

(* An entry is in use only in an address space in use, and says where its  *)
(* page is.                                                                *)
Placed ==
  \A s \in Space, p \in Page :
    /\ pte[s][p].kind = "present" => pte[s][p].at \in Frame
    /\ pte[s][p].kind = "swap" => pte[s][p].at \in Slot
    /\ pte[s][p].kind # "none" => Live(s)

(* No page table refers to a frame or to a slot twice. *)
MappedOnce ==
  \A s \in Space : \A p, q \in Page :
    /\ pte[s][p].kind # "none" /\ pte[s][q].kind = pte[s][p].kind
    /\ pte[s][q].at = pte[s][p].at
    => p = q

(* A free frame has no reference left over, and tables are not shared. *)
NoStrayReference ==
  /\ \A f \in Frame \ used : frame_refs[f] = 0
  /\ \A s \in Space : Live(s) => frame_refs[root[s]] = 0

CountInv ==
  TypeOK /\ Placed /\ MappedOnce /\ NoStrayReference /\ FramesCounted /\ SlotsCounted

Hits(e, kind, x) == e.kind = kind /\ e.at = x
Hit(e, kind, x) == IF Hits(e, kind, x) THEN 1 ELSE 0
In(m, S) == IF m \in S THEN 1 ELSE 0

-----------------------------------------------------------------------------
(* Counting the references in page tables.                                 *)

(* The references to anything are finitely many. *)
LEMMA RefsFinite ==
  ASSUME NEW t, NEW kind, NEW x
  PROVE  IsFiniteSet(Refs(t, kind, x)) /\ Cardinality(Refs(t, kind, x)) \in Nat
<1>1. IsFiniteSet(Space \X Page)
  BY MemoryAssumption, FS_Product, Zenon
<1>2. Refs(t, kind, x) \subseteq Space \X Page
  BY Zenon DEF Refs
<1> QED
  BY <1>1, <1>2, FS_Subset, FS_CardinalityType, Zenon

(* So are the page tables with a given root. *)
LEMMA RootsFinite ==
  ASSUME NEW f
  PROVE  IsFiniteSet(Roots(f)) /\ Cardinality(Roots(f)) \in Nat
<1>1. Roots(f) \subseteq Space
  BY Zenon DEF Roots
<1> QED
  BY <1>1, MemoryAssumption, FS_Subset, FS_CardinalityType, Zenon

(* Changing whether one element belongs to a finite set. *)
LEMMA CountChanged ==
  ASSUME NEW S, IsFiniteSet(S), NEW T, NEW m, T \ {m} = S \ {m}
  PROVE  Cardinality(T) = Cardinality(S) + In(m, T) - In(m, S)
<1>1. /\ IsFiniteSet(S \ {m})
      /\ Cardinality(S \ {m}) = IF m \in S THEN Cardinality(S) - 1 ELSE Cardinality(S)
  BY FS_RemoveElement, Zenon
<1>2. /\ IsFiniteSet((S \ {m}) \cup {m})
      /\ Cardinality((S \ {m}) \cup {m}) = Cardinality(S \ {m}) + 1
  <2>1. m \notin S \ {m}
    BY Zenon
  <2> QED
    BY <1>1, <2>1, FS_AddElement, Zenon
<1>3. T = IF m \in T THEN (S \ {m}) \cup {m} ELSE S \ {m}
  BY Zenon
<1>4. Cardinality(T) = IF m \in T THEN Cardinality(S \ {m}) + 1 ELSE Cardinality(S \ {m})
  BY <1>2, <1>3, Zenon
<1>5. Cardinality(S) \in Nat
  BY FS_CardinalityType, Zenon
<1> QED
  BY <1>1, <1>4, <1>5 DEF In

(* Tables t and u differ in no entry but that of page p of s. *)
OnlyEntry(t, u, s, p) == \A r \in Space, q \in Page : r # s \/ q # p => u[r][q] = t[r][q]

(* A change of one entry. *)
LEMMA EntryChanged ==
  ASSUME NEW t, NEW u, NEW s \in Space, NEW p \in Page, NEW kind, NEW x,
         OnlyEntry(t, u, s, p)
  PROVE  Cardinality(Refs(u, kind, x))
           = Cardinality(Refs(t, kind, x)) + Hit(u[s][p], kind, x) - Hit(t[s][p], kind, x)
<1> DEFINE m == <<s, p>>
<1>2. m \in Space \X Page /\ m[1] = s /\ m[2] = p
  BY Zenon
<1>3. m \in Refs(u, kind, x) <=> Hits(u[s][p], kind, x)
  BY <1>2, Zenon DEF Refs, Hits
<1>4. m \in Refs(t, kind, x) <=> Hits(t[s][p], kind, x)
  BY <1>2, Zenon DEF Refs, Hits
<1>5. Refs(u, kind, x) \ {m} = Refs(t, kind, x) \ {m}
  <2>1. ASSUME NEW n \in Space \X Page, n # m PROVE u[n[1]][n[2]] = t[n[1]][n[2]]
    BY <2>1 DEF OnlyEntry
  <2> QED
    BY <2>1, Zenon DEF Refs
<1>6. Cardinality(Refs(u, kind, x))
        = Cardinality(Refs(t, kind, x)) + In(m, Refs(u, kind, x)) - In(m, Refs(t, kind, x))
  BY <1>5, RefsFinite, CountChanged, Zenon
<1> QED
  BY <1>3, <1>4, <1>6, Zenon DEF In, Hit

(* Tables t and u differ in no address space but s; in s page p alone, if  *)
(* any, refers to x.                                                       *)
OnlySpace(t, u, s) ==
  \A r \in Space \ {s}, q \in Page : u[r][q].kind = t[r][q].kind /\ u[r][q].at = t[r][q].at
OnlyPage(t, s, p, kind, x) == \A q \in Page : Hits(t[s][q], kind, x) => q = p

(* A change of one address space. *)
LEMMA SpaceChanged ==
  ASSUME NEW t, NEW u, NEW kind, NEW x, NEW s \in Space, NEW p \in Page,
         OnlySpace(t, u, s), OnlyPage(t, s, p, kind, x), OnlyPage(u, s, p, kind, x)
  PROVE  Cardinality(Refs(u, kind, x))
           = Cardinality(Refs(t, kind, x)) + Hit(u[s][p], kind, x) - Hit(t[s][p], kind, x)
<1> DEFINE m == <<s, p>>
<1>2. m \in Space \X Page /\ m[1] = s /\ m[2] = p
  BY Zenon
<1>3. m \in Refs(u, kind, x) <=> Hits(u[s][p], kind, x)
  BY <1>2, Zenon DEF Refs, Hits
<1>4. m \in Refs(t, kind, x) <=> Hits(t[s][p], kind, x)
  BY <1>2, Zenon DEF Refs, Hits
<1>5. Refs(u, kind, x) \ {m} = Refs(t, kind, x) \ {m}
  <2>1. ASSUME NEW n \in Space \X Page, n # m
        PROVE  Hits(u[n[1]][n[2]], kind, x) <=> Hits(t[n[1]][n[2]], kind, x)
    BY <2>1 DEF Hits, OnlySpace, OnlyPage
  <2> QED
    BY <2>1, Zenon DEF Refs, Hits
<1>6. Cardinality(Refs(u, kind, x))
        = Cardinality(Refs(t, kind, x)) + In(m, Refs(u, kind, x)) - In(m, Refs(t, kind, x))
  BY <1>5, RefsFinite, CountChanged, Zenon
<1> QED
  BY <1>3, <1>4, <1>6, Zenon DEF In, Hit

(* A change of the root of one address space. *)
LEMMA RootChanged ==
  ASSUME TypeOK, NEW s \in Space, NEW g, root' = [root EXCEPT ![s] = g], NEW f
  PROVE  Cardinality(Roots(f)') = Cardinality(Roots(f)) + In(g, {f}) - In(root[s], {f})
<1>1. \A r \in Space : root'[r] = IF r = s THEN g ELSE root[r]
  BY Zenon DEF TypeOK
<1>2. s \in Roots(f)' <=> g = f
  BY <1>1, Zenon DEF Roots
<1>3. s \in Roots(f) <=> root[s] = f
  BY Zenon DEF Roots
<1>4. Roots(f)' \ {s} = Roots(f) \ {s}
  BY <1>1, Zenon DEF Roots
<1>5. Cardinality(Roots(f)') = Cardinality(Roots(f)) + In(s, Roots(f)') - In(s, Roots(f))
  BY <1>4, RootsFinite, CountChanged, Zenon
<1> QED
  BY <1>2, <1>3, <1>5, Zenon DEF In, Hit

(* A finite set is empty when it has no elements, and has no other element *)
(* when it has one.                                                        *)
LEMMA SmallSets ==
  ASSUME NEW S, IsFiniteSet(S)
  PROVE  /\ Cardinality(S) = 0 => S = {}
         /\ Cardinality(S) = 1 => \A x, y \in S : x = y
         /\ S # {} => Cardinality(S) >= 1
<1>1. Cardinality(S) = 0 => S = {}
  BY FS_EmptySet, Zenon
<1>2. ASSUME Cardinality(S) = 1, NEW x \in S, NEW y \in S, x # y PROVE FALSE
  <2>1. Cardinality(S \ {x}) = Cardinality(S) - 1 /\ IsFiniteSet(S \ {x})
    BY FS_RemoveElement, Zenon
  <2>2. Cardinality(S \ {x}) = 0
    BY <2>1, <1>2
  <2>3. S \ {x} = {}
    BY <2>1, <2>2, FS_EmptySet, Zenon
  <2> QED
    BY <2>3, <1>2, Zenon
<1>3. Cardinality(S) \in Nat
  BY FS_CardinalityType, Zenon
<1>4. S # {} => Cardinality(S) >= 1
  BY <1>1, <1>3
<1> QED
  BY <1>1, <1>2, <1>4, Zenon

(* A free frame is neither mapped nor a root. *)
LEMMA FreeIsUnused ==
  ASSUME CountInv, NEW f \in FreeFrames
  PROVE  /\ f \in Frame /\ f \notin used /\ f # NoFrame /\ frame_refs[f] = 0
         /\ \A s \in Space, p \in Page : ~Hits(pte[s][p], "present", f)
         /\ \A s \in Space : root[s] # f
<1>1. f \in Frame /\ f \notin used /\ frame_refs[f] = 0 /\ f # NoFrame
  BY MemoryAssumption, Zenon DEF FreeFrames, CountInv, NoStrayReference
<1>2. Cardinality(Mappings(f)) + Cardinality(Roots(f)) = 0
  BY <1>1, Zenon DEF CountInv, FramesCounted
<1>3. Mappings(f) = {} /\ Roots(f) = {}
  BY <1>2, RefsFinite, RootsFinite, SmallSets DEF Mappings
<1>4. ASSUME NEW s \in Space, NEW p \in Page, Hits(pte[s][p], "present", f) PROVE FALSE
  <2>1. <<s, p>> \in Mappings(f)
    BY <1>4, Zenon DEF Mappings, Refs, Hits
  <2> QED
    BY <2>1, <1>3, Zenon
<1>5. \A s \in Space : root[s] # f
  BY <1>3, Zenon DEF Roots
<1> QED
  BY <1>1, <1>4, <1>5, Zenon

(* A frame that is mapped is in use and is no root, and if it has no       *)
(* further reference it is mapped nowhere else.                            *)
LEMMA MappedIsUsed ==
  ASSUME CountInv, NEW s \in Space, NEW p \in Page, pte[s][p].kind = "present"
  PROVE  /\ pte[s][p].at \in used /\ pte[s][p].at \in Frame
         /\ \A r \in Space : root[r] # pte[s][p].at
         /\ frame_refs[pte[s][p].at] = 0 =>
              \A r \in Space, q \in Page :
                Hits(pte[r][q], "present", pte[s][p].at) => r = s /\ q = p
<1> DEFINE f == pte[s][p].at
<1>1. f \in Frame /\ f # NoFrame
  BY MemoryAssumption, Zenon DEF CountInv, Placed
<1>2. <<s, p>> \in Mappings(f)
  BY Zenon DEF Mappings, Refs
<1>3. Cardinality(Mappings(f)) >= 1
  <2> HIDE DEF f
  <2> QED
    BY <1>2, RefsFinite, SmallSets, Zenon DEF Mappings
<1>4. /\ Cardinality(Mappings(f)) + Cardinality(Roots(f)) = IF f \in used THEN frame_refs[f] + 1 ELSE 0
      /\ Cardinality(Mappings(f)) \in Nat /\ Cardinality(Roots(f)) \in Nat
  <2> HIDE DEF f
  <2> QED
    BY <1>1, RefsFinite, RootsFinite, Zenon DEF CountInv, FramesCounted, Mappings
<1>5. f \in used
  <2> HIDE DEF f
  <2> QED
    BY <1>3, <1>4
<1>6. ASSUME frame_refs[f] = 0
      PROVE  Cardinality(Mappings(f)) = 1 /\ Cardinality(Roots(f)) = 0
  <2> HIDE DEF f
  <2> QED
    BY <1>3, <1>4, <1>5, <1>6
<1>7. ASSUME NEW r \in Space, root[r] = f PROVE FALSE
  <2>1. frame_refs[f] = 0
    BY <1>1, <1>7, Zenon DEF CountInv, NoStrayReference, Live
  <2>2. Roots(f) = {}
    BY <1>6, <2>1, RootsFinite, SmallSets, Zenon
  <2> QED
    BY <1>7, <2>2, Zenon DEF Roots
<1>8. ASSUME frame_refs[f] = 0, NEW r \in Space, NEW q \in Page, Hits(pte[r][q], "present", f)
      PROVE  r = s /\ q = p
  <2>1. <<r, q>> \in Mappings(f)
    BY <1>8, Zenon DEF Mappings, Refs, Hits
  <2>2. <<r, q>> = <<s, p>>
    BY <1>2, <1>6, <1>8, <2>1, RefsFinite, SmallSets, ZenonT(60) DEF Mappings
  <2> QED
    BY <2>2, Zenon
<1> QED
  BY <1>1, <1>5, <1>7, <1>8, Zenon

(* The frame of a root is in use, and is the root of no other. *)
LEMMA RootIsUsed ==
  ASSUME CountInv, NEW s \in Space, Live(s)
  PROVE  /\ root[s] \in used /\ root[s] \in Frame /\ frame_refs[root[s]] = 0
         /\ \A r \in Space : root[r] = root[s] => r = s
<1> DEFINE f == root[s]
<1>1. f \in Frame /\ frame_refs[f] = 0
  BY Zenon DEF CountInv, NoStrayReference, TypeOK, Live
<1>2. s \in Roots(f)
  BY Zenon DEF Roots
<1>3. Cardinality(Roots(f)) >= 1
  <2> HIDE DEF f
  <2> QED
    BY <1>2, RootsFinite, SmallSets, Zenon
<1>4. f \in used /\ Cardinality(Roots(f)) = 1
  <2> HIDE DEF f
  <2> QED
    BY <1>1, <1>3, RefsFinite, RootsFinite DEF CountInv, FramesCounted, Mappings
<1>5. \A r \in Space : root[r] = f => r = s
  <2>1. \A r \in Space : root[r] = f => r \in Roots(f)
    BY Zenon DEF Roots
  <2> QED
    BY <1>2, <1>4, <2>1, RootsFinite, SmallSets, Zenon
<1> QED
  BY <1>1, <1>4, <1>5, Zenon

(* No entry refers to a free slot, and an entry's slot has a count. *)
LEMMA SlotIsUsed ==
  ASSUME CountInv, NEW s \in Space, NEW p \in Page, pte[s][p].kind = "swap"
  PROVE  pte[s][p].at \in Slot /\ swap_refs[pte[s][p].at] > 0
<1> DEFINE i == pte[s][p].at
<1>1. i \in Slot
  BY Zenon DEF CountInv, Placed
<1>2. <<s, p>> \in Entries(i)
  BY Zenon DEF Entries, Refs
<1>3. Cardinality(Entries(i)) >= 1
  <2> HIDE DEF i
  <2> QED
    BY <1>2, RefsFinite, SmallSets, Zenon DEF Entries
<1>4. swap_refs[i] > 0
  <2> HIDE DEF i
  <2> QED
    BY <1>1, <1>3, MemoryAssumption, RefsFinite DEF CountInv, SlotsCounted, Entries
<1> QED
  BY <1>1, <1>4, Zenon

(* No entry refers to a free slot. *)
LEMMA FreeSlotIsUnused ==
  ASSUME CountInv, NEW i \in FreeSlots
  PROVE  i \in Slot /\ swap_refs[i] = 0 /\ \A s \in Space, p \in Page : ~Hits(pte[s][p], "swap", i)
BY SlotIsUsed DEF FreeSlots, Hits

-----------------------------------------------------------------------------
(* The steps that change one entry.                                        *)

Held(f) == IF f \in used THEN frame_refs[f] + 1 ELSE 0

(* What becomes of the count of slot i when an entry turns from old to     *)
(* new.                                                                    *)
SlotMoves(i, old, new) ==
  \/ (Hits(old, "swap", i) <=> Hits(new, "swap", i)) /\ swap_refs'[i] = swap_refs[i]
  \/ ~Hits(old, "swap", i) /\ Hits(new, "swap", i) /\ swap_refs[i] = 0 /\ swap_refs'[i] = 1
  \/ /\ Hits(old, "swap", i) /\ ~Hits(new, "swap", i)
     /\ swap_refs'[i] = SwapFreed({i}, swap_refs)[i]

(* Changing an entry keeps the counts when the frame or slot it referred   *)
(* to loses the reference and the one it refers to gains it.               *)
LEMMA EntryKeeps ==
  ASSUME CountInv, TypeOK', NoStrayReference', NEW s \in Space, NEW p \in Page, Live(s),
         NEW e \in Entry, OnlyEntry(pte, pte', s, p), pte'[s][p] = e, root' = root,
         e.kind = "present" => e.at \in Frame,
         e.kind = "swap" => e.at \in Slot,
         e.kind # "none" => \A q \in Page : Hits(pte[s][q], e.kind, e.at) => q = p,
         \A f \in Frame :
           Held(f)' = Held(f) + Hit(e, "present", f) - Hit(pte[s][p], "present", f),
         \A i \in Slot : SlotMoves(i, pte[s][p], e)
  PROVE  CountInv'
<1>1. \A r \in Space, q \in Page : r # s \/ q # p => pte'[r][q] = pte[r][q]
  BY Zenon DEF OnlyEntry
<1>2. Placed'
  <2> SUFFICES ASSUME NEW r \in Space, NEW q \in Page
               PROVE  /\ pte'[r][q].kind = "present" => pte'[r][q].at \in Frame
                      /\ pte'[r][q].kind = "swap" => pte'[r][q].at \in Slot
                      /\ pte'[r][q].kind # "none" => root'[r] # NoFrame
    BY Zenon DEF Placed, Live
  <2> QED
    BY <1>1, Zenon DEF CountInv, Placed, Live
<1>3. MappedOnce'
  <2> SUFFICES ASSUME NEW r \in Space, NEW a \in Page, NEW b \in Page, pte'[r][a].kind # "none",
                      pte'[r][b].kind = pte'[r][a].kind, pte'[r][b].at = pte'[r][a].at
               PROVE  a = b
    BY Zenon DEF MappedOnce
  <2>1. CASE r = s /\ (a = p \/ b = p)
    BY <1>1, <2>1, Zenon DEF Hits
  <2>2. CASE ~(r = s /\ (a = p \/ b = p))
    BY <1>1, <2>2 DEF CountInv, MappedOnce
  <2> QED
    BY <2>1, <2>2, Zenon
<1>5. FramesCounted'
  <2> SUFFICES ASSUME NEW f \in Frame
               PROVE  Cardinality(Mappings(f)') + Cardinality(Roots(f)') = Held(f)'
    BY Zenon DEF FramesCounted, Held
  <2>1. Cardinality(Mappings(f)')
          = Cardinality(Mappings(f)) + Hit(e, "present", f) - Hit(pte[s][p], "present", f)
    <3>1. Mappings(f)' = Refs(pte', "present", f) /\ Mappings(f) = Refs(pte, "present", f)
      BY Zenon DEF Mappings, Refs
    <3>2. Cardinality(Refs(pte', "present", f))
            = Cardinality(Refs(pte, "present", f)) + Hit(e, "present", f) - Hit(pte[s][p], "present", f)
      BY EntryChanged
    <3> QED
      BY <3>1, <3>2, Zenon
  <2>2. Roots(f)' = Roots(f)
    BY Zenon DEF Roots
  <2>3. Cardinality(Mappings(f)) + Cardinality(Roots(f)) = Held(f)
    BY Zenon DEF CountInv, FramesCounted, Held
  <2>4. Cardinality(Mappings(f)) \in Nat /\ Cardinality(Roots(f)) \in Nat
    BY RefsFinite, RootsFinite, Zenon DEF Mappings
  <2>5. Held(f)' = Held(f) + Hit(e, "present", f) - Hit(pte[s][p], "present", f)
    BY Zenon
  <2> QED
    BY <2>1, <2>2, <2>3, <2>4, <2>5 DEF In, Hit
<1>6. SlotsCounted'
  <2> SUFFICES ASSUME NEW i \in Slot
               PROVE  \/ swap_refs'[i] = Cardinality(Entries(i)')
                      \/ swap_refs'[i] = MaxSwapRefs /\ Cardinality(Entries(i)') < MaxSwapRefs
    BY Zenon DEF SlotsCounted
  <2> DEFINE old == Hits(pte[s][p], "swap", i)
             new == Hits(e, "swap", i)
  <2>1. Cardinality(Entries(i)') = Cardinality(Entries(i)) + Hit(e, "swap", i) - Hit(pte[s][p], "swap", i)
    <3>1. Entries(i)' = Refs(pte', "swap", i) /\ Entries(i) = Refs(pte, "swap", i)
      BY Zenon DEF Entries, Refs
    <3>2. Cardinality(Refs(pte', "swap", i))
            = Cardinality(Refs(pte, "swap", i)) + Hit(e, "swap", i) - Hit(pte[s][p], "swap", i)
      BY EntryChanged
    <3> QED
      BY <3>1, <3>2, Zenon
  <2>2. \/ swap_refs[i] = Cardinality(Entries(i))
        \/ swap_refs[i] = MaxSwapRefs /\ Cardinality(Entries(i)) < MaxSwapRefs
    BY Zenon DEF CountInv, SlotsCounted
  <2>3. Cardinality(Entries(i)) \in Nat
    BY RefsFinite, Zenon DEF Entries
  <2>4. old => <<s, p>> \in Entries(i)
    BY Zenon DEF Entries, Refs, Hits
  <2>5. old => Cardinality(Entries(i)) >= 1
    <3> HIDE DEF old
    <3> QED
      BY <2>4, RefsFinite, SmallSets, Zenon DEF Entries
  <2>6. swap_refs[i] \in 0 .. MaxSwapRefs /\ MaxSwapRefs \in Nat /\ MaxSwapRefs >= 2
    <3>1. swap_refs \in [Slot -> 0 .. MaxSwapRefs]
      BY Zenon DEF CountInv, TypeOK
    <3> QED
      BY <3>1, MemoryAssumption
  <2>7. \/ (old <=> new) /\ swap_refs'[i] = swap_refs[i]
        \/ ~old /\ new /\ swap_refs[i] = 0 /\ swap_refs'[i] = 1
        \/ old /\ ~new /\ swap_refs'[i] = SwapFreed({i}, swap_refs)[i]
    BY Zenon DEF SlotMoves
  <2>8. SwapFreed({i}, swap_refs)[i]
          = IF swap_refs[i] \notin {0, MaxSwapRefs} THEN swap_refs[i] - 1 ELSE swap_refs[i]
    BY Zenon DEF SwapFreed
  <2>9. /\ Hit(e, "swap", i) = IF new THEN 1 ELSE 0
        /\ Hit(pte[s][p], "swap", i) = IF old THEN 1 ELSE 0
    BY Zenon DEF Hit
  <2> HIDE DEF old, new
  <2> QED
    BY <2>1, <2>2, <2>3, <2>5, <2>6, <2>7, <2>8, <2>9
<1> QED
  BY <1>2, <1>3, <1>5, <1>6, Zenon DEF CountInv

-----------------------------------------------------------------------------
(* Types.                                                                  *)

(* Entries stay entries, whatever is done to them. *)
LEMMA EntryTypes ==
  ASSUME NEW e \in Entry
  PROVE  /\ Empty \in Entry /\ Shared(e) \in Entry
         /\ \A prot \in Prots : Protected(e, prot) \in Entry
         /\ \A i \in Slot : SwappedOut(e, i) \in Entry
         /\ \A f \in Frame : SwappedIn(e, f) \in Entry /\ Resolved(e, f) \in Entry
BY Zenon DEF Entry, Empty, Shared, Protected, SwappedOut, SwappedIn, Resolved

(* What the operations on entries leave alone. *)
LEMMA EntryFields ==
  ASSUME NEW e \in Entry
  PROVE  /\ Empty.kind = "none"
         /\ Shared(e).kind = e.kind /\ Shared(e).at = e.at
         /\ \A prot \in Prots : Protected(e, prot).kind = e.kind /\ Protected(e, prot).at = e.at
         /\ \A i : SwappedOut(e, i).kind = "swap" /\ SwappedOut(e, i).at = i
         /\ \A f : SwappedIn(e, f).kind = "present" /\ SwappedIn(e, f).at = f
         /\ \A f : Resolved(e, f).kind = e.kind /\ Resolved(e, f).at = f
BY Zenon DEF Entry, Empty, Shared, Protected, SwappedOut, SwappedIn, Resolved

(* Releasing frames and slots keeps their counts in range. *)
LEMMA CountTypes ==
  ASSUME TypeOK
  PROVE  /\ \A F \in SUBSET Frame :
              FreePages(F) => used' \in SUBSET Frame /\ frame_refs' \in [Frame -> 0 .. MaxRefs]
         /\ \A I, refs : refs \in [Slot -> 0 .. MaxSwapRefs] =>
              SwapFreed(I, refs) \in [Slot -> 0 .. MaxSwapRefs]
<1>1. ASSUME NEW F \in SUBSET Frame, FreePages(F)
      PROVE  used' \in SUBSET Frame /\ frame_refs' \in [Frame -> 0 .. MaxRefs]
  BY <1>1, MemoryAssumption DEF TypeOK, FreePages, KeepsFrame
<1>2. ASSUME NEW I, NEW refs \in [Slot -> 0 .. MaxSwapRefs]
      PROVE  SwapFreed(I, refs) \in [Slot -> 0 .. MaxSwapRefs]
  BY MemoryAssumption DEF SwapFreed
<1> QED
  BY <1>1, <1>2, Zenon

(* A new page table entry keeps the type of the page tables. *)
LEMMA TableTypes ==
  ASSUME NEW t \in [Space -> [Page -> Entry]], NEW s \in Space, NEW p \in Page, NEW e \in Entry
  PROVE  [t EXCEPT ![s][p] = e] \in [Space -> [Page -> Entry]]
BY Zenon

-----------------------------------------------------------------------------
(* The operations on one page.                                             *)

(* A new page. *)
LEMMA MapNewKeeps ==
  ASSUME CountInv, NEW s \in Space, NEW p \in Page, NEW writable \in BOOLEAN, NEW anon \in BOOLEAN,
         MapNew(s, p, writable, anon)
  PROVE  CountInv'
<1>p. PICK f \in FreeFrames :
       /\ used' = used \cup {f}
       /\ data' = [data EXCEPT ![f] = Zero]
       /\ pte' = [pte EXCEPT ![s][p] = [kind |-> "present", at |-> f, writable |-> writable,
                                        user |-> TRUE, cow |-> FALSE, anon |-> anon]]
  BY Zenon DEF MapNew
<1> DEFINE e == [kind |-> "present", at |-> f, writable |-> writable,
                 user |-> TRUE, cow |-> FALSE, anon |-> anon]
<1>0. /\ Live(s) /\ pte[s][p].kind = "none"
      /\ root' = root /\ frame_refs' = frame_refs /\ swap_refs' = swap_refs /\ disk' = disk
  BY Zenon DEF MapNew
<1>1. /\ f \in Frame /\ f \notin used /\ f # NoFrame /\ frame_refs[f] = 0
      /\ \A r \in Space, q \in Page : ~Hits(pte[r][q], "present", f)
  BY FreeIsUnused, Zenon
<1>2. e \in Entry
  BY <1>1, Zenon DEF Entry
<1>3. TypeOK'
  <2>1. pte' \in [Space -> [Page -> Entry]]
    BY <1>p, <1>2, TableTypes, Zenon DEF CountInv, TypeOK
  <2>2. data' \in [Frame -> Value] /\ used' \in SUBSET Frame
    BY <1>p, <1>1, MemoryAssumption, Zenon DEF CountInv, TypeOK
  <2> QED
    BY <1>0, <2>1, <2>2, Zenon DEF CountInv, TypeOK
<1>4. OnlyEntry(pte, pte', s, p) /\ pte'[s][p] = e
  BY <1>p, Zenon DEF OnlyEntry, CountInv, TypeOK
<1>5. NoStrayReference'
  BY <1>p, <1>0, <1>1, Zenon DEF CountInv, NoStrayReference, Live
<1>6. \A g \in Frame :
        Held(g)' = Held(g) + Hit(e, "present", g) - Hit(pte[s][p], "present", g)
  BY <1>p, <1>0, <1>1 DEF Held, Hit, Hits, CountInv, TypeOK
<1>7. \A i \in Slot : SlotMoves(i, pte[s][p], e)
  BY <1>0, Zenon DEF SlotMoves, Hits
<1>8. e.kind = "present" /\ e.at = f
  BY Zenon
<1> HIDE DEF e
<1> QED
  BY <1>0, <1>1, <1>2, <1>3, <1>4, <1>5, <1>6, <1>7, <1>8, EntryKeeps, Zenon

(* What pmm_free_page does to a frame's references, and to the free        *)
(* frames.                                                                 *)
LEMMA FreePagesDrops ==
  ASSUME CountInv, NEW F, FreePages(F), F \subseteq used
  PROVE  /\ \A g \in Frame : Held(g)' = Held(g) - In(g, F)
         /\ \A g \in Frame \ used' : frame_refs'[g] = 0
         /\ \A g \in Frame : frame_refs[g] = 0 => frame_refs'[g] = 0
<1>1. \A g \in Frame : frame_refs[g] \in Nat
  BY DEF CountInv, TypeOK
<1>2. /\ \A g \in Frame : g \in used' <=> g \in used /\ ~(g \in F /\ ~(frame_refs[g] > 0))
      /\ \A g \in Frame : frame_refs'[g] = IF g \in F /\ frame_refs[g] > 0 THEN frame_refs[g] - 1
                                                                       ELSE frame_refs[g]
  BY Zenon DEF FreePages, KeepsFrame
<1>3. \A g \in Frame : g \notin used => frame_refs[g] = 0
  BY Zenon DEF CountInv, NoStrayReference
<1>4. ASSUME NEW g \in Frame PROVE Held(g)' = Held(g) - In(g, F)
  BY <1>1, <1>2, <1>3 DEF Held, In
<1> QED
  BY <1>1, <1>2, <1>3, <1>4

(* A page that goes, with its frame or its slot. *)
LEMMA UnmapKeeps ==
  ASSUME CountInv, NEW s \in Space, NEW p \in Page, Unmap(s, p)
  PROVE  CountInv'
<1> DEFINE x == pte[s][p].at
<1>0. /\ Live(s) /\ pte[s][p].kind # "none" /\ pte[s][p] \in Entry
      /\ pte' = [pte EXCEPT ![s][p] = Empty]
      /\ root' = root /\ data' = data /\ disk' = disk
  BY Zenon DEF Unmap, CountInv, TypeOK
<1>1. Empty \in Entry /\ Empty.kind = "none"
  BY <1>0, EntryTypes, EntryFields, Zenon
<1>2. OnlyEntry(pte, pte', s, p) /\ pte'[s][p] = Empty
  BY <1>0, Zenon DEF OnlyEntry, CountInv, TypeOK
<1>3. pte' \in [Space -> [Page -> Entry]]
  BY <1>0, <1>1, TableTypes, Zenon DEF CountInv, TypeOK
<1>4. CASE pte[s][p].kind = "present" /\ FreePages({x}) /\ swap_refs' = swap_refs
  <2>1. x \in used /\ x \in Frame /\ \A r \in Space : root[r] # x
    BY <1>4, MappedIsUsed, Zenon
  <2>2. TypeOK'
    BY <1>0, <1>3, <1>4, <2>1, CountTypes, Zenon DEF CountInv, TypeOK
  <2>3. NoStrayReference' /\ \A g \in Frame : Held(g)' = Held(g) - In(g, {x})
    <3>1. {x} \subseteq used
      BY <2>1, Zenon
    <3>2. /\ \A g \in Frame : Held(g)' = Held(g) - In(g, {x})
          /\ \A g \in Frame \ used' : frame_refs'[g] = 0
          /\ \A g \in Frame : frame_refs[g] = 0 => frame_refs'[g] = 0
      BY <3>1, <1>4, FreePagesDrops, Zenon
    <3> QED
      BY <3>2, <1>0, Zenon DEF CountInv, NoStrayReference, Live, TypeOK
  <2>4. \A g \in Frame : Hit(Empty, "present", g) = 0 /\ Hit(pte[s][p], "present", g) = In(g, {x})
    BY <1>1, <1>4, Zenon DEF Hit, Hits, In
  <2>5. \A g \in Frame :
          Held(g)' = Held(g) + Hit(Empty, "present", g) - Hit(pte[s][p], "present", g)
    <3>1. \A g \in Frame : Held(g) \in Int
      BY DEF Held, CountInv, TypeOK
    <3> QED
      BY <2>3, <2>4, <3>1 DEF In
  <2>6. \A i \in Slot : SlotMoves(i, pte[s][p], Empty)
    BY <1>1, <1>4, Zenon DEF SlotMoves, Hits
  <2> QED
    BY <1>0, <1>1, <1>2, <2>2, <2>3, <2>5, <2>6, EntryKeeps, Zenon
<1>5. CASE pte[s][p].kind = "swap" /\ swap_refs' = SwapFreed({x}, swap_refs)
           /\ used' = used /\ frame_refs' = frame_refs
  <2>1. TypeOK'
    BY <1>0, <1>3, <1>5, CountTypes, Zenon DEF CountInv, TypeOK
  <2>2. NoStrayReference'
    BY <1>0, <1>5, Zenon DEF CountInv, NoStrayReference, Live
  <2>3. \A g \in Frame :
          Held(g)' = Held(g) + Hit(Empty, "present", g) - Hit(pte[s][p], "present", g)
    BY <1>1, <1>5 DEF Held, Hit, Hits, CountInv, TypeOK
  <2>4. \A i \in Slot : SlotMoves(i, pte[s][p], Empty)
    BY <1>1, <1>5, Zenon DEF SlotMoves, Hits, SwapFreed
  <2> QED
    BY <1>0, <1>1, <1>2, <2>1, <2>2, <2>3, <2>4, EntryKeeps, Zenon
<1> QED
  BY <1>4, <1>5, Zenon DEF Unmap

(* A page written to a free slot. *)
LEMMA SwapOutKeeps ==
  ASSUME CountInv, NEW s \in Space, NEW p \in Page, SwapOut(s, p)
  PROVE  CountInv'
<1> DEFINE e == pte[s][p]
<1>p. PICK i \in FreeSlots :
       /\ pte' = [pte EXCEPT ![s][p] = SwappedOut(e, i)]
       /\ swap_refs' = [swap_refs EXCEPT ![i] = 1]
       /\ disk' = [disk EXCEPT ![i] = data[e.at]]
  BY Zenon DEF SwapOut
<1> DEFINE o == SwappedOut(e, i)
<1>0. /\ e \in Entry /\ e.kind = "present" /\ FreePages({e.at}) /\ root' = root /\ data' = data
  BY DEF SwapOut, Evictable, CountInv, TypeOK
<1>1. Live(s) /\ i \in Slot /\ swap_refs[i] = 0
  BY <1>0, Zenon DEF CountInv, Placed, FreeSlots
<1>2. o \in Entry /\ o.kind = "swap" /\ o.at = i
  BY <1>0, <1>1, EntryTypes, EntryFields
<1>3. OnlyEntry(pte, pte', s, p) /\ pte'[s][p] = o
  BY <1>p, Zenon DEF OnlyEntry, CountInv, TypeOK
<1>4. e.at \in used /\ e.at \in Frame /\ \A r \in Space : root[r] # e.at
  BY <1>0, MappedIsUsed, Zenon
<1>5. TypeOK'
  <2>1. pte' \in [Space -> [Page -> Entry]]
    BY <1>p, <1>2, TableTypes, Zenon DEF CountInv, TypeOK
  <2>2. swap_refs' \in [Slot -> 0 .. MaxSwapRefs] /\ disk' \in [Slot -> Value]
    <3>1. 1 \in 0 .. MaxSwapRefs
      BY MemoryAssumption
    <3> QED
      BY <1>p, <1>1, <1>4, <3>1, Zenon DEF CountInv, TypeOK
  <2> QED
    BY <1>0, <1>4, <2>1, <2>2, CountTypes, Zenon DEF CountInv, TypeOK
<1>6. NoStrayReference' /\ \A g \in Frame : Held(g)' = Held(g) - In(g, {e.at})
  <2>1. {e.at} \subseteq used
    BY <1>4, Zenon
  <2>2. /\ \A g \in Frame : Held(g)' = Held(g) - In(g, {e.at})
        /\ \A g \in Frame \ used' : frame_refs'[g] = 0
        /\ \A g \in Frame : frame_refs[g] = 0 => frame_refs'[g] = 0
    BY <2>1, <1>0, FreePagesDrops, Zenon
  <2> QED
    BY <2>2, <1>0, Zenon DEF CountInv, NoStrayReference, Live, TypeOK
<1>7. \A g \in Frame : Held(g)' = Held(g) + Hit(o, "present", g) - Hit(e, "present", g)
  <2>1. \A g \in Frame : Hit(o, "present", g) = 0 /\ Hit(e, "present", g) = In(g, {e.at})
    BY <1>0, <1>2, Zenon DEF Hit, Hits, In
  <2>2. \A g \in Frame : Held(g) \in Int
    BY DEF Held, CountInv, TypeOK
  <2> QED
    BY <1>6, <2>1, <2>2 DEF In
<1>8. \A j \in Slot : SlotMoves(j, e, o)
  BY <1>p, <1>0, <1>1, <1>2, Zenon DEF SlotMoves, Hits, CountInv, TypeOK
<1>9. \A q \in Page : ~Hits(pte[s][q], "swap", i)
  BY FreeSlotIsUnused, Zenon
<1> HIDE DEF o
<1> QED
  BY <1>0, <1>1, <1>2, <1>3, <1>5, <1>6, <1>7, <1>8, <1>9, EntryKeeps, Zenon

(* A page read from its slot into a free frame. *)
LEMMA SwapInFreeKeeps ==
  ASSUME CountInv, NEW s \in Space, NEW p \in Page, NEW e \in Entry, NEW f \in FreeFrames,
         pte[s][p].kind = "swap",
         used' = used \cup {f},
         data' = [data EXCEPT ![f] = disk[pte[s][p].at]],
         pte' = [pte EXCEPT ![s][p] = SwappedIn(e, f)],
         swap_refs' = SwapFreed({pte[s][p].at}, swap_refs),
         UNCHANGED <<root, frame_refs, disk>>
  PROVE  CountInv'
<1> DEFINE o == SwappedIn(e, f)
           x == pte[s][p].at
<1>1. /\ f \in Frame /\ f \notin used /\ f # NoFrame /\ frame_refs[f] = 0
      /\ \A r \in Space, q \in Page : ~Hits(pte[r][q], "present", f)
  BY FreeIsUnused, Zenon
<1>2. Live(s) /\ x \in Slot
  BY Zenon DEF CountInv, Placed
<1>3. o \in Entry /\ o.kind = "present" /\ o.at = f
  BY <1>1, EntryTypes, EntryFields
<1>4. OnlyEntry(pte, pte', s, p) /\ pte'[s][p] = o
  BY Zenon DEF OnlyEntry, CountInv, TypeOK
<1>5. TypeOK'
  <2>1. pte' \in [Space -> [Page -> Entry]]
    BY <1>3, TableTypes, Zenon DEF CountInv, TypeOK
  <2>2. data' \in [Frame -> Value] /\ used' \in SUBSET Frame
    BY <1>1, <1>2, Zenon DEF CountInv, TypeOK
  <2> QED
    BY <2>1, <2>2, CountTypes, Zenon DEF CountInv, TypeOK
<1>6. NoStrayReference'
  BY <1>1, Zenon DEF CountInv, NoStrayReference, Live
<1>7. \A g \in Frame : Held(g)' = Held(g) + Hit(o, "present", g) - Hit(pte[s][p], "present", g)
  BY <1>1, <1>3 DEF Held, Hit, Hits, CountInv, TypeOK
<1>8. \A i \in Slot : SlotMoves(i, pte[s][p], o)
  BY <1>3, Zenon DEF SlotMoves, Hits, SwapFreed
<1> HIDE DEF o, x
<1> QED
  BY <1>1, <1>2, <1>3, <1>4, <1>5, <1>6, <1>7, <1>8, EntryKeeps, Zenon

(* A write to a copy-on-write page. *)
LEMMA CowFaultKeeps ==
  ASSUME CountInv, NEW s \in Space, NEW p \in Page, CowFault(s, p)
  PROVE  CountInv'
<1> DEFINE e == pte[s][p]
<1>0. /\ e \in Entry /\ e.kind = "present" /\ root' = root /\ swap_refs' = swap_refs /\ disk' = disk
  BY DEF CowFault, CountInv, TypeOK
<1>1. Live(s) /\ e.at \in Frame /\ e.at \in used /\ \A r \in Space : root[r] # e.at
  BY <1>0, MappedIsUsed, Zenon DEF CountInv, Placed
<1>2. CASE /\ pte' = [pte EXCEPT ![s][p] = Resolved(e, e.at)]
           /\ used' = used /\ frame_refs' = frame_refs /\ data' = data
  <2> DEFINE o == Resolved(e, e.at)
  <2>1. o \in Entry /\ o.kind = "present" /\ o.at = e.at
    BY <1>0, <1>1, EntryTypes, EntryFields
  <2>2. OnlyEntry(pte, pte', s, p) /\ pte'[s][p] = o
    BY <1>2, Zenon DEF OnlyEntry, CountInv, TypeOK
  <2>3. TypeOK'
    BY <1>0, <1>2, <2>1, TableTypes, Zenon DEF CountInv, TypeOK
  <2>4. NoStrayReference'
    BY <1>0, <1>2, Zenon DEF CountInv, NoStrayReference, Live
  <2>5. \A g \in Frame : Held(g)' = Held(g) + Hit(o, "present", g) - Hit(e, "present", g)
    BY <1>0, <1>2, <2>1 DEF Held, Hit, Hits, CountInv, TypeOK
  <2>6. \A i \in Slot : SlotMoves(i, e, o)
    BY <1>0, <2>1, Zenon DEF SlotMoves, Hits
  <2>7. \A q \in Page : Hits(pte[s][q], "present", e.at) => q = p
    BY <1>0 DEF CountInv, MappedOnce, Hits
  <2> HIDE DEF o
  <2> QED
    BY <1>0, <1>1, <2>1, <2>2, <2>3, <2>4, <2>5, <2>6, <2>7, EntryKeeps, ZenonT(60)
<1>3. CASE /\ frame_refs[e.at] > 0
           /\ \E f \in FreeFrames :
                /\ used' = used \cup {f}
                /\ frame_refs' = [frame_refs EXCEPT ![e.at] = @ - 1]
                /\ data' = [data EXCEPT ![f] = data[e.at]]
                /\ pte' = [pte EXCEPT ![s][p] = Resolved(e, f)]
  <2>0. PICK f \in FreeFrames :
          /\ used' = used \cup {f}
          /\ frame_refs' = [frame_refs EXCEPT ![e.at] = @ - 1]
          /\ data' = [data EXCEPT ![f] = data[e.at]]
          /\ pte' = [pte EXCEPT ![s][p] = Resolved(e, f)]
    BY <1>3, Zenon
  <2> DEFINE o == Resolved(e, f)
  <2>1. /\ f \in Frame /\ f \notin used /\ f # NoFrame /\ frame_refs[f] = 0
        /\ \A r \in Space, q \in Page : ~Hits(pte[r][q], "present", f)
    BY FreeIsUnused, Zenon
  <2>2. o \in Entry /\ o.kind = "present" /\ o.at = f
    BY <1>0, <2>1, EntryTypes, EntryFields
  <2>3. OnlyEntry(pte, pte', s, p) /\ pte'[s][p] = o
    BY <2>0, Zenon DEF OnlyEntry, CountInv, TypeOK
  <2>4. TypeOK'
    <3>1. pte' \in [Space -> [Page -> Entry]]
      BY <2>0, <2>2, TableTypes, Zenon DEF CountInv, TypeOK
    <3>2. frame_refs' \in [Frame -> 0 .. MaxRefs]
      <4>1. frame_refs \in [Frame -> 0 .. MaxRefs] /\ frame_refs[e.at] - 1 \in 0 .. MaxRefs
        BY <1>1, <1>3, MemoryAssumption DEF CountInv, TypeOK
      <4> QED
        BY <1>1, <2>0, <4>1, Zenon
    <3>3. data' \in [Frame -> Value] /\ used' \in SUBSET Frame
      BY <1>1, <2>0, <2>1, Zenon DEF CountInv, TypeOK
    <3> QED
      BY <1>0, <3>1, <3>2, <3>3, Zenon DEF CountInv, TypeOK
  <2>5. /\ \A g \in Frame : frame_refs[g] \in Nat
        /\ \A g \in Frame : frame_refs'[g] = IF g = e.at THEN frame_refs[g] - 1 ELSE frame_refs[g]
    BY <2>0 DEF CountInv, TypeOK
  <2>6. NoStrayReference'
    <3>1. /\ \A g \in Frame \ used : frame_refs[g] = 0
          /\ \A r \in Space : root[r] # NoFrame => frame_refs[root[r]] = 0 /\ root[r] \in Frame
      BY Zenon DEF CountInv, NoStrayReference, Live, TypeOK
    <3>2. /\ \A g \in Frame \ used' : frame_refs'[g] = 0
          /\ \A r \in Space : root'[r] # NoFrame => frame_refs'[root'[r]] = 0
      BY <1>0, <1>1, <2>0, <2>5, <3>1, ZenonT(60)
    <3> QED
      BY <3>2, Zenon DEF NoStrayReference, Live
  <2>7. \A g \in Frame : Held(g)' = Held(g) + Hit(o, "present", g) - Hit(e, "present", g)
    BY <1>0, <1>1, <2>0, <2>1, <2>2, <2>5 DEF Held, Hit, Hits
  <2>8. \A i \in Slot : SlotMoves(i, e, o)
    BY <1>0, <2>2, Zenon DEF SlotMoves, Hits
  <2> HIDE DEF o
  <2> QED
    BY <1>0, <1>1, <2>1, <2>2, <2>3, <2>4, <2>6, <2>7, <2>8, EntryKeeps, Zenon
<1> QED
  BY <1>2, <1>3, Zenon DEF CowFault

(* SwapInAs where page q of r makes room. *)
Evicts(s, p, e, r, q, j) ==
  /\ pte[s][p].kind = "swap" /\ Evictable(pte[r][q])
  /\ disk' = [disk EXCEPT ![j] = data[pte[r][q].at]]
  /\ data' = [data EXCEPT ![pte[r][q].at] = disk[pte[s][p].at]]
  /\ pte' = [pte EXCEPT ![r][q] = SwappedOut(@, j), ![s][p] = SwappedIn(e, pte[r][q].at)]
  /\ swap_refs' = SwapFreed({pte[s][p].at}, [swap_refs EXCEPT ![j] = 1])
  /\ UNCHANGED <<root, used, frame_refs>>

(* A page read from its slot into the frame of a page that goes to a slot. *)
LEMMA SwapInEvictKeeps ==
  ASSUME CountInv, NEW s \in Space, NEW p \in Page, NEW e \in Entry,
         NEW r \in Space, NEW q \in Page, NEW j \in FreeSlots, Evicts(s, p, e, r, q, j)
  PROVE  CountInv'
<1> DEFINE i == pte[s][p].at
           f == pte[r][q].at
           out == SwappedOut(pte[r][q], j)
           in == SwappedIn(e, f)
           mid == [pte EXCEPT ![r][q] = out]
<1>0. /\ pte[s][p].kind = "swap" /\ Evictable(pte[r][q])
      /\ disk' = [disk EXCEPT ![j] = data[f]]
      /\ data' = [data EXCEPT ![f] = disk[i]]
      /\ pte' = [mid EXCEPT ![s][p] = in]
      /\ swap_refs' = SwapFreed({i}, [swap_refs EXCEPT ![j] = 1])
      /\ root' = root /\ used' = used /\ frame_refs' = frame_refs
  BY Zenon DEF Evicts, CountInv, TypeOK
<1>1. /\ pte \in [Space -> [Page -> Entry]] /\ pte[r][q] \in Entry
      /\ pte[r][q].kind = "present" /\ frame_refs[f] = 0
  BY <1>0, Zenon DEF CountInv, TypeOK, Evictable
<1>2. /\ f \in Frame /\ f \in used
      /\ \A a \in Space, b \in Page : Hits(pte[a][b], "present", f) => a = r /\ b = q
  BY <1>1, MappedIsUsed, Zenon
<1>3. j \in Slot /\ swap_refs[j] = 0 /\ \A a \in Space, b \in Page : ~Hits(pte[a][b], "swap", j)
  BY FreeSlotIsUnused, Zenon
<1>4. i \in Slot /\ swap_refs[i] > 0 /\ i # j /\ Live(s) /\ Live(r)
  <2>1. i \in Slot /\ swap_refs[i] > 0
    BY <1>0, SlotIsUsed, Zenon
  <2>2. Live(s) /\ Live(r)
    BY <1>0, <1>1, Zenon DEF CountInv, Placed
  <2>3. i # j
    BY <1>3, <2>1
  <2> QED
    BY <2>1, <2>2, <2>3, Zenon
<1>5. /\ out \in Entry /\ out.kind = "swap" /\ out.at = j
      /\ in \in Entry /\ in.kind = "present" /\ in.at = f
  <2>1. out \in Entry /\ out.kind = "swap" /\ out.at = j
    BY <1>1, <1>3, EntryTypes, EntryFields
  <2>2. in \in Entry /\ in.kind = "present" /\ in.at = f
    <3> HIDE DEF f
    <3> QED
      BY <1>2, EntryTypes, EntryFields
  <2> QED
    BY <2>1, <2>2, Zenon
<1> HIDE DEF in, out, i, f
<1>6. /\ mid[r][q] = out /\ pte'[s][p] = in /\ mid[s][p] = pte[s][p] /\ pte'[r][q] = out
      /\ OnlyEntry(pte, mid, r, q) /\ OnlyEntry(mid, pte', s, p)
  <2>1. r # s \/ q # p
    BY <1>0, <1>1, Zenon
  <2>2. /\ \A a \in Space, b \in Page : mid[a][b] = IF a = r /\ b = q THEN out ELSE pte[a][b]
        /\ mid \in [Space -> [Page -> Entry]]
    BY <1>1, <1>5, Zenon
  <2> HIDE DEF mid
  <2>3. \A a \in Space, b \in Page : pte'[a][b] = IF a = s /\ b = p THEN in ELSE mid[a][b]
    BY <1>0, <2>2, Zenon
  <2> QED
    BY <2>1, <2>2, <2>3, ZenonT(60) DEF OnlyEntry
<1>7. ASSUME NEW a \in Space, NEW b \in Page, ~(a = r /\ b = q), ~(a = s /\ b = p)
      PROVE  pte'[a][b] = pte[a][b]
  BY <1>7, <1>6 DEF OnlyEntry
<1>8. TypeOK'
  <2>1. mid \in [Space -> [Page -> Entry]] /\ pte' \in [Space -> [Page -> Entry]]
    <3>1. mid \in [Space -> [Page -> Entry]]
      BY <1>1, <1>5, TableTypes, Zenon
    <3> HIDE DEF mid
    <3> QED
      BY <1>0, <1>5, <3>1, TableTypes, Zenon
  <2>2. disk' \in [Slot -> Value] /\ data' \in [Frame -> Value]
    BY <1>0, <1>2, <1>3, <1>4, Zenon DEF CountInv, TypeOK
  <2>3. [swap_refs EXCEPT ![j] = 1] \in [Slot -> 0 .. MaxSwapRefs]
    BY <1>3, MemoryAssumption DEF CountInv, TypeOK
  <2> QED
    BY <1>0, <2>1, <2>2, <2>3, CountTypes, Zenon DEF CountInv, TypeOK
<1> HIDE DEF mid
<1>h. /\ pte'[r][q].kind = "swap" /\ pte'[r][q].at = j
      /\ pte'[s][p].kind = "present" /\ pte'[s][p].at = f
  BY <1>5, <1>6, Zenon
<1>n. \A a \in Space, b \in Page :
        /\ (a = r /\ b = q) \/ (a = s /\ b = p) \/ pte'[a][b] = pte[a][b]
        /\ Hits(pte'[a][b], "swap", j) => a = r /\ b = q
        /\ Hits(pte'[a][b], "present", f) => a = s /\ b = p
  <2> SUFFICES ASSUME NEW a \in Space, NEW b \in Page
               PROVE  /\ (a = r /\ b = q) \/ (a = s /\ b = p) \/ pte'[a][b] = pte[a][b]
                      /\ Hits(pte'[a][b], "swap", j) => a = r /\ b = q
                      /\ Hits(pte'[a][b], "present", f) => a = s /\ b = p
    BY Zenon
  <2>1. CASE a = r /\ b = q
    BY <1>h, <2>1, Zenon DEF Hits
  <2>2. CASE a = s /\ b = p
    BY <1>h, <2>2, Zenon DEF Hits
  <2>3. CASE ~(a = r /\ b = q) /\ ~(a = s /\ b = p)
    <3>1. pte'[a][b] = pte[a][b]
      BY <1>7, <2>3, Zenon
    <3> QED
      BY <1>2, <1>3, <2>3, <3>1, Zenon
  <2> QED
    BY <2>1, <2>2, <2>3, Zenon
<1>9. Placed'
  <2> SUFFICES ASSUME NEW a \in Space, NEW b \in Page
               PROVE  /\ pte'[a][b].kind = "present" => pte'[a][b].at \in Frame
                      /\ pte'[a][b].kind = "swap" => pte'[a][b].at \in Slot
                      /\ pte'[a][b].kind # "none" => Live(a)
    BY <1>0, Zenon DEF Placed, Live
  <2>1. CASE a = r /\ b = q
    BY <1>3, <1>4, <1>h, <2>1, Zenon
  <2>2. CASE a = s /\ b = p
    BY <1>2, <1>4, <1>h, <2>2, Zenon
  <2>3. CASE pte'[a][b] = pte[a][b]
    BY <2>3, Zenon DEF CountInv, Placed
  <2> QED
    BY <1>n, <2>1, <2>2, <2>3, Zenon
<1>10. MappedOnce'
  <2> SUFFICES ASSUME NEW a \in Space, NEW b \in Page, NEW c \in Page, pte'[a][b].kind # "none",
                      pte'[a][c].kind = pte'[a][b].kind, pte'[a][c].at = pte'[a][b].at
               PROVE  b = c
    BY Zenon DEF MappedOnce
  <2>1. CASE a = r /\ (b = q \/ c = q)
    BY <1>h, <1>n, <2>1 DEF Hits
  <2>2. CASE a = s /\ (b = p \/ c = p)
    BY <1>h, <1>n, <2>2 DEF Hits
  <2>3. CASE pte'[a][b] = pte[a][b] /\ pte'[a][c] = pte[a][c]
    BY <2>3 DEF CountInv, MappedOnce
  <2> QED
    BY <1>n, <2>1, <2>2, <2>3, Zenon
<1>11. NoStrayReference'
  BY <1>0, Zenon DEF CountInv, NoStrayReference, Live
<1>12. ASSUME NEW kind \in {"present", "swap"}, NEW x \in Frame \cup Slot
       PROVE  Cardinality(Refs(pte', kind, x))
                = Cardinality(Refs(pte, kind, x)) + Hit(out, kind, x) - Hit(pte[r][q], kind, x)
                  + Hit(in, kind, x) - Hit(pte[s][p], kind, x)
  <2>1. Cardinality(Refs(mid, kind, x))
          = Cardinality(Refs(pte, kind, x)) + Hit(mid[r][q], kind, x) - Hit(pte[r][q], kind, x)
    <3>1. OnlyEntry(pte, mid, r, q)
      BY <1>6, Zenon
    <3> QED
      BY <3>1, EntryChanged
  <2>2. Cardinality(Refs(pte', kind, x))
          = Cardinality(Refs(mid, kind, x)) + Hit(pte'[s][p], kind, x) - Hit(mid[s][p], kind, x)
    <3>1. OnlyEntry(mid, pte', s, p)
      BY <1>6, Zenon
    <3> QED
      BY <3>1, EntryChanged
  <2> QED
    BY <1>6, <2>1, <2>2, Zenon
<1>13. FramesCounted'
  <2> SUFFICES ASSUME NEW g \in Frame
               PROVE  Cardinality(Refs(pte', "present", g)) = Cardinality(Refs(pte, "present", g))
    BY <1>0, Zenon DEF CountInv, FramesCounted, Mappings, Roots, Refs
  <2>1. Cardinality(Refs(pte, "present", g)) \in Nat
    BY RefsFinite, Zenon
  <2>2. /\ Hit(out, "present", g) = 0 /\ Hit(pte[s][p], "present", g) = 0
        /\ Hit(pte[r][q], "present", g) = Hit(in, "present", g) /\ Hit(in, "present", g) \in Nat
    BY <1>0, <1>1, <1>5, Zenon DEF Hit, Hits, f
  <2> QED
    BY <2>1, <2>2, <1>12
<1>14. SlotsCounted'
  <2> SUFFICES ASSUME NEW k \in Slot
               PROVE  \/ swap_refs'[k] = Cardinality(Refs(pte', "swap", k))
                      \/ swap_refs'[k] = MaxSwapRefs /\ Cardinality(Refs(pte', "swap", k)) < MaxSwapRefs
    BY Zenon DEF SlotsCounted, Entries, Refs
  <2>1. Cardinality(Refs(pte, "swap", k)) \in Nat
    BY RefsFinite, Zenon
  <2>2. /\ Hit(out, "swap", k) = IF k = j THEN 1 ELSE 0
        /\ Hit(pte[s][p], "swap", k) = IF k = i THEN 1 ELSE 0
        /\ Hit(pte[r][q], "swap", k) = 0 /\ Hit(in, "swap", k) = 0
    BY <1>0, <1>1, <1>5, Zenon DEF Hit, Hits, i
  <2>3. \/ swap_refs[k] = Cardinality(Refs(pte, "swap", k))
        \/ swap_refs[k] = MaxSwapRefs /\ Cardinality(Refs(pte, "swap", k)) < MaxSwapRefs
    BY Zenon DEF CountInv, SlotsCounted, Entries
  <2>4. k = i => Cardinality(Refs(pte, "swap", k)) >= 1
    <3>1. k = i => <<s, p>> \in Refs(pte, "swap", k)
      BY <1>0, Zenon DEF Refs, i
    <3> QED
      BY <3>1, RefsFinite, SmallSets, Zenon
  <2>5. swap_refs[k] \in 0 .. MaxSwapRefs /\ MaxSwapRefs \in Nat /\ MaxSwapRefs >= 2
    <3>1. swap_refs \in [Slot -> 0 .. MaxSwapRefs]
      BY Zenon DEF CountInv, TypeOK
    <3> QED
      BY <3>1, MemoryAssumption
  <2>6. swap_refs'[k] = IF k = j THEN 1
                        ELSE IF k = i /\ swap_refs[k] \notin {0, MaxSwapRefs} THEN swap_refs[k] - 1
                        ELSE swap_refs[k]
    BY <1>0, <1>3, <1>4, Zenon DEF SwapFreed, CountInv, TypeOK
  <2>7. Cardinality(Refs(pte', "swap", k))
          = Cardinality(Refs(pte, "swap", k)) + (IF k = j THEN 1 ELSE 0) - (IF k = i THEN 1 ELSE 0)
    BY <1>12, <2>1, <2>2
  <2> QED
    BY <1>3, <1>4, <2>1, <2>3, <2>4, <2>5, <2>6, <2>7
<1> QED
  BY <1>8, <1>9, <1>10, <1>11, <1>13, <1>14, Zenon DEF CountInv

(* A page read from its slot. *)
LEMMA SwapInKeeps ==
  ASSUME CountInv, NEW s \in Space, NEW p \in Page, NEW e \in Entry, SwapInAs(s, p, e)
  PROVE  CountInv'
<1>1. CASE \E f \in FreeFrames :
             /\ pte[s][p].kind = "swap"
             /\ used' = used \cup {f}
             /\ data' = [data EXCEPT ![f] = disk[pte[s][p].at]]
             /\ pte' = [pte EXCEPT ![s][p] = SwappedIn(e, f)]
             /\ swap_refs' = SwapFreed({pte[s][p].at}, swap_refs)
             /\ UNCHANGED <<root, frame_refs, disk>>
  BY <1>1, SwapInFreeKeeps, Zenon
<1>2. CASE \E r \in Space, q \in Page, j \in FreeSlots : Evicts(s, p, e, r, q, j)
  BY <1>2, SwapInEvictKeeps, Zenon
<1> QED
  BY <1>1, <1>2, ZenonT(60) DEF SwapInAs, Evicts

(* A change of protection. *)
LEMMA ProtectKeeps ==
  ASSUME CountInv, NEW s \in Space, NEW p \in Page, NEW prot \in Prots, Protect(s, p, prot)
  PROVE  CountInv'
<1> DEFINE e == pte[s][p]
           o == Protected(e, prot)
<1>0. e \in Entry
  BY Zenon DEF CountInv, TypeOK
<1>1. o \in Entry /\ o.kind = e.kind /\ o.at = e.at
  BY <1>0, EntryTypes, EntryFields
<1>2. CASE /\ e.kind = "present" /\ pte' = [pte EXCEPT ![s][p] = o]
           /\ UNCHANGED <<root, used, frame_refs, data, swap_refs, disk>>
  <2>1. OnlyEntry(pte, pte', s, p) /\ pte'[s][p] = o
    BY <1>2, Zenon DEF OnlyEntry, CountInv, TypeOK
  <2>2. TypeOK'
    BY <1>1, <1>2, TableTypes, Zenon DEF CountInv, TypeOK
  <2>3. NoStrayReference'
    BY <1>2, Zenon DEF CountInv, NoStrayReference, Live
  <2>4. \A g \in Frame : Held(g)' = Held(g) + Hit(o, "present", g) - Hit(e, "present", g)
    BY <1>1, <1>2 DEF Held, Hit, Hits, CountInv, TypeOK
  <2>5. \A i \in Slot : SlotMoves(i, e, o)
    BY <1>1, <1>2, Zenon DEF SlotMoves, Hits
  <2>6. \A q \in Page : Hits(pte[s][q], o.kind, o.at) => q = p
    BY <1>1, <1>2, Zenon DEF CountInv, MappedOnce, Hits
  <2>7. Live(s) /\ e.at \in Frame
    BY <1>2, Zenon DEF CountInv, Placed
  <2> HIDE DEF o
  <2> QED
    BY <1>1, <1>2, <2>1, <2>2, <2>3, <2>4, <2>5, <2>6, <2>7, EntryKeeps, Zenon
<1>3. CASE SwapInAs(s, p, o)
  <2> HIDE DEF o
  <2> QED
    BY <1>1, <1>3, SwapInKeeps, Zenon
<1> QED
  BY <1>2, <1>3, Zenon DEF Protect

(* A write by the process itself. *)
LEMMA StoreKeeps ==
  ASSUME CountInv, NEW s \in Space, NEW p \in Page, NEW v \in Value, Store(s, p, v)
  PROVE  CountInv'
<1>1. TypeOK'
  BY Zenon DEF Store, CountInv, TypeOK
<1>2. UNCHANGED <<root, pte, used, frame_refs, swap_refs>>
  BY Zenon DEF Store
<1>3. Placed' /\ MappedOnce' /\ NoStrayReference'
  BY <1>2, Zenon DEF CountInv, Placed, Live, MappedOnce, NoStrayReference
<1>4. FramesCounted' /\ SlotsCounted'
  BY <1>2, Zenon DEF CountInv, FramesCounted, SlotsCounted, Mappings, Entries, Roots, Refs
<1> QED
  BY <1>1, <1>3, <1>4, Zenon DEF CountInv

-----------------------------------------------------------------------------
(* The operations on whole address spaces.                                 *)

Once(t, s, kind) ==
  \A p, q \in Page : t[s][p].kind = kind /\ t[s][q].kind = kind /\ t[s][p].at = t[s][q].at => p = q
Refers(t, s, kind, x) == \E q \in Page : Hits(t[s][q], kind, x)

(* Table t has one reference more than u to what page table s refers to,   *)
(* if s refers to nothing twice, u does not have that reference, and they  *)
(* are otherwise the same.                                                 *)
LEMMA SpaceCounted ==
  ASSUME NEW t, NEW u, NEW s \in Space, NEW kind \in {"present", "swap"}, NEW x \in Frame \cup Slot,
         OnlySpace(t, u, s), Once(t, s, kind), ~Refers(u, s, kind, x)
  PROVE  Cardinality(Refs(t, kind, x))
           = Cardinality(Refs(u, kind, x)) + IF Refers(t, s, kind, x) THEN 1 ELSE 0
<1>0. Cardinality(Refs(t, kind, x)) \in Nat /\ Cardinality(Refs(u, kind, x)) \in Nat
  BY RefsFinite, Zenon
<1>1. CASE Refers(t, s, kind, x)
  <2>1. PICK p \in Page : Hits(t[s][p], kind, x)
    BY <1>1, Zenon DEF Refers
  <2>2. OnlyPage(t, s, p, kind, x) /\ OnlyPage(u, s, p, kind, x)
    BY <2>1, Zenon DEF OnlyPage, Once, Refers, Hits
  <2>3. Cardinality(Refs(u, kind, x))
          = Cardinality(Refs(t, kind, x)) + Hit(u[s][p], kind, x) - Hit(t[s][p], kind, x)
    BY <2>2, SpaceChanged
  <2>4. Hit(u[s][p], kind, x) = 0 /\ Hit(t[s][p], kind, x) = 1
    BY <2>1, Zenon DEF Hit, Refers
  <2> QED
    BY <1>0, <1>1, <2>3, <2>4
<1>2. CASE ~Refers(t, s, kind, x)
  <2>1. Refs(t, kind, x) = Refs(u, kind, x)
    <3>1. ASSUME NEW m \in Space \X Page
          PROVE  Hits(t[m[1]][m[2]], kind, x) <=> Hits(u[m[1]][m[2]], kind, x)
      BY <1>2 DEF Refers, OnlySpace, Hits
    <3> QED
      BY <3>1, Zenon DEF Refs, Hits
  <2> QED
    BY <1>0, <1>2, <2>1
<1> QED
  BY <1>1, <1>2, Zenon

(* A page table's frames and slots are those it refers to. *)
LEMMA OfSpace ==
  ASSUME NEW s \in Space
  PROVE  /\ \A x : x \in FramesOf(s) <=> Refers(pte, s, "present", x)
         /\ \A x : x \in SlotsOf(s) <=> Refers(pte, s, "swap", x)
BY Zenon DEF FramesOf, SlotsOf, Refers, Hits

(* A new address space. *)
LEMMA CreateKeeps ==
  ASSUME CountInv, NEW s \in Space, Create(s)
  PROVE  CountInv'
<1>0. PICK f \in FreeFrames :
        /\ root' = [root EXCEPT ![s] = f] /\ used' = used \cup {f}
        /\ data' = [data EXCEPT ![f] = Zero]
  BY Zenon DEF Create
<1>1. /\ ~Live(s) /\ pte' = pte /\ frame_refs' = frame_refs /\ swap_refs' = swap_refs
      /\ disk' = disk
  BY Zenon DEF Create
<1>2. f \in Frame /\ f \notin used /\ f # NoFrame /\ frame_refs[f] = 0
  BY FreeIsUnused, Zenon
<1>3. TypeOK'
  BY <1>0, <1>1, <1>2, MemoryAssumption, Zenon DEF CountInv, TypeOK
<1>4. \A r \in Space : root'[r] = IF r = s THEN f ELSE root[r]
  BY <1>0, Zenon DEF CountInv, TypeOK
<1>5. Placed' /\ MappedOnce' /\ SlotsCounted'
  <2>1. \A r \in Space : Live(r) => Live(r)'
    BY <1>2, <1>4, Zenon DEF Live
  <2>2. Placed'
    BY <1>1, <2>1, Zenon DEF CountInv, Placed
  <2>3. MappedOnce' /\ SlotsCounted'
    BY <1>1, Zenon DEF CountInv, MappedOnce, SlotsCounted, Entries, Refs
  <2> QED
    BY <2>2, <2>3, Zenon
<1>6. NoStrayReference'
  BY <1>0, <1>1, <1>2, <1>4, Zenon DEF CountInv, NoStrayReference, Live
<1>7. FramesCounted'
  <2> SUFFICES ASSUME NEW g \in Frame
               PROVE  Cardinality(Mappings(g)') + Cardinality(Roots(g)') = Held(g)'
    BY Zenon DEF FramesCounted, Held
  <2>1. Mappings(g)' = Mappings(g)
    BY <1>1, Zenon DEF Mappings, Refs
  <2>2. Cardinality(Roots(g)') = Cardinality(Roots(g)) + In(f, {g}) - In(root[s], {g})
    BY <1>0, RootChanged, Zenon DEF CountInv
  <2>3. Cardinality(Mappings(g)) + Cardinality(Roots(g)) = Held(g)
    BY Zenon DEF CountInv, FramesCounted, Held
  <2>4. Cardinality(Mappings(g)) \in Nat /\ Cardinality(Roots(g)) \in Nat
    BY RefsFinite, RootsFinite, Zenon DEF Mappings
  <2>5. In(root[s], {g}) = 0 /\ In(f, {g}) \in Nat
    BY <1>1, MemoryAssumption, Zenon DEF In, Live
  <2>6. Held(g)' = Held(g) + In(f, {g})
    BY <1>0, <1>1, <1>2 DEF Held, In, CountInv, TypeOK
  <2> QED
    BY <2>1, <2>2, <2>3, <2>4, <2>5, <2>6, SMTT(60)
<1> QED
  BY <1>3, <1>5, <1>6, <1>7, Zenon DEF CountInv

(* The end of an address space, which gives back all it refers to. *)
LEMMA DestroyKeeps ==
  ASSUME CountInv, NEW s \in Space, Destroy(s)
  PROVE  CountInv'
<1>0. /\ Live(s) /\ FreePages(FramesOf(s) \cup {root[s]}) /\ data' = data /\ disk' = disk
      /\ root' = [root EXCEPT ![s] = NoFrame] /\ swap_refs' = SwapFreed(SlotsOf(s), swap_refs)
  BY Zenon DEF Destroy
<1>1. /\ root[s] \in used /\ root[s] \in Frame
      /\ \A r \in Space : root[r] = root[s] => r = s
  BY <1>0, RootIsUsed, Zenon
<1>2. FramesOf(s) \subseteq used /\ root[s] \notin FramesOf(s)
  <2>1. \A p \in Page : pte[s][p].kind = "present" => pte[s][p].at \in used /\ root[s] # pte[s][p].at
    BY MappedIsUsed, Zenon
  <2> QED
    BY <2>1, Zenon DEF FramesOf
<1>3. /\ \A r \in Space : root'[r] = IF r = s THEN NoFrame ELSE root[r]
      /\ \A r \in Space, p \in Page : pte'[r][p] = IF r = s THEN Empty ELSE pte[r][p]
      /\ pte' \in [Space -> [Page -> Entry]] /\ Empty.kind = "none"
  BY <1>0, Zenon DEF Destroy, CountInv, TypeOK, Empty, Entry
<1>4. TypeOK'
  <2>1. FramesOf(s) \cup {root[s]} \in SUBSET Frame
    BY <1>1, <1>2, Zenon DEF CountInv, TypeOK
  <2>2. used' \in SUBSET Frame /\ frame_refs' \in [Frame -> 0 .. MaxRefs]
    BY <1>0, <2>1, CountTypes, Zenon DEF CountInv
  <2>3. swap_refs' \in [Slot -> 0 .. MaxSwapRefs]
    BY <1>0, CountTypes, Zenon DEF CountInv, TypeOK
  <2>4. root' \in [Space -> Frame \cup {NoFrame}]
    BY <1>0, Zenon DEF CountInv, TypeOK
  <2> QED
    BY <1>0, <1>3, <2>2, <2>3, <2>4, Zenon DEF CountInv, TypeOK
<1>5. Placed' /\ MappedOnce'
  <2>1. \A p \in Page : pte'[s][p].kind = "none"
    BY <1>3, Zenon
  <2>2. \A r \in Space \ {s}, p \in Page : pte'[r][p] = pte[r][p] /\ root'[r] = root[r]
    BY <1>3, Zenon
  <2>3. Placed'
    <3> SUFFICES ASSUME NEW r \in Space, NEW p \in Page
                 PROVE  /\ pte'[r][p].kind = "present" => pte'[r][p].at \in Frame
                        /\ pte'[r][p].kind = "swap" => pte'[r][p].at \in Slot
                        /\ pte'[r][p].kind # "none" => root'[r] # NoFrame
      BY Zenon DEF Placed, Live
    <3>1. /\ pte[r][p].kind = "present" => pte[r][p].at \in Frame
          /\ pte[r][p].kind = "swap" => pte[r][p].at \in Slot
          /\ pte[r][p].kind # "none" => root[r] # NoFrame
      BY Zenon DEF CountInv, Placed, Live
    <3> QED
      BY <2>1, <2>2, <3>1, Zenon
  <2>4. MappedOnce'
    BY <2>1, <2>2 DEF CountInv, MappedOnce
  <2> QED
    BY <2>3, <2>4, Zenon
<1>6. /\ \A g \in Frame : Held(g)' = Held(g) - In(g, FramesOf(s) \cup {root[s]})
      /\ \A g \in Frame \ used' : frame_refs'[g] = 0
      /\ \A g \in Frame : frame_refs[g] = 0 => frame_refs'[g] = 0
  <2>1. FramesOf(s) \cup {root[s]} \subseteq used
    BY <1>1, <1>2, Zenon
  <2> QED
    BY <1>0, <2>1, FreePagesDrops, Zenon
<1>7. NoStrayReference'
  <2>1. \A r \in Space : root[r] \in Frame \cup {NoFrame}
    BY Zenon DEF CountInv, TypeOK
  <2>2. ASSUME NEW r \in Space, Live(r)' PROVE frame_refs'[root'[r]] = 0
    <3>1. root'[r] = root[r] /\ root[r] # NoFrame
      BY <1>3, <2>2, Zenon DEF Live
    <3> QED
      BY <1>6, <2>1, <3>1, Zenon DEF CountInv, NoStrayReference, Live
  <2> QED
    BY <1>6, <2>2, Zenon DEF NoStrayReference
<1>8. /\ OnlySpace(pte, pte', s) /\ Once(pte, s, "present") /\ Once(pte, s, "swap")
      /\ \A x : ~Refers(pte', s, "present", x) /\ ~Refers(pte', s, "swap", x)
  BY <1>3 DEF OnlySpace, Once, Refers, Hits, CountInv, MappedOnce
<1>9. FramesCounted'
  <2> SUFFICES ASSUME NEW g \in Frame
               PROVE  Cardinality(Refs(pte', "present", g)) + Cardinality(Roots(g)') = Held(g)'
    BY Zenon DEF FramesCounted, Held, Mappings, Refs
  <2>1. Cardinality(Refs(pte, "present", g))
          = Cardinality(Refs(pte', "present", g)) + IF Refers(pte, s, "present", g) THEN 1 ELSE 0
    BY <1>8, SpaceCounted
  <2>2. Refers(pte, s, "present", g) <=> g \in FramesOf(s)
    BY OfSpace, Zenon
  <2>3. Cardinality(Roots(g)') = Cardinality(Roots(g)) + In(NoFrame, {g}) - In(root[s], {g})
    BY <1>0, RootChanged, Zenon DEF CountInv
  <2>4. Cardinality(Refs(pte, "present", g)) + Cardinality(Roots(g)) = Held(g)
    BY Zenon DEF CountInv, FramesCounted, Held, Mappings
  <2>5. /\ Cardinality(Refs(pte, "present", g)) \in Nat /\ Cardinality(Roots(g)) \in Nat
        /\ Cardinality(Refs(pte', "present", g)) \in Nat
    BY RefsFinite, RootsFinite, Zenon
  <2>6. In(NoFrame, {g}) = 0 /\ In(root[s], {g}) = IF g = root[s] THEN 1 ELSE 0
    BY MemoryAssumption, Zenon DEF In
  <2>7. Held(g)' = Held(g) - IF g \in FramesOf(s) \/ g = root[s] THEN 1 ELSE 0
    BY <1>6, Zenon DEF In
  <2> QED
    BY <1>2, <2>1, <2>2, <2>3, <2>4, <2>5, <2>6, <2>7
<1>10. SlotsCounted'
  <2> SUFFICES ASSUME NEW i \in Slot
               PROVE  \/ swap_refs'[i] = Cardinality(Refs(pte', "swap", i))
                      \/ swap_refs'[i] = MaxSwapRefs /\ Cardinality(Refs(pte', "swap", i)) < MaxSwapRefs
    BY Zenon DEF SlotsCounted, Entries, Refs
  <2>1. Cardinality(Refs(pte, "swap", i))
          = Cardinality(Refs(pte', "swap", i)) + IF Refers(pte, s, "swap", i) THEN 1 ELSE 0
    BY <1>8, SpaceCounted
  <2>2. Refers(pte, s, "swap", i) <=> i \in SlotsOf(s)
    BY OfSpace, Zenon
  <2>3. \/ swap_refs[i] = Cardinality(Refs(pte, "swap", i))
        \/ swap_refs[i] = MaxSwapRefs /\ Cardinality(Refs(pte, "swap", i)) < MaxSwapRefs
    BY Zenon DEF CountInv, SlotsCounted, Entries
  <2>4. Cardinality(Refs(pte, "swap", i)) \in Nat /\ Cardinality(Refs(pte', "swap", i)) \in Nat
    BY RefsFinite, Zenon
  <2>5. swap_refs[i] \in 0 .. MaxSwapRefs /\ MaxSwapRefs \in Nat /\ MaxSwapRefs >= 2
    <3>1. swap_refs \in [Slot -> 0 .. MaxSwapRefs]
      BY Zenon DEF CountInv, TypeOK
    <3> QED
      BY <3>1, MemoryAssumption
  <2>6. swap_refs'[i] = IF i \in SlotsOf(s) /\ swap_refs[i] \notin {0, MaxSwapRefs}
                        THEN swap_refs[i] - 1 ELSE swap_refs[i]
    BY <1>0, Zenon DEF SwapFreed
  <2> QED
    BY <2>1, <2>2, <2>3, <2>4, <2>5, <2>6, SMTT(60)
<1> QED
  BY <1>4, <1>5, <1>7, <1>9, <1>10, Zenon DEF CountInv


(* Two counts that grow by x and by y add up to x and y more. *)
LEMMA BothGrow ==
  \A a, b \in Nat, x, y \in {0, 1} : (a + x) + (b + y - 0) = (a + b) + x + y
OBVIOUS

(* A slot's count r stays right when n grows by one, if r was not at its   *)
(* limit m.                                                                *)
LEMMA SlotGrows ==
  \A r, n, m, x :
    /\ n \in Nat /\ m \in Nat /\ x \in {0, 1} /\ (r = n \/ (r = m /\ n < m)) /\ (x = 1 => r < m)
    => r + x = n + x \/ (r + x = m /\ n + x < m)
OBVIOUS

(* A copy of an address space, which refers to all that the original does. *)
LEMMA CloneKeeps ==
  ASSUME CountInv, NEW s \in Space, NEW c \in Space, Clone(s, c)
  PROVE  CountInv'
<1>0. PICK f \in FreeFrames :
        /\ root' = [root EXCEPT ![c] = f] /\ used' = used \cup {f}
        /\ data' = [data EXCEPT ![f] = Zero]
  BY Zenon DEF Clone
<1>1. /\ Live(s) /\ ~Live(c) /\ s # c /\ disk' = disk
      /\ \A g \in FramesOf(s) : frame_refs[g] < MaxRefs
      /\ \A i \in SlotsOf(s) : swap_refs[i] < MaxSwapRefs
      /\ frame_refs' = [g \in Frame |-> frame_refs[g] + IF g \in FramesOf(s) THEN 1 ELSE 0]
      /\ swap_refs' = [i \in Slot |-> swap_refs[i] + IF i \in SlotsOf(s) THEN 1 ELSE 0]
  BY Zenon DEF Clone
<1>2. /\ f \in Frame /\ f \notin used /\ f # NoFrame /\ frame_refs[f] = 0
      /\ \A r \in Space, q \in Page : ~Hits(pte[r][q], "present", f)
  BY FreeIsUnused, Zenon
<1>3. /\ \A r \in Space, p \in Page :
           /\ pte'[r][p] \in Entry
           /\ r # c => pte'[r][p].kind = pte[r][p].kind /\ pte'[r][p].at = pte[r][p].at
           /\ r = c => pte'[r][p].kind = pte[s][p].kind /\ pte'[r][p].at = pte[s][p].at
      /\ pte' \in [Space -> [Page -> Entry]]
  <2> DEFINE shared == [p \in Page |-> Shared(pte[s][p])]
             copy == [p \in Page |-> IF pte[s][p].kind = "present" THEN shared[p] ELSE pte[s][p]]
  <2>1. pte' = [pte EXCEPT ![s] = shared, ![c] = copy]
    BY Zenon DEF Clone
  <2>2. \A p \in Page : /\ shared[p] \in Entry /\ copy[p] \in Entry
                        /\ shared[p].kind = pte[s][p].kind /\ shared[p].at = pte[s][p].at
                        /\ copy[p].kind = pte[s][p].kind /\ copy[p].at = pte[s][p].at
    BY EntryTypes, EntryFields DEF CountInv, TypeOK
  <2>3. shared \in [Page -> Entry] /\ copy \in [Page -> Entry]
    BY <2>2, Zenon
  <2> HIDE DEF shared, copy
  <2>4. \A r \in Space : pte'[r] = IF r = c THEN copy ELSE IF r = s THEN shared ELSE pte[r]
    BY <2>1, Zenon DEF CountInv, TypeOK
  <2>5. pte' \in [Space -> [Page -> Entry]]
    BY <2>1, <2>3, Zenon DEF CountInv, TypeOK
  <2> QED
    BY <1>1, <2>2, <2>4, <2>5, ZenonT(60)
<1>4. FramesOf(s) \subseteq used /\ f \notin FramesOf(s) /\ \A r \in Space : root[r] \notin FramesOf(s)
  <2>1. \A p \in Page : pte[s][p].kind = "present" =>
          pte[s][p].at \in used /\ \A r \in Space : root[r] # pte[s][p].at
    BY MappedIsUsed, Zenon
  <2> QED
    BY <1>2, <2>1, Zenon DEF FramesOf
<1>5. TypeOK'
  <2>1. frame_refs' \in [Frame -> 0 .. MaxRefs]
    BY <1>1, MemoryAssumption DEF CountInv, TypeOK
  <2>2. swap_refs' \in [Slot -> 0 .. MaxSwapRefs]
    BY <1>1, MemoryAssumption DEF CountInv, TypeOK
  <2>3. root' \in [Space -> Frame \cup {NoFrame}] /\ used' \in SUBSET Frame /\ data' \in [Frame -> Value]
    BY <1>0, <1>2, MemoryAssumption, Zenon DEF CountInv, TypeOK
  <2> QED
    BY <1>1, <1>3, <2>1, <2>2, <2>3, Zenon DEF CountInv, TypeOK
<1>6. \A r \in Space : root'[r] = IF r = c THEN f ELSE root[r]
  BY <1>0, Zenon DEF CountInv, TypeOK
<1>7. Placed'
  <2> SUFFICES ASSUME NEW r \in Space, NEW p \in Page
               PROVE  /\ pte'[r][p].kind = "present" => pte'[r][p].at \in Frame
                      /\ pte'[r][p].kind = "swap" => pte'[r][p].at \in Slot
                      /\ pte'[r][p].kind # "none" => root'[r] # NoFrame
    BY Zenon DEF Placed, Live
  <2>1. /\ pte[s][p].kind = "present" => pte[s][p].at \in Frame
        /\ pte[s][p].kind = "swap" => pte[s][p].at \in Slot
        /\ pte[r][p].kind = "present" => pte[r][p].at \in Frame
        /\ pte[r][p].kind = "swap" => pte[r][p].at \in Slot
        /\ pte[r][p].kind # "none" => root[r] # NoFrame
    BY Zenon DEF CountInv, Placed, Live
  <2>2. CASE r = c
    BY <1>2, <1>3, <1>6, <2>1, <2>2, Zenon
  <2>3. CASE r # c
    BY <1>3, <1>6, <2>1, <2>3, Zenon
  <2> QED
    BY <2>2, <2>3, Zenon
<1>8. MappedOnce'
  <2> SUFFICES ASSUME NEW r \in Space, NEW p \in Page, NEW q \in Page,
                      pte'[r][p].kind # "none", pte'[r][q].kind = pte'[r][p].kind,
                      pte'[r][q].at = pte'[r][p].at
               PROVE  p = q
    BY Zenon DEF MappedOnce
  <2>1. \A t \in Space : /\ pte[t][p].kind # "none" /\ pte[t][q].kind = pte[t][p].kind
                        /\ pte[t][q].at = pte[t][p].at
                        => p = q
    BY Zenon DEF CountInv, MappedOnce
  <2>2. CASE r = c
    BY <1>3, <2>1, <2>2, ZenonT(60)
  <2>3. CASE r # c
    BY <1>3, <2>1, <2>3, Zenon
  <2> QED
    BY <2>2, <2>3, Zenon
<1>9. NoStrayReference'
  <2>1. ASSUME NEW g \in Frame, g \notin FramesOf(s), frame_refs[g] = 0 PROVE frame_refs'[g] = 0
    <3>1. frame_refs'[g] = frame_refs[g] + 0
      BY <1>1, <2>1, Zenon
    <3> QED
      BY <2>1, <3>1
  <2>2. \A g \in Frame \ used : frame_refs[g] = 0 /\ g \notin FramesOf(s)
    BY <1>4, Zenon DEF CountInv, NoStrayReference
  <2>3. \A g \in Frame \ used' : frame_refs'[g] = 0
    BY <1>0, <2>1, <2>2, Zenon
  <2>4. \A r \in Space : root[r] # NoFrame => root[r] \in Frame /\ frame_refs[root[r]] = 0
    BY Zenon DEF CountInv, NoStrayReference, Live, TypeOK
  <2>5. \A r \in Space : root'[r] # NoFrame => frame_refs'[root'[r]] = 0
    BY <1>2, <1>4, <1>6, <2>1, <2>4, Zenon
  <2> QED
    BY <2>3, <2>5, Zenon DEF NoStrayReference, Live
<1>10. /\ OnlySpace(pte', pte, c) /\ Once(pte', c, "present") /\ Once(pte', c, "swap")
       /\ \A x : ~Refers(pte, c, "present", x) /\ ~Refers(pte, c, "swap", x)
  <2>1. OnlySpace(pte', pte, c)
    BY <1>3, Zenon DEF OnlySpace
  <2>2. Once(pte', c, "present") /\ Once(pte', c, "swap")
    BY <1>8 DEF Once, MappedOnce
  <2>3. \A p \in Page : pte[c][p].kind = "none"
    BY <1>1, Zenon DEF CountInv, TypeOK, Placed, Entry
  <2> QED
    BY <2>1, <2>2, <2>3, Zenon DEF Refers, Hits
<1>11. \A x : /\ Refers(pte', c, "present", x) <=> x \in FramesOf(s)
              /\ Refers(pte', c, "swap", x) <=> x \in SlotsOf(s)
  <2>1. \A p \in Page : \A x :
          /\ Hits(pte'[c][p], "present", x) <=> Hits(pte[s][p], "present", x)
          /\ Hits(pte'[c][p], "swap", x) <=> Hits(pte[s][p], "swap", x)
    BY <1>3, Zenon DEF Hits
  <2>2. \A x : /\ Refers(pte', c, "present", x) <=> Refers(pte, s, "present", x)
               /\ Refers(pte', c, "swap", x) <=> Refers(pte, s, "swap", x)
    BY <2>1, Zenon DEF Refers
  <2> QED
    BY <2>2, OfSpace, Zenon
<1>12. FramesCounted'
  <2> SUFFICES ASSUME NEW g \in Frame
               PROVE  Cardinality(Refs(pte', "present", g)) + Cardinality(Roots(g)') = Held(g)'
    BY Zenon DEF FramesCounted, Held, Mappings, Refs
  <2>1. Cardinality(Refs(pte', "present", g))
          = Cardinality(Refs(pte, "present", g)) + IF Refers(pte', c, "present", g) THEN 1 ELSE 0
    BY <1>10, SpaceCounted
  <2>2. Refers(pte', c, "present", g) <=> g \in FramesOf(s)
    BY <1>11, Zenon
  <2>3. Cardinality(Roots(g)') = Cardinality(Roots(g)) + In(f, {g}) - In(root[c], {g})
    BY <1>0, RootChanged, Zenon DEF CountInv
  <2>4. Cardinality(Refs(pte, "present", g)) + Cardinality(Roots(g)) = Held(g)
    BY Zenon DEF CountInv, FramesCounted, Held, Mappings
  <2>5. Cardinality(Refs(pte, "present", g)) \in Nat /\ Cardinality(Roots(g)) \in Nat
    BY RefsFinite, RootsFinite, Zenon
  <2>6. In(root[c], {g}) = 0 /\ In(f, {g}) = IF g = f THEN 1 ELSE 0
    BY <1>1, MemoryAssumption, Zenon DEF In, Live
  <2> DEFINE x == IF g \in FramesOf(s) THEN 1 ELSE 0
             y == IF g = f THEN 1 ELSE 0
  <2>7. frame_refs[g] \in Nat /\ frame_refs'[g] = frame_refs[g] + x
    BY <1>1, MemoryAssumption DEF CountInv, TypeOK
  <2>8. /\ (x = 1 /\ g \in FramesOf(s)) \/ (x = 0 /\ g \notin FramesOf(s))
        /\ (y = 1 /\ g = f) \/ (y = 0 /\ g # f)
    BY Zenon
  <2>9. /\ Cardinality(Refs(pte', "present", g)) = Cardinality(Refs(pte, "present", g)) + x
        /\ Cardinality(Roots(g)') = Cardinality(Roots(g)) + y - 0
    BY <2>1, <2>2, <2>3, <2>6
  <2>10. (g \in used' <=> g \in used \/ g = f) /\ (g = f => g \notin used)
         /\ (g \in FramesOf(s) => g \in used)
    BY <1>0, <1>2, <1>4, Zenon
  <2> HIDE DEF x, y
  <2>11. x \in {0, 1} /\ y \in {0, 1}
    BY <2>8, Zenon
  <2>12. g = f => frame_refs[g] = 0
    BY <1>2, Zenon
  <2>13. Held(g)' = Held(g) + x + y
    BY <2>7, <2>8, <2>10, <2>12 DEF Held
  <2>14. (Cardinality(Refs(pte, "present", g)) + x) + (Cardinality(Roots(g)) + y - 0)
           = (Cardinality(Refs(pte, "present", g)) + Cardinality(Roots(g))) + x + y
    BY <2>5, <2>11, BothGrow, ZenonT(60)
  <2> QED
    BY <2>4, <2>9, <2>13, <2>14, Zenon
<1>13. SlotsCounted'
  <2> SUFFICES ASSUME NEW i \in Slot
               PROVE  \/ swap_refs'[i] = Cardinality(Refs(pte', "swap", i))
                      \/ swap_refs'[i] = MaxSwapRefs /\ Cardinality(Refs(pte', "swap", i)) < MaxSwapRefs
    BY Zenon DEF SlotsCounted, Entries, Refs
  <2>1. Cardinality(Refs(pte', "swap", i))
          = Cardinality(Refs(pte, "swap", i)) + IF Refers(pte', c, "swap", i) THEN 1 ELSE 0
    BY <1>10, SpaceCounted
  <2>2. Refers(pte', c, "swap", i) <=> i \in SlotsOf(s)
    BY <1>11, Zenon
  <2>3. \/ swap_refs[i] = Cardinality(Refs(pte, "swap", i))
        \/ swap_refs[i] = MaxSwapRefs /\ Cardinality(Refs(pte, "swap", i)) < MaxSwapRefs
    BY Zenon DEF CountInv, SlotsCounted, Entries
  <2>4. Cardinality(Refs(pte, "swap", i)) \in Nat /\ MaxSwapRefs \in Nat
    BY RefsFinite, MemoryAssumption, Zenon
  <2>5. swap_refs'[i] = swap_refs[i] + IF i \in SlotsOf(s) THEN 1 ELSE 0
    BY <1>1, Zenon
  <2>6. i \in SlotsOf(s) => swap_refs[i] < MaxSwapRefs
    BY <1>1, Zenon
  <2> DEFINE x == IF i \in SlotsOf(s) THEN 1 ELSE 0
  <2>7. /\ swap_refs'[i] = swap_refs[i] + x
        /\ Cardinality(Refs(pte', "swap", i)) = Cardinality(Refs(pte, "swap", i)) + x
    BY <2>1, <2>2, <2>5
  <2>8. x \in {0, 1} /\ (x = 1 => swap_refs[i] < MaxSwapRefs)
    BY <2>6
  <2> HIDE DEF x
  <2>9. \/ swap_refs[i] + x = Cardinality(Refs(pte, "swap", i)) + x
        \/ swap_refs[i] + x = MaxSwapRefs /\ Cardinality(Refs(pte, "swap", i)) + x < MaxSwapRefs
    BY <2>3, <2>4, <2>8, SlotGrows, ZenonT(60)
  <2> QED
    BY <2>7, <2>9, Zenon
<1> QED
  BY <1>5, <1>7, <1>8, <1>9, <1>12, <1>13, Zenon DEF CountInv

(* A copy that fails leaves every reference where it was. *)
LEMMA CloneFailsKeeps ==
  ASSUME CountInv, NEW s \in Space, NEW done \in SUBSET Page, CloneFails(s, done)
  PROVE  CountInv'
<1> DEFINE dup == {pte[s][p].at : p \in {q \in done : pte[s][q].kind = "swap"}}
<1>0. /\ swap_refs' = [i \in Slot |-> IF i \in dup /\ swap_refs[i] = MaxSwapRefs - 1
                                      THEN MaxSwapRefs ELSE swap_refs[i]]
      /\ UNCHANGED <<root, used, frame_refs, data, disk>>
  BY Zenon DEF CloneFails
<1>1. /\ \A r \in Space, p \in Page : pte'[r][p].kind = pte[r][p].kind /\ pte'[r][p].at = pte[r][p].at
      /\ pte' \in [Space -> [Page -> Entry]]
  <2> DEFINE shared == [p \in Page |-> IF p \in done THEN Shared(pte[s][p]) ELSE pte[s][p]]
  <2>1. pte' = [pte EXCEPT ![s] = shared]
    BY Zenon DEF CloneFails
  <2>2. \A p \in Page : /\ shared[p] \in Entry
                        /\ shared[p].kind = pte[s][p].kind /\ shared[p].at = pte[s][p].at
    BY EntryTypes, EntryFields DEF CountInv, TypeOK
  <2>3. shared \in [Page -> Entry]
    BY <2>2, Zenon
  <2> HIDE DEF shared
  <2> QED
    BY <2>1, <2>2, <2>3, Zenon DEF CountInv, TypeOK
<1> HIDE DEF dup
<1>2. TypeOK'
  <2>1. swap_refs' \in [Slot -> 0 .. MaxSwapRefs]
    BY <1>0, MemoryAssumption DEF CountInv, TypeOK
  <2> QED
    BY <1>0, <1>1, <2>1, Zenon DEF CountInv, TypeOK
<1>3. Placed' /\ MappedOnce' /\ NoStrayReference'
  <2>1. Placed'
    BY <1>0, <1>1, ZenonT(60) DEF CountInv, Placed, Live
  <2>2. MappedOnce'
    <3> SUFFICES ASSUME NEW r \in Space, NEW p \in Page, NEW q \in Page,
                        pte'[r][p].kind # "none", pte'[r][q].kind = pte'[r][p].kind,
                        pte'[r][q].at = pte'[r][p].at
                 PROVE  p = q
      BY Zenon DEF MappedOnce
    <3>1. \A t \in Space : /\ pte[t][p].kind # "none" /\ pte[t][q].kind = pte[t][p].kind
                          /\ pte[t][q].at = pte[t][p].at
                          => p = q
      BY Zenon DEF CountInv, MappedOnce
    <3> QED
      BY <1>1, <3>1, Zenon
  <2>3. NoStrayReference'
    BY <1>0, Zenon DEF CountInv, NoStrayReference, Live
  <2> QED
    BY <2>1, <2>2, <2>3, Zenon
<1>4. \A kind, x : Refs(pte', kind, x) = Refs(pte, kind, x)
  BY <1>1 DEF Refs
<1>5. FramesCounted'
  <2>1. \A g \in Frame : Mappings(g)' = Mappings(g) /\ Roots(g)' = Roots(g)
    <3>1. \A g : Mappings(g)' = Refs(pte', "present", g)
      BY Zenon DEF Mappings, Refs
    <3> QED
      BY <1>0, <1>4, <3>1, Zenon DEF Roots, Mappings
  <2> QED
    BY <1>0, <2>1, Zenon DEF CountInv, FramesCounted
<1>6. SlotsCounted'
  <2>1. \A i \in Slot : Entries(i)' = Entries(i)
    <3>1. \A i : Entries(i)' = Refs(pte', "swap", i)
      BY Zenon DEF Entries, Refs
    <3> QED
      BY <1>4, <3>1, Zenon DEF Entries
  <2>2. \A i \in Slot : Cardinality(Entries(i)) \in Nat
    BY RefsFinite, Zenon DEF Entries
  <2> QED
    BY <1>0, <2>1, <2>2, MemoryAssumption DEF CountInv, SlotsCounted
<1> QED
  BY <1>2, <1>3, <1>5, <1>6, Zenon DEF CountInv

-----------------------------------------------------------------------------
(* The counts.                                                             *)

(* Nothing is in use at the start. *)
LEMMA CountInitially == Init => CountInv
<1> SUFFICES ASSUME Init PROVE CountInv
  BY Zenon
<1>1. TypeOK
  <2>1. Empty \in Entry
    BY Zenon DEF Empty, Entry
  <2>2. root \in [Space -> Frame \cup {NoFrame}] /\ pte \in [Space -> [Page -> Entry]]
    BY <2>1, Zenon DEF Init
  <2>3. frame_refs \in [Frame -> 0 .. MaxRefs] /\ swap_refs \in [Slot -> 0 .. MaxSwapRefs]
    BY MemoryAssumption DEF Init
  <2>4. used \in SUBSET Frame /\ data \in [Frame -> Value] /\ disk \in [Slot -> Value]
    BY MemoryAssumption, Zenon DEF Init
  <2> QED
    BY <2>2, <2>3, <2>4, Zenon DEF TypeOK
<1>2. /\ \A s \in Space : ~Live(s)
      /\ \A s \in Space, p \in Page : pte[s][p].kind = "none"
  <2>1. root = [s \in Space |-> NoFrame] /\ pte = [s \in Space |-> [p \in Page |-> Empty]]
    BY Zenon DEF Init
  <2>2. Empty.kind = "none"
    BY Zenon DEF Empty
  <2> QED
    BY <2>1, <2>2, Zenon DEF Live
<1>3. Placed /\ MappedOnce /\ NoStrayReference
  <2>1. \A f \in Frame : frame_refs[f] = 0
    BY Zenon DEF Init
  <2> QED
    BY <1>2, <2>1, Zenon DEF Placed, MappedOnce, NoStrayReference
<1>4. /\ \A f \in Frame : Mappings(f) = {} /\ Roots(f) = {}
      /\ \A i \in Slot : Entries(i) = {}
  <2>1. \A f \in Frame : Roots(f) = {}
    <3>1. \A s \in Space : root[s] = NoFrame
      BY Zenon DEF Init
    <3> QED
      BY <3>1, MemoryAssumption, Zenon DEF Roots
  <2>2. \A kind \in {"present", "swap"} : \A x : Refs(pte, kind, x) = {}
    BY <1>2, Zenon DEF Refs
  <2> QED
    BY <2>1, <2>2, Zenon DEF Mappings, Entries
<1>5. Cardinality({}) = 0
  BY FS_EmptySet, Zenon
<1>6. FramesCounted /\ SlotsCounted
  <2>1. used = {} /\ \A i \in Slot : swap_refs[i] = 0
    BY Zenon DEF Init
  <2> QED
    BY <1>4, <1>5, <2>1 DEF FramesCounted, SlotsCounted
<1> QED
  BY <1>1, <1>3, <1>6, Zenon DEF CountInv

(* Every step keeps the counts. *)
LEMMA CountKept == CountInv /\ [Next]_vars => CountInv'
<1> SUFFICES ASSUME CountInv, [Next]_vars PROVE CountInv'
  BY Zenon
<1>1. CASE UNCHANGED vars
  <2>1. UNCHANGED <<root, pte, used, frame_refs, swap_refs, data, disk>>
    BY <1>1, Zenon DEF vars
  <2>2. TypeOK' /\ Placed' /\ MappedOnce' /\ NoStrayReference'
    BY <2>1, Zenon DEF CountInv, TypeOK, Placed, Live, MappedOnce, NoStrayReference
  <2>3. FramesCounted' /\ SlotsCounted'
    BY <2>1, Zenon DEF CountInv, FramesCounted, SlotsCounted, Mappings, Entries, Roots, Refs
  <2> QED
    BY <2>2, <2>3, Zenon DEF CountInv
<1>2. ASSUME NEW s \in Space, Create(s) \/ Destroy(s) PROVE CountInv'
  BY <1>2, CreateKeeps, DestroyKeeps, Zenon
<1>3. ASSUME NEW s \in Space, NEW p \in Page, Unmap(s, p) \/ SwapOut(s, p) \/ CowFault(s, p)
      PROVE  CountInv'
  BY <1>3, UnmapKeeps, SwapOutKeeps, CowFaultKeeps, Zenon
<1>4. ASSUME NEW s \in Space, NEW p \in Page, SwapFault(s, p) PROVE CountInv'
  <2>1. pte[s][p] \in Entry
    BY Zenon DEF CountInv, TypeOK
  <2> QED
    BY <1>4, <2>1, SwapInKeeps, Zenon DEF SwapFault
<1>5. ASSUME NEW s \in Space, NEW p \in Page,
             \/ \E writable, anon \in BOOLEAN : MapNew(s, p, writable, anon)
             \/ \E prot \in Prots : Protect(s, p, prot)
             \/ \E v \in Value : Store(s, p, v)
      PROVE  CountInv'
  BY <1>5, MapNewKeeps, ProtectKeeps, StoreKeeps, Zenon
<1>6. ASSUME NEW s \in Space,
             (\E c \in Space : Clone(s, c)) \/ (\E done \in SUBSET Page : CloneFails(s, done))
      PROVE  CountInv'
  BY <1>6, CloneKeeps, CloneFailsKeeps, Zenon
<1> QED
  BY <1>1, <1>2, <1>3, <1>4, <1>5, <1>6, Zenon DEF Next

(* The invariant behind the counts: a frame's and a slot's count, what     *)
(* page tables may refer to, and that none refers to anything twice, which *)
(* vmm_destroy_address_space and vmm_clone_address_space rely on.          *)
THEOREM MemoryInvariant == Spec => []CountInv
<1> QED
  BY CountInitially, CountKept, PTL DEF Spec

(* The variables of mm/vmm.c, mm/pmm.c and io/swap.c keep their types. *)
THEOREM MemoryTypeCorrect == Spec => []TypeOK
<1>1. CountInv => TypeOK
  BY Zenon DEF CountInv
<1> QED
  BY <1>1, MemoryInvariant, PTL

(* frame_refs counts the references to a frame beyond the first, so that   *)
(* pmm_free_page frees it with the last of them, never before.             *)
THEOREM FramesAreCounted == Spec => []FramesCounted
<1>1. CountInv => FramesCounted
  BY Zenon DEF CountInv
<1> QED
  BY <1>1, MemoryInvariant, PTL

(* swap_free never frees a slot that an entry refers to. *)
THEOREM SlotsAreCounted == Spec => []SlotsCounted
<1>1. CountInv => SlotsCounted
  BY Zenon DEF CountInv
<1> QED
  BY <1>1, MemoryInvariant, PTL

-----------------------------------------------------------------------------
(* Privacy.  vmm_page_prot_locked gives the right to write to a page that  *)
(* is shared but was never writable, so what follows is about systems      *)
(* where mprotect does not give it: "write" is not in Prots.               *)

WritableIsUser == \A s \in Space, p \in Page : pte[s][p].writable => pte[s][p].user

PrivateInv == CountInv /\ WritableIsPrivate /\ WritableIsUser

(* What is in page p of s. *)
Contents(s, p) ==
  IF pte[s][p].kind = "none" THEN NoPage
  ELSE IF pte[s][p].kind = "present" THEN data[pte[s][p].at] ELSE disk[pte[s][p].at]

(* A page of s may be writable in the next state. *)
MayWrite(s, p) ==
  pte'[s][p].writable => /\ pte'[s][p].user
                         /\ pte'[s][p].kind = "present" => frame_refs'[pte'[s][p].at] = 0

(* A page of s is as it was. *)
Kept(s, p) == MayWrite(s, p) /\ Contents(s, p)' = Contents(s, p)

(* A page keeps what it had when its entry, its frame or slot and the      *)
(* frame's count do.                                                       *)
LEMMA SameEntryKept ==
  ASSUME PrivateInv, NEW s \in Space, NEW p \in Page, pte'[s][p] = pte[s][p],
         pte[s][p].kind = "present" =>
           /\ data'[pte[s][p].at] = data[pte[s][p].at]
           /\ frame_refs[pte[s][p].at] = 0 => frame_refs'[pte[s][p].at] = 0,
         pte[s][p].kind = "swap" => disk'[pte[s][p].at] = disk[pte[s][p].at]
  PROVE  Kept(s, p)
<1>1. pte[s][p].kind \in {"none", "present", "swap"}
  BY ZenonT(60) DEF PrivateInv, CountInv, TypeOK, Entry
<1>2. Contents(s, p)' = Contents(s, p)
  BY <1>1, Zenon DEF Contents
<1>3. MayWrite(s, p)
  BY Zenon DEF MayWrite, PrivateInv, WritableIsPrivate, WritableIsUser
<1> QED
  BY <1>2, <1>3, Zenon DEF Kept

(* What a page holds is a value, and a page that holds one is mapped. *)
LEMMA ContentsTypes ==
  ASSUME CountInv, NEW s \in Space, NEW p \in Page
  PROVE  /\ pte[s][p].kind = "none" <=> Contents(s, p) = NoPage
         /\ pte[s][p].kind # "none" => Contents(s, p) \in Value /\ Live(s)
<1>1. /\ pte[s][p].kind \in {"none", "present", "swap"}
      /\ pte[s][p].kind = "present" => pte[s][p].at \in Frame
      /\ pte[s][p].kind = "swap" => pte[s][p].at \in Slot
      /\ pte[s][p].kind # "none" => Live(s)
  BY ZenonT(60) DEF CountInv, TypeOK, Entry, Placed
<1>2. data \in [Frame -> Value] /\ disk \in [Slot -> Value]
  BY Zenon DEF CountInv, TypeOK
<1> QED
  BY <1>1, <1>2, MemoryAssumption, Zenon DEF Contents

(* vmm_map_new_pages gives a page of zeroes and changes no other. *)
LEMMA MapNewShows ==
  ASSUME PrivateInv, NEW s \in Space, NEW p \in Page, NEW writable \in BOOLEAN, NEW anon \in BOOLEAN,
         MapNew(s, p, writable, anon)
  PROVE  /\ Contents(s, p) = NoPage /\ Contents(s, p)' = Zero /\ MayWrite(s, p)
         /\ \A r \in Space, q \in Page : r # s \/ q # p => Kept(r, q)
<1>0. PICK f \in FreeFrames :
        /\ data' = [data EXCEPT ![f] = Zero]
        /\ pte' = [pte EXCEPT ![s][p] = [kind |-> "present", at |-> f, writable |-> writable,
                                         user |-> TRUE, cow |-> FALSE, anon |-> anon]]
  BY Zenon DEF MapNew
<1>1. pte[s][p].kind = "none" /\ frame_refs' = frame_refs /\ disk' = disk
  BY Zenon DEF MapNew
<1>2. CountInv /\ data \in [Frame -> Value] /\ pte \in [Space -> [Page -> Entry]]
  BY Zenon DEF PrivateInv, CountInv, TypeOK
<1>3. /\ f \in Frame /\ frame_refs[f] = 0
      /\ \A r \in Space, q \in Page : ~Hits(pte[r][q], "present", f)
  BY <1>2, FreeIsUnused, Zenon
<1>4. /\ pte'[s][p].kind = "present" /\ pte'[s][p].at = f /\ pte'[s][p].user = TRUE
      /\ \A r \in Space, q \in Page : r # s \/ q # p => pte'[r][q] = pte[r][q]
  BY <1>0, <1>2, Zenon
<1>5. data'[f] = Zero /\ \A g \in Frame \ {f} : data'[g] = data[g]
  BY <1>0, <1>2, <1>3, Zenon
<1>6. Contents(s, p) = NoPage /\ Contents(s, p)' = Zero /\ MayWrite(s, p)
  BY <1>1, <1>3, <1>4, <1>5, Zenon DEF Contents, MayWrite
<1>7. ASSUME NEW r \in Space, NEW q \in Page, r # s \/ q # p PROVE Kept(r, q)
  <2>1. pte[r][q].kind = "present" => pte[r][q].at \in Frame \ {f}
    BY <1>3, Zenon DEF PrivateInv, CountInv, Placed, Hits
  <2> QED
    BY <1>1, <1>4, <1>5, <1>7, <2>1, SameEntryKept, ZenonT(60)
<1> QED
  BY <1>6, <1>7, Zenon

(* vmm_unmap_range takes a page away and changes no other. *)
LEMMA UnmapShows ==
  ASSUME PrivateInv, NEW s \in Space, NEW p \in Page, Unmap(s, p)
  PROVE  /\ Live(s) /\ Contents(s, p)' = NoPage /\ MayWrite(s, p)
         /\ \A r \in Space, q \in Page : r # s \/ q # p => Kept(r, q)
<1>0. /\ Live(s) /\ pte' = [pte EXCEPT ![s][p] = Empty] /\ data' = data /\ disk' = disk
  BY Zenon DEF Unmap
<1>1. CountInv /\ pte \in [Space -> [Page -> Entry]]
  BY Zenon DEF PrivateInv, CountInv, TypeOK
<1>2. /\ pte'[s][p] = Empty
      /\ \A r \in Space, q \in Page : r # s \/ q # p => pte'[r][q] = pte[r][q]
  BY <1>0, <1>1, Zenon
<1>3. \A g \in Frame : frame_refs[g] = 0 => frame_refs'[g] = 0
  <2>1. CASE pte[s][p].kind = "present" /\ FreePages({pte[s][p].at})
    <3>1. {pte[s][p].at} \subseteq used
      BY <1>1, <2>1, MappedIsUsed, Zenon
    <3> QED
      BY <1>1, <2>1, <3>1, FreePagesDrops, Zenon
  <2>2. CASE frame_refs' = frame_refs
    BY <2>2, Zenon
  <2> QED
    BY <2>1, <2>2, Zenon DEF Unmap
<1>4. Contents(s, p)' = NoPage /\ MayWrite(s, p)
  <2>1. Empty.kind = "none" /\ ~Empty.writable
    BY Zenon DEF Empty
  <2> QED
    BY <1>2, <2>1, Zenon DEF Contents, MayWrite
<1>5. ASSUME NEW r \in Space, NEW q \in Page, r # s \/ q # p PROVE Kept(r, q)
  <2>1. pte[r][q].kind = "present" => pte[r][q].at \in Frame
    BY <1>1, Zenon DEF CountInv, Placed
  <2> QED
    BY <1>0, <1>2, <1>3, <1>5, <2>1, SameEntryKept, Zenon
<1> QED
  BY <1>0, <1>4, <1>5, Zenon

(* swap_out_one_locked changes what no page holds. *)
LEMMA SwapOutShows ==
  ASSUME PrivateInv, NEW s \in Space, NEW p \in Page, SwapOut(s, p)
  PROVE  \A r \in Space, q \in Page : Kept(r, q)
<1> DEFINE e == pte[s][p]
<1>0. PICK i \in FreeSlots :
        /\ pte' = [pte EXCEPT ![s][p] = SwappedOut(e, i)]
        /\ disk' = [disk EXCEPT ![i] = data[e.at]]
  BY Zenon DEF SwapOut
<1>1. e.kind = "present" /\ FreePages({e.at}) /\ data' = data
  BY Zenon DEF SwapOut, Evictable
<1>2. CountInv /\ pte \in [Space -> [Page -> Entry]] /\ e \in Entry /\ disk \in [Slot -> Value]
  BY Zenon DEF PrivateInv, CountInv, TypeOK
<1>3. i \in Slot /\ \A r \in Space, q \in Page : ~Hits(pte[r][q], "swap", i)
  BY <1>2, FreeSlotIsUnused, Zenon
<1>4. /\ pte'[s][p] = SwappedOut(e, i)
      /\ \A r \in Space, q \in Page : r # s \/ q # p => pte'[r][q] = pte[r][q]
  BY <1>0, <1>2, Zenon
<1>5. disk'[i] = data[e.at] /\ \A j \in Slot \ {i} : disk'[j] = disk[j]
  BY <1>0, <1>2, <1>3, Zenon
<1>6. \A g \in Frame : frame_refs[g] = 0 => frame_refs'[g] = 0
  <2>1. {e.at} \subseteq used
    BY <1>1, <1>2, MappedIsUsed, Zenon
  <2> QED
    BY <1>1, <1>2, <2>1, FreePagesDrops, Zenon
<1>7. Kept(s, p)
  <2>1. /\ pte'[s][p].kind = "swap" /\ pte'[s][p].at = i
        /\ pte'[s][p].writable = e.writable /\ pte'[s][p].user = e.user
    BY <1>2, <1>4, Zenon DEF SwappedOut, Entry
  <2> QED
    BY <1>1, <1>5, <2>1, Zenon DEF Kept, MayWrite, Contents, PrivateInv, WritableIsUser
<1>8. ASSUME NEW r \in Space, NEW q \in Page, r # s \/ q # p PROVE Kept(r, q)
  <2>1. /\ pte[r][q].kind = "present" => pte[r][q].at \in Frame
        /\ pte[r][q].kind = "swap" => pte[r][q].at \in Slot \ {i}
    BY <1>2, <1>3, Zenon DEF CountInv, Placed, Hits
  <2> QED
    BY <1>1, <1>4, <1>5, <1>6, <1>8, <2>1, SameEntryKept, ZenonT(60)
<1> QED
  BY <1>7, <1>8, Zenon

(* swap_in_locked changes what no page holds, and gives no right to write  *)
(* to a frame that is shared.                                              *)
LEMMA SwapInShows ==
  ASSUME PrivateInv, NEW s \in Space, NEW p \in Page, NEW e \in Entry, e.writable => e.user,
         SwapInAs(s, p, e)
  PROVE  \A r \in Space, q \in Page : Kept(r, q)
<1> DEFINE i == pte[s][p].at
<1>0. /\ CountInv /\ pte \in [Space -> [Page -> Entry]]
      /\ disk \in [Slot -> Value] /\ data \in [Frame -> Value]
  BY Zenon DEF PrivateInv, CountInv, TypeOK
<1>1. pte[s][p].kind = "swap" /\ i \in Slot
  <2>1. pte[s][p].kind = "swap"
    BY Zenon DEF SwapInAs
  <2> QED
    BY <1>0, <2>1, Zenon DEF CountInv, Placed
<1>2. \A f : /\ SwappedIn(e, f).kind = "present" /\ SwappedIn(e, f).at = f
             /\ SwappedIn(e, f).writable = e.writable /\ SwappedIn(e, f).user = e.user
  BY Zenon DEF SwappedIn, Entry
<1>3. ASSUME NEW f \in FreeFrames, data' = [data EXCEPT ![f] = disk[i]],
             pte' = [pte EXCEPT ![s][p] = SwappedIn(e, f)],
             frame_refs' = frame_refs, disk' = disk
      PROVE  \A r \in Space, q \in Page : Kept(r, q)
  <2>1. /\ f \in Frame /\ frame_refs[f] = 0
        /\ \A r \in Space, q \in Page : ~Hits(pte[r][q], "present", f)
    BY <1>0, FreeIsUnused, Zenon
  <2>2. /\ pte'[s][p] = SwappedIn(e, f)
        /\ \A r \in Space, q \in Page : r # s \/ q # p => pte'[r][q] = pte[r][q]
    BY <1>0, <1>3, Zenon
  <2>3. data'[f] = disk[i] /\ \A g \in Frame \ {f} : data'[g] = data[g]
    BY <1>0, <1>3, <2>1, Zenon
  <2>4. Kept(s, p)
    <3>1. /\ pte'[s][p].kind = "present" /\ pte'[s][p].at = f
          /\ pte'[s][p].writable => pte'[s][p].user
      BY <1>2, <2>2, ZenonT(60)
    <3>2. MayWrite(s, p)
      BY <1>3, <2>1, <3>1, Zenon DEF MayWrite
    <3>3. Contents(s, p)' = Contents(s, p)
      BY <1>1, <2>3, <3>1, Zenon DEF Contents
    <3> QED
      BY <3>2, <3>3, Zenon DEF Kept
  <2>5. ASSUME NEW r \in Space, NEW q \in Page, r # s \/ q # p PROVE Kept(r, q)
    <3>1. pte[r][q].kind = "present" => pte[r][q].at \in Frame \ {f}
      BY <1>0, <2>1, Zenon DEF CountInv, Placed, Hits
    <3> QED
      BY <1>3, <2>2, <2>3, <2>5, <3>1, SameEntryKept, ZenonT(60)
  <2> QED
    BY <2>4, <2>5, Zenon
<1>4. ASSUME NEW r \in Space, NEW q \in Page, NEW j \in FreeSlots, Evicts(s, p, e, r, q, j)
      PROVE  \A a \in Space, b \in Page : Kept(a, b)
  <2> DEFINE f == pte[r][q].at
             out == SwappedOut(pte[r][q], j)
             in == SwappedIn(e, f)
  <2>1. /\ pte[r][q].kind = "present" /\ frame_refs[f] = 0 /\ frame_refs' = frame_refs
        /\ disk' = [disk EXCEPT ![j] = data[f]]
        /\ data' = [data EXCEPT ![f] = disk[i]]
        /\ pte' = [pte EXCEPT ![r][q] = out, ![s][p] = in]
    BY <1>0, <1>4, Zenon DEF Evicts, Evictable
  <2>2. /\ f \in Frame
        /\ \A a \in Space, b \in Page : Hits(pte[a][b], "present", f) => a = r /\ b = q
    BY <1>0, <2>1, MappedIsUsed, Zenon
  <2>3. j \in Slot /\ \A a \in Space, b \in Page : ~Hits(pte[a][b], "swap", j)
    BY <1>0, FreeSlotIsUnused, Zenon
  <2>4. pte[r][q] \in Entry /\ (r # s \/ q # p)
    BY <1>0, <1>1, <2>1, Zenon
  <2> HIDE DEF out, in, f, i
  <2>5. /\ pte'[r][q] = out /\ pte'[s][p] = in
        /\ \A a \in Space, b \in Page :
             (a # s \/ b # p) /\ (a # r \/ b # q) => pte'[a][b] = pte[a][b]
    <3> DEFINE mid == [pte EXCEPT ![r][q] = out]
    <3>1. pte' = [mid EXCEPT ![s][p] = in]
      BY <1>0, <2>1, Zenon
    <3>2. /\ mid \in [Space -> [Page -> Entry \cup {out}]]
          /\ \A a \in Space, b \in Page : mid[a][b] = IF a = r /\ b = q THEN out ELSE pte[a][b]
      BY <1>0
    <3> HIDE DEF mid
    <3>3. \A a \in Space, b \in Page : pte'[a][b] = IF a = s /\ b = p THEN in ELSE mid[a][b]
      BY <3>1, <3>2, ZenonT(60)
    <3> QED
      BY <2>4, <3>2, <3>3
  <2>6. /\ disk'[j] = data[f] /\ \A k \in Slot \ {j} : disk'[k] = disk[k]
        /\ data'[f] = disk[i] /\ \A g \in Frame \ {f} : data'[g] = data[g]
    BY <1>0, <2>1, <2>2, <2>3, Zenon
  <2>7. Kept(s, p)
    <3>1. in.kind = "present" /\ in.at = f /\ (in.writable => in.user)
      BY <1>2, Zenon DEF in
    <3> QED
      BY <1>1, <2>1, <2>5, <2>6, <3>1, Zenon DEF Kept, MayWrite, Contents, i
  <2>8. Kept(r, q)
    <3>1. /\ out.kind = "swap" /\ out.at = j
          /\ out.writable = pte[r][q].writable /\ out.user = pte[r][q].user
      BY <2>4, Zenon DEF out, SwappedOut, Entry
    <3> QED
      BY <2>1, <2>5, <2>6, <3>1, Zenon DEF Kept, MayWrite, Contents, f, PrivateInv, WritableIsUser
  <2>9. ASSUME NEW a \in Space, NEW b \in Page, a # s \/ b # p, a # r \/ b # q PROVE Kept(a, b)
    <3>1. /\ pte[a][b].kind = "present" => pte[a][b].at \in Frame \ {f}
          /\ pte[a][b].kind = "swap" => pte[a][b].at \in Slot \ {j}
      BY <1>0, <2>2, <2>3, <2>9, Zenon DEF CountInv, Placed, Hits
    <3>2. pte'[a][b] = pte[a][b]
      BY <2>5, <2>9, Zenon
    <3> QED
      BY <2>1, <2>6, <3>1, <3>2, SameEntryKept, ZenonT(60)
  <2> QED
    BY <2>7, <2>8, <2>9, Zenon
<1>5. \/ \E f \in FreeFrames : /\ data' = [data EXCEPT ![f] = disk[i]]
                               /\ pte' = [pte EXCEPT ![s][p] = SwappedIn(e, f)]
                               /\ frame_refs' = frame_refs /\ disk' = disk
      \/ \E r \in Space, q \in Page, j \in FreeSlots : Evicts(s, p, e, r, q, j)
  BY ZenonT(60) DEF SwapInAs, Evicts
<1> QED
  BY <1>3, <1>4, <1>5, Zenon

(* cow_resolve_slot changes what no page holds, and the page that becomes  *)
(* writable has its frame to itself.                                       *)
LEMMA CowFaultShows ==
  ASSUME PrivateInv, NEW s \in Space, NEW p \in Page, CowFault(s, p)
  PROVE  \A r \in Space, q \in Page : Kept(r, q)
<1> DEFINE e == pte[s][p]
<1>0. /\ CountInv /\ pte \in [Space -> [Page -> Entry]] /\ data \in [Frame -> Value] /\ e \in Entry
      /\ frame_refs \in [Frame -> 0 .. MaxRefs]
  BY Zenon DEF PrivateInv, CountInv, TypeOK
<1>1. e.kind = "present" /\ e.user /\ disk' = disk
  BY Zenon DEF CowFault
<1>2. e.at \in Frame
  BY <1>0, <1>1, MappedIsUsed, Zenon
<1>3. \A f : /\ Resolved(e, f).kind = "present" /\ Resolved(e, f).at = f
             /\ Resolved(e, f).user
  BY <1>0, <1>1, Zenon DEF Resolved, Entry
<1>4. CASE /\ frame_refs[e.at] = 0 /\ pte' = [pte EXCEPT ![s][p] = Resolved(e, e.at)]
           /\ frame_refs' = frame_refs /\ data' = data
  <2>1. /\ pte'[s][p] = Resolved(e, e.at)
        /\ \A r \in Space, q \in Page : r # s \/ q # p => pte'[r][q] = pte[r][q]
    BY <1>0, <1>4, Zenon
  <2>2. pte'[s][p].user /\ pte'[s][p].kind = "present" /\ pte'[s][p].at = e.at
    BY <1>3, <2>1, ZenonT(60)
  <2>3. Kept(s, p)
    BY <1>1, <1>4, <2>2 DEF Kept, MayWrite, Contents
  <2> QED
    BY <1>1, <1>4, <2>1, <2>3, SameEntryKept, Zenon
<1>5. ASSUME frame_refs[e.at] > 0, NEW f \in FreeFrames,
             frame_refs' = [frame_refs EXCEPT ![e.at] = @ - 1],
             data' = [data EXCEPT ![f] = data[e.at]],
             pte' = [pte EXCEPT ![s][p] = Resolved(e, f)]
      PROVE  \A r \in Space, q \in Page : Kept(r, q)
  <2>1. /\ f \in Frame /\ frame_refs[f] = 0
        /\ \A r \in Space, q \in Page : ~Hits(pte[r][q], "present", f)
    BY <1>0, FreeIsUnused, Zenon
  <2>2. /\ pte'[s][p] = Resolved(e, f)
        /\ \A r \in Space, q \in Page : r # s \/ q # p => pte'[r][q] = pte[r][q]
    BY <1>0, <1>5, Zenon
  <2>3. data'[f] = data[e.at] /\ \A g \in Frame \ {f} : data'[g] = data[g]
    BY <1>0, <1>5, <2>1, Zenon
  <2>4. \A g \in Frame : frame_refs[g] = 0 => frame_refs'[g] = 0
    BY <1>0, <1>2, <1>5
  <2>5. Kept(s, p)
    <3>1. pte'[s][p].user /\ pte'[s][p].kind = "present" /\ pte'[s][p].at = f
      BY <1>3, <2>2, ZenonT(60)
    <3>2. MayWrite(s, p)
      BY <2>1, <2>4, <3>1, Zenon DEF MayWrite
    <3>3. Contents(s, p)' = Contents(s, p)
      BY <1>1, <2>3, <3>1, Zenon DEF Contents
    <3> QED
      BY <3>2, <3>3, Zenon DEF Kept
  <2>6. ASSUME NEW r \in Space, NEW q \in Page, r # s \/ q # p PROVE Kept(r, q)
    <3>1. pte[r][q].kind = "present" => pte[r][q].at \in Frame \ {f}
      BY <1>0, <2>1, Zenon DEF CountInv, Placed, Hits
    <3> QED
      BY <1>1, <2>2, <2>3, <2>4, <2>6, <3>1, SameEntryKept, ZenonT(60)
  <2> QED
    BY <2>5, <2>6, Zenon
<1> QED
  BY <1>4, <1>5, Zenon DEF CowFault

(* vmm_page_prot_locked, when it gives no right to write, changes what no  *)
(* page holds.                                                             *)
LEMMA ProtectShows ==
  ASSUME PrivateInv, "write" \notin Prots, NEW s \in Space, NEW p \in Page, NEW prot \in Prots,
         Protect(s, p, prot)
  PROVE  \A r \in Space, q \in Page : Kept(r, q)
<1> DEFINE e == pte[s][p]
           o == Protected(e, prot)
<1>0. /\ CountInv /\ pte \in [Space -> [Page -> Entry]] /\ e \in Entry
  BY Zenon DEF PrivateInv, CountInv, TypeOK
<1>1. /\ o \in Entry /\ o.kind = e.kind /\ o.at = e.at
  BY <1>0, EntryTypes, EntryFields
<1>2. ~o.writable
  BY <1>0, Zenon DEF Protected, Entry
<1>3. CASE /\ e.kind = "present" /\ pte' = [pte EXCEPT ![s][p] = o]
           /\ UNCHANGED <<root, used, frame_refs, data, swap_refs, disk>>
  <2>1. /\ pte'[s][p] = o
        /\ \A r \in Space, q \in Page : r # s \/ q # p => pte'[r][q] = pte[r][q]
    BY <1>0, <1>3, ZenonT(60)
  <2>2. Kept(s, p)
    <3> HIDE DEF o
    <3> QED
      BY <1>1, <1>2, <1>3, <2>1 DEF Kept, MayWrite, Contents
  <2> QED
    BY <1>3, <2>1, <2>2, SameEntryKept, Zenon
<1>4. CASE SwapInAs(s, p, o)
  <2> HIDE DEF o
  <2> QED
    BY <1>1, <1>2, <1>4, SwapInShows, Zenon
<1> QED
  BY <1>3, <1>4, Zenon DEF Protect

(* A write reaches the page it is meant for and no other. *)
LEMMA StoreShows ==
  ASSUME PrivateInv, NEW s \in Space, NEW p \in Page, NEW v \in Value, Store(s, p, v)
  PROVE  /\ Contents(s, p) # NoPage /\ Live(s) /\ Contents(s, p)' = v /\ MayWrite(s, p)
         /\ \A r \in Space, q \in Page : r # s \/ q # p => Kept(r, q)
<1> DEFINE f == pte[s][p].at
<1>0. CountInv /\ data \in [Frame -> Value]
  BY Zenon DEF PrivateInv, CountInv, TypeOK
<1>1. /\ pte[s][p].kind = "present" /\ pte[s][p].writable /\ data' = [data EXCEPT ![f] = v]
      /\ pte' = pte /\ frame_refs' = frame_refs /\ disk' = disk
  BY Zenon DEF Store
<1>2. frame_refs[f] = 0
  BY <1>1, Zenon DEF PrivateInv, WritableIsPrivate
<1>3. /\ f \in Frame
      /\ \A r \in Space, q \in Page : Hits(pte[r][q], "present", f) => r = s /\ q = p
  BY <1>0, <1>1, <1>2, MappedIsUsed, Zenon
<1>4. data'[f] = v /\ \A g \in Frame \ {f} : data'[g] = data[g]
  BY <1>0, <1>1, <1>3, Zenon
<1>5. Contents(s, p) # NoPage /\ Live(s)
  BY <1>0, <1>1, ContentsTypes, Zenon
<1>6. Contents(s, p)' = v
  BY <1>1, <1>4, Zenon DEF Contents
<1>7. MayWrite(s, p)
  BY <1>1, <1>2, Zenon DEF MayWrite, PrivateInv, WritableIsUser
<1>8. ASSUME NEW r \in Space, NEW q \in Page, r # s \/ q # p PROVE Kept(r, q)
  <2>1. pte[r][q].kind = "present" => pte[r][q].at \in Frame \ {f}
    BY <1>0, <1>3, <1>8, Zenon DEF CountInv, Placed, Hits
  <2> HIDE DEF f
  <2> QED
    BY <1>1, <1>4, <2>1, SameEntryKept, Zenon
<1> QED
  BY <1>5, <1>6, <1>7, <1>8, Zenon

(* vmm_create_address_space changes what no page holds. *)
LEMMA CreateShows ==
  ASSUME PrivateInv, NEW s \in Space, Create(s)
  PROVE  /\ ~Live(s) /\ \A r \in Space : Live(r)' <=> Live(r) \/ r = s
         /\ \A r \in Space, q \in Page : Kept(r, q)
<1>0. CountInv /\ data \in [Frame -> Value] /\ root \in [Space -> Frame \cup {NoFrame}]
  BY Zenon DEF PrivateInv, CountInv, TypeOK
<1>1. PICK f \in FreeFrames : root' = [root EXCEPT ![s] = f] /\ data' = [data EXCEPT ![f] = Zero]
  BY Zenon DEF Create
<1>2. ~Live(s) /\ pte' = pte /\ frame_refs' = frame_refs /\ disk' = disk
  BY Zenon DEF Create
<1>3. /\ f \in Frame /\ f # NoFrame
      /\ \A r \in Space, q \in Page : ~Hits(pte[r][q], "present", f)
  BY <1>0, FreeIsUnused, Zenon
<1>4. \A r \in Space : Live(r)' <=> Live(r) \/ r = s
  BY <1>0, <1>1, <1>3, Zenon DEF Live
<1>5. \A g \in Frame \ {f} : data'[g] = data[g]
  BY <1>0, <1>1, Zenon
<1>6. ASSUME NEW r \in Space, NEW q \in Page PROVE Kept(r, q)
  <2>1. pte[r][q].kind = "present" => pte[r][q].at \in Frame \ {f}
    BY <1>0, <1>3, Zenon DEF CountInv, Placed, Hits
  <2> QED
    BY <1>2, <1>5, <2>1, SameEntryKept, Zenon
<1> QED
  BY <1>2, <1>4, <1>6, Zenon

(* vmm_destroy_address_space takes away the pages of one address space and *)
(* changes no other.                                                       *)
LEMMA DestroyShows ==
  ASSUME PrivateInv, NEW s \in Space, Destroy(s)
  PROVE  /\ Live(s) /\ \A r \in Space : Live(r)' <=> Live(r) /\ r # s
         /\ \A q \in Page : Contents(s, q)' = NoPage /\ MayWrite(s, q)
         /\ \A r \in Space \ {s}, q \in Page : Kept(r, q)
<1>0. CountInv /\ pte \in [Space -> [Page -> Entry]] /\ root \in [Space -> Frame \cup {NoFrame}]
  BY Zenon DEF PrivateInv, CountInv, TypeOK
<1>1. /\ Live(s) /\ FreePages(FramesOf(s) \cup {root[s]}) /\ data' = data /\ disk' = disk
      /\ root' = [root EXCEPT ![s] = NoFrame] /\ pte' = [pte EXCEPT ![s] = [q \in Page |-> Empty]]
  BY Zenon DEF Destroy
<1>2. FramesOf(s) \cup {root[s]} \subseteq used
  <2>1. \A q \in Page : pte[s][q].kind = "present" => pte[s][q].at \in used
    BY <1>0, MappedIsUsed, Zenon
  <2>2. root[s] \in used
    BY <1>0, <1>1, RootIsUsed, Zenon
  <2> QED
    BY <2>1, <2>2, Zenon DEF FramesOf
<1>3. \A g \in Frame : frame_refs[g] = 0 => frame_refs'[g] = 0
  BY <1>0, <1>1, <1>2, FreePagesDrops, Zenon
<1>4. /\ \A q \in Page : pte'[s][q] = Empty
      /\ \A r \in Space \ {s}, q \in Page : pte'[r][q] = pte[r][q]
  BY <1>0, <1>1, Zenon
<1>5. \A r \in Space : Live(r)' <=> Live(r) /\ r # s
  BY <1>0, <1>1, Zenon DEF Live
<1>6. \A q \in Page : Contents(s, q)' = NoPage /\ MayWrite(s, q)
  <2>1. Empty.kind = "none" /\ ~Empty.writable
    BY Zenon DEF Empty
  <2>2. \A q \in Page : pte'[s][q].kind = "none" /\ ~pte'[s][q].writable
    BY <1>4, <2>1, Zenon
  <2> QED
    BY <2>2, Zenon DEF Contents, MayWrite
<1>7. ASSUME NEW r \in Space \ {s}, NEW q \in Page PROVE Kept(r, q)
  <2>1. pte[r][q].kind = "present" => pte[r][q].at \in Frame
    BY <1>0, Zenon DEF CountInv, Placed
  <2> QED
    BY <1>1, <1>3, <1>4, <2>1, SameEntryKept, Zenon
<1> QED
  BY <1>1, <1>5, <1>6, <1>7, Zenon

(* clone_table_level takes the right to write away from what it shares. *)
LEMMA SharedShows ==
  ASSUME PrivateInv, NEW s \in Space, NEW p \in Page
  PROVE  LET e == pte[s][p]
         IN /\ Shared(e).kind = e.kind /\ Shared(e).at = e.at
            /\ Shared(e).writable => Shared(e).user /\ Shared(e).kind # "present"
            /\ e.writable => e.user
<1> DEFINE e == pte[s][p]
<1>1. e \in Entry
  BY Zenon DEF PrivateInv, CountInv, TypeOK
<1>2. e.writable => e.user
  BY Zenon DEF PrivateInv, WritableIsUser
<1>3. CASE e.kind = "present" /\ e.user /\ e.writable
  <2>1. Shared(e) = [e EXCEPT !.writable = FALSE, !.cow = TRUE]
    BY <1>3, Zenon DEF Shared
  <2> QED
    BY <1>1, <1>2, <2>1, Zenon DEF Entry
<1>4. CASE ~(e.kind = "present" /\ e.user /\ e.writable)
  <2>1. Shared(e) = e
    BY <1>4, Zenon DEF Shared
  <2> QED
    BY <1>2, <1>4, <2>1, Zenon
<1> QED
  BY <1>3, <1>4, Zenon

(* vmm_clone_address_space gives the copy what the original has and        *)
(* changes no other page.                                                  *)
LEMMA CloneShows ==
  ASSUME PrivateInv, NEW s \in Space, NEW c \in Space, Clone(s, c)
  PROVE  /\ Live(s) /\ ~Live(c) /\ \A r \in Space : Live(r)' <=> Live(r) \/ r = c
         /\ \A q \in Page : Contents(c, q)' = Contents(s, q) /\ MayWrite(c, q)
         /\ \A r \in Space \ {c}, q \in Page : Kept(r, q)
<1>0. /\ CountInv /\ pte \in [Space -> [Page -> Entry]] /\ root \in [Space -> Frame \cup {NoFrame}]
      /\ data \in [Frame -> Value]
  BY Zenon DEF PrivateInv, CountInv, TypeOK
<1>1. PICK f \in FreeFrames : root' = [root EXCEPT ![c] = f] /\ data' = [data EXCEPT ![f] = Zero]
  BY Zenon DEF Clone
<1>2. /\ Live(s) /\ ~Live(c) /\ s # c /\ disk' = disk
      /\ \A g \in Frame \ FramesOf(s) : frame_refs[g] = 0 => frame_refs'[g] = 0
  BY DEF Clone
<1>3. /\ f \in Frame /\ f # NoFrame
      /\ \A r \in Space, q \in Page : ~Hits(pte[r][q], "present", f)
  BY <1>0, FreeIsUnused, Zenon
<1>4. /\ \A q \in Page : pte'[s][q] = Shared(pte[s][q])
      /\ \A q \in Page : \/ pte'[c][q] = Shared(pte[s][q])
                         \/ pte[s][q].kind # "present" /\ pte'[c][q] = pte[s][q]
      /\ \A r \in Space \ {s, c}, q \in Page : pte'[r][q] = pte[r][q]
  <2> DEFINE shared == [p \in Page |-> Shared(pte[s][p])]
             copy == [p \in Page |-> IF pte[s][p].kind = "present" THEN shared[p] ELSE pte[s][p]]
  <2>1. pte' = [pte EXCEPT ![s] = shared, ![c] = copy]
    BY Zenon DEF Clone
  <2>2. \A q \in Page : /\ shared[q] = Shared(pte[s][q])
                        /\ copy[q] = IF pte[s][q].kind = "present" THEN Shared(pte[s][q]) ELSE pte[s][q]
    BY Zenon
  <2> HIDE DEF shared, copy
  <2>3. \A r \in Space : pte'[r] = IF r = c THEN copy ELSE IF r = s THEN shared ELSE pte[r]
    BY <1>0, <2>1, Zenon
  <2> QED
    BY <1>2, <2>2, <2>3, Zenon
<1>5. \A g \in Frame \ {f} : data'[g] = data[g]
  BY <1>0, <1>1, Zenon
<1>6. \A r \in Space : Live(r)' <=> Live(r) \/ r = c
  BY <1>0, <1>1, <1>3, Zenon DEF Live
<1>7. ASSUME NEW q \in Page
      PROVE  MayWrite(s, q) /\ MayWrite(c, q) /\ Contents(s, q)' = Contents(s, q)
             /\ Contents(c, q)' = Contents(s, q)
  <2> DEFINE e == pte[s][q]
             o == Shared(e)
  <2>1. /\ o.kind = e.kind /\ o.at = e.at /\ (e.writable => e.user)
        /\ o.writable => o.user /\ o.kind # "present"
    BY SharedShows, Zenon
  <2>2. pte'[s][q] = o /\ (pte'[c][q] = o \/ (e.kind # "present" /\ pte'[c][q] = e))
    BY <1>4, Zenon
  <2>3. e.kind = "present" => data'[e.at] = data[e.at]
    BY <1>0, <1>3, <1>5, Zenon DEF CountInv, Placed, Hits
  <2> HIDE DEF o, e
  <2>4. MayWrite(s, q) /\ MayWrite(c, q)
    BY <2>1, <2>2, Zenon DEF MayWrite
  <2>5. Contents(s, q)' = Contents(s, q) /\ Contents(c, q)' = Contents(s, q)
    BY <1>2, <2>1, <2>2, <2>3, ZenonT(60) DEF Contents, e
  <2> QED
    BY <2>4, <2>5, Zenon
<1>8. ASSUME NEW r \in Space \ {s, c}, NEW q \in Page PROVE Kept(r, q)
  <2>1. pte[r][q].kind = "present" => pte[r][q].at \in Frame \ {f}
    BY <1>0, <1>3, Zenon DEF CountInv, Placed, Hits
  <2>2. ASSUME pte[r][q].kind = "present", frame_refs[pte[r][q].at] = 0
        PROVE  pte[r][q].at \notin FramesOf(s)
    <3>1. ASSUME NEW b \in Page, pte[s][b].kind = "present", pte[s][b].at = pte[r][q].at PROVE FALSE
      <4>1. Hits(pte[s][b], "present", pte[r][q].at)
        BY <3>1, Zenon DEF Hits
      <4>2. s = r /\ b = q
        BY <1>0, <2>2, <4>1, MappedIsUsed, Zenon
      <4> QED
        BY <4>2, Zenon
    <3> QED
      BY <3>1, Zenon DEF FramesOf
  <2>3. pte'[r][q] = pte[r][q] /\ disk' = disk
    BY <1>2, <1>4, Zenon
  <2>4. pte[r][q].kind = "present" =>
          /\ data'[pte[r][q].at] = data[pte[r][q].at]
          /\ frame_refs[pte[r][q].at] = 0 => frame_refs'[pte[r][q].at] = 0
    BY <1>2, <1>5, <2>1, <2>2, Zenon
  <2> QED
    BY <2>3, <2>4, SameEntryKept, Zenon
<1> QED
  <2>1. \A q \in Page : Kept(s, q)
    BY <1>7, Zenon DEF Kept
  <2>2. \A r \in Space \ {c}, q \in Page : Kept(r, q)
    BY <1>8, <2>1, Zenon
  <2> QED
    BY <1>2, <1>6, <1>7, <2>2, Zenon

(* A copy that fails changes what no page holds. *)
LEMMA CloneFailsShows ==
  ASSUME PrivateInv, NEW s \in Space, NEW done \in SUBSET Page, CloneFails(s, done)
  PROVE  \A r \in Space, q \in Page : Kept(r, q)
<1>0. pte \in [Space -> [Page -> Entry]]
  BY Zenon DEF PrivateInv, CountInv, TypeOK
<1>1. /\ frame_refs' = frame_refs /\ data' = data /\ disk' = disk
      /\ pte' = [pte EXCEPT ![s] = [p \in Page |-> IF p \in done THEN Shared(pte[s][p])
                                                                ELSE pte[s][p]]]
  BY Zenon DEF CloneFails
<1>2. /\ \A q \in Page : pte'[s][q] = Shared(pte[s][q]) \/ pte'[s][q] = pte[s][q]
      /\ \A r \in Space \ {s}, q \in Page : pte'[r][q] = pte[r][q]
  BY <1>0, <1>1, Zenon
<1>3. ASSUME NEW q \in Page, pte'[s][q] = Shared(pte[s][q]) PROVE Kept(s, q)
  <2> DEFINE e == pte[s][q]
             o == Shared(e)
  <2>1. o.kind = e.kind /\ o.at = e.at /\ (o.writable => o.user /\ o.kind # "present")
    BY SharedShows, Zenon
  <2>2. pte'[s][q] = o /\ pte[s][q] = e
    BY <1>3, Zenon
  <2> HIDE DEF o, e
  <2>3. MayWrite(s, q)
    BY <2>1, <2>2, ZenonT(60) DEF MayWrite
  <2>4. /\ e.kind = "none" => Contents(s, q) = NoPage /\ Contents(s, q)' = NoPage
        /\ e.kind = "present" => Contents(s, q) = data[e.at] /\ Contents(s, q)' = data'[e.at]
        /\ e.kind \notin {"none", "present"} =>
             Contents(s, q) = disk[e.at] /\ Contents(s, q)' = disk'[e.at]
    BY <2>1, <2>2 DEF Contents
  <2>5. data' = data /\ disk' = disk
    BY <1>1, ZenonT(60)
  <2>6. Contents(s, q)' = Contents(s, q)
    BY <2>4, <2>5
  <2> QED
    BY <2>3, <2>6, Zenon DEF Kept
<1>4. ASSUME NEW r \in Space, NEW q \in Page, pte'[r][q] = pte[r][q] PROVE Kept(r, q)
  BY <1>1, <1>4, SameEntryKept, Zenon
<1> QED
  BY <1>2, <1>3, <1>4, Zenon

-----------------------------------------------------------------------------
(* The abstract memory.                                                    *)

AllContents == [s \in Space |-> [p \in Page |-> Contents(s, p)]]
LiveSpaces == {s \in Space : Live(s)}

(* The invariant that the refinement needs holds at the start. *)
LEMMA PrivateInitially == Init => PrivateInv
<1> SUFFICES ASSUME Init PROVE PrivateInv
  BY Zenon
<1>1. CountInv
  BY CountInitially, Zenon
<1>2. \A s \in Space, p \in Page : pte[s][p].kind = "none" /\ ~pte[s][p].writable
  BY Zenon DEF Init, Empty
<1> QED
  BY <1>1, <1>2, Zenon DEF PrivateInv, WritableIsPrivate, WritableIsUser

(* A step after which every page may be written keeps the invariant. *)
LEMMA MayWriteKeeps ==
  ASSUME CountInv', \A r \in Space, q \in Page : MayWrite(r, q)
  PROVE  PrivateInv'
BY Zenon DEF PrivateInv, MayWrite, WritableIsPrivate, WritableIsUser

(* A step that keeps every page and the address spaces in use is a stutter *)
(* of the abstract memory.                                                 *)
LEMMA KeptStutters ==
  ASSUME \A r \in Space, q \in Page : Kept(r, q), \A r \in Space : Live(r)' <=> Live(r)
  PROVE  AllContents' = AllContents /\ LiveSpaces' = LiveSpaces
BY Zenon DEF Kept, AllContents, LiveSpaces

(* What each step of the abstract memory does, in terms of the contents of *)
(* the pages.                                                              *)
LEMMA AbstractSteps ==
  ASSUME NEW s \in Space
  PROVE  /\ s \notin LiveSpaces /\ LiveSpaces' = LiveSpaces \cup {s} /\ AllContents' = AllContents
              => Private!New(s)
         /\ s \in LiveSpaces /\ LiveSpaces' = LiveSpaces \ {s}
            /\ AllContents' = [AllContents EXCEPT ![s] = [p \in Page |-> NoPage]]
              => Private!Drop(s)
         /\ \A c \in Space :
              s \in LiveSpaces /\ c \notin LiveSpaces /\ LiveSpaces' = LiveSpaces \cup {c}
              /\ AllContents' = [AllContents EXCEPT ![c] = AllContents[s]]
                => Private!Copy(s, c)
         /\ \A p \in Page :
              s \in LiveSpaces /\ AllContents[s][p] = NoPage /\ LiveSpaces' = LiveSpaces
              /\ AllContents' = [AllContents EXCEPT ![s][p] = Zero]
                => Private!Map(s, p)
         /\ \A p \in Page :
              s \in LiveSpaces /\ LiveSpaces' = LiveSpaces
              /\ AllContents' = [AllContents EXCEPT ![s][p] = NoPage]
                => Private!Unmap(s, p)
         /\ \A p \in Page, v \in Value :
              s \in LiveSpaces /\ AllContents[s][p] # NoPage /\ LiveSpaces' = LiveSpaces
              /\ AllContents' = [AllContents EXCEPT ![s][p] = v]
                => Private!Store(s, p, v)
BY Zenon DEF AllContents, LiveSpaces, Contents, Private!New, Private!Drop, Private!Copy, Private!Map,
   Private!Unmap, Private!Store, Private!Unmapped

(* A step that changes one page. *)
LEMMA OnePageChanges ==
  ASSUME NEW s \in Space, NEW p \in Page, NEW v, Contents(s, p)' = v,
         \A r \in Space, q \in Page : r # s \/ q # p => Kept(r, q)
  PROVE  AllContents' = [AllContents EXCEPT ![s][p] = v]
BY Zenon DEF AllContents, Kept

(* A step that changes the pages of one address space. *)
LEMMA OneSpaceChanges ==
  ASSUME NEW s \in Space, NEW T, T = [q \in Page |-> Contents(s, q)'],
         \A r \in Space \ {s}, q \in Page : Kept(r, q)
  PROVE  AllContents' = [AllContents EXCEPT ![s] = T]
BY Zenon DEF AllContents, Kept

(* Every step keeps the invariant and is a step of the abstract memory. *)
LEMMA StepShows ==
  ASSUME PrivateInv, "write" \notin Prots, Next
  PROVE  PrivateInv' /\ [Private!PMNext]_(Private!pmVars)
<1>0. CountInv /\ CountInv'
  BY CountKept, Zenon DEF PrivateInv
<1>1. ASSUME AllContents' = AllContents, LiveSpaces' = LiveSpaces PROVE UNCHANGED Private!pmVars
  BY <1>1, Zenon DEF Private!pmVars, AllContents, LiveSpaces, Contents
<1>2. ASSUME NEW s \in Space, Create(s) PROVE PrivateInv' /\ Private!PMNext
  <2>1. /\ ~Live(s) /\ \A r \in Space : Live(r)' <=> Live(r) \/ r = s
        /\ \A r \in Space, q \in Page : Kept(r, q)
    BY <1>2, CreateShows, Zenon
  <2>2. AllContents' = AllContents /\ s \notin LiveSpaces /\ LiveSpaces' = LiveSpaces \cup {s}
    BY <2>1, Zenon DEF AllContents, LiveSpaces, Kept
  <2>3. PrivateInv'
    BY <1>0, <2>1, MayWriteKeeps, Zenon DEF Kept
  <2> QED
    BY <2>2, <2>3, AbstractSteps, Zenon DEF Private!PMNext
<1>3. ASSUME NEW s \in Space, Destroy(s) PROVE PrivateInv' /\ Private!PMNext
  <2>1. /\ Live(s) /\ \A r \in Space : Live(r)' <=> Live(r) /\ r # s
        /\ \A q \in Page : Contents(s, q)' = NoPage /\ MayWrite(s, q)
        /\ \A r \in Space \ {s}, q \in Page : Kept(r, q)
    BY <1>3, DestroyShows, Zenon
  <2>2. s \in LiveSpaces /\ LiveSpaces' = LiveSpaces \ {s}
    BY <2>1, Zenon DEF LiveSpaces
  <2>3. AllContents' = [AllContents EXCEPT ![s] = [q \in Page |-> NoPage]]
    <3>1. [q \in Page |-> NoPage] = [q \in Page |-> Contents(s, q)']
      BY <2>1, Zenon
    <3> QED
      BY <2>1, <3>1, OneSpaceChanges, Zenon
  <2>4. PrivateInv'
    BY <1>0, <2>1, MayWriteKeeps, Zenon DEF Kept
  <2> QED
    BY <2>2, <2>3, <2>4, AbstractSteps, Zenon DEF Private!PMNext
<1>4. ASSUME NEW s \in Space, NEW c \in Space, Clone(s, c) PROVE PrivateInv' /\ Private!PMNext
  <2>1. /\ Live(s) /\ ~Live(c) /\ \A r \in Space : Live(r)' <=> Live(r) \/ r = c
        /\ \A q \in Page : Contents(c, q)' = Contents(s, q) /\ MayWrite(c, q)
        /\ \A r \in Space \ {c}, q \in Page : Kept(r, q)
    BY <1>4, CloneShows, Zenon
  <2>2. s \in LiveSpaces /\ c \notin LiveSpaces /\ LiveSpaces' = LiveSpaces \cup {c}
    BY <2>1, Zenon DEF LiveSpaces
  <2>3. AllContents' = [AllContents EXCEPT ![c] = AllContents[s]]
    <3>1. AllContents[s] = [q \in Page |-> Contents(c, q)']
      BY <2>1, Zenon DEF AllContents
    <3> QED
      BY <2>1, <3>1, OneSpaceChanges, Zenon
  <2>4. PrivateInv'
    BY <1>0, <2>1, MayWriteKeeps, Zenon DEF Kept
  <2> QED
    BY <2>2, <2>3, <2>4, AbstractSteps, ZenonT(60) DEF Private!PMNext
<1>5. ASSUME NEW s \in Space, NEW done \in SUBSET Page, CloneFails(s, done)
      PROVE  PrivateInv' /\ UNCHANGED Private!pmVars
  <2>1. \A r \in Space, q \in Page : Kept(r, q)
    BY <1>5, CloneFailsShows, Zenon
  <2>2. \A r \in Space : Live(r)' <=> Live(r)
    BY <1>5, Zenon DEF CloneFails, Live
  <2> QED
    BY <1>0, <1>1, <2>1, <2>2, MayWriteKeeps, KeptStutters, ZenonT(60) DEF Kept
<1>6. ASSUME NEW s \in Space, NEW p \in Page,
             \/ SwapOut(s, p) \/ SwapFault(s, p) \/ CowFault(s, p)
             \/ \E prot \in Prots : Protect(s, p, prot)
      PROVE  PrivateInv' /\ UNCHANGED Private!pmVars
  <2>1. \A r \in Space, q \in Page : Kept(r, q)
    <3>1. CASE SwapFault(s, p)
      <4>1. pte[s][p] \in Entry /\ (pte[s][p].writable => pte[s][p].user)
        BY ZenonT(60) DEF PrivateInv, CountInv, TypeOK, WritableIsUser
      <4> QED
        BY <3>1, <4>1, SwapInShows, Zenon DEF SwapFault
    <3> QED
      BY <1>6, <3>1, SwapOutShows, CowFaultShows, ProtectShows, ZenonT(60)
  <2>2. \A r \in Space : Live(r)' <=> Live(r)
    BY <1>6, Zenon DEF SwapOut, SwapFault, SwapInAs, CowFault, Protect, Live
  <2> QED
    BY <1>0, <1>1, <2>1, <2>2, MayWriteKeeps, KeptStutters, ZenonT(60) DEF Kept
<1>7. ASSUME NEW s \in Space, NEW p \in Page, NEW v, Live(s), Contents(s, p)' = v, MayWrite(s, p),
             \A r \in Space, q \in Page : r # s \/ q # p => Kept(r, q), root' = root
      PROVE  /\ PrivateInv' /\ s \in LiveSpaces /\ LiveSpaces' = LiveSpaces
             /\ AllContents' = [AllContents EXCEPT ![s][p] = v]
  <2>1. \A r \in Space, q \in Page : MayWrite(r, q)
    BY <1>7, Zenon DEF Kept
  <2>2. PrivateInv'
    BY <1>0, <2>1, MayWriteKeeps, Zenon
  <2>3. s \in LiveSpaces /\ LiveSpaces' = LiveSpaces
    BY <1>7, Zenon DEF LiveSpaces, Live
  <2>4. AllContents' = [AllContents EXCEPT ![s][p] = v]
    BY <1>7, OnePageChanges
  <2> QED
    BY <2>2, <2>3, <2>4, Zenon
<1>8. ASSUME NEW s \in Space, NEW p \in Page, Unmap(s, p) PROVE PrivateInv' /\ Private!PMNext
  <2>1. root' = root
    BY <1>8, Zenon DEF Unmap
  <2>2. /\ PrivateInv' /\ s \in LiveSpaces /\ LiveSpaces' = LiveSpaces
        /\ AllContents' = [AllContents EXCEPT ![s][p] = NoPage]
    BY <1>7, <1>8, <2>1, UnmapShows
  <2> QED
    BY <2>2, AbstractSteps, Zenon DEF Private!PMNext
<1>9. ASSUME NEW s \in Space, NEW p \in Page, NEW writable \in BOOLEAN, NEW anon \in BOOLEAN,
             MapNew(s, p, writable, anon)
      PROVE  PrivateInv' /\ Private!PMNext
  <2>1. root' = root /\ Live(s)
    BY <1>9, Zenon DEF MapNew
  <2>2. /\ PrivateInv' /\ s \in LiveSpaces /\ LiveSpaces' = LiveSpaces
        /\ AllContents' = [AllContents EXCEPT ![s][p] = Zero]
    BY <1>7, <1>9, <2>1, MapNewShows
  <2>3. AllContents[s][p] = NoPage
    BY <1>9, MapNewShows DEF AllContents
  <2> QED
    BY <2>2, <2>3, AbstractSteps, Zenon DEF Private!PMNext
<1>10. ASSUME NEW s \in Space, NEW p \in Page, NEW v \in Value, Store(s, p, v)
       PROVE  PrivateInv' /\ Private!PMNext
  <2>1. root' = root
    BY <1>10, Zenon DEF Store
  <2>2. /\ PrivateInv' /\ s \in LiveSpaces /\ LiveSpaces' = LiveSpaces
        /\ AllContents' = [AllContents EXCEPT ![s][p] = v]
    BY <1>7, <1>10, <2>1, StoreShows
  <2>3. AllContents[s][p] # NoPage
    BY <1>10, StoreShows, Zenon DEF AllContents
  <2> QED
    BY <2>2, <2>3, AbstractSteps, Zenon DEF Private!PMNext
<1> QED
  BY <1>2, <1>3, <1>4, <1>5, <1>6, <1>8, <1>9, <1>10, ZenonT(60) DEF Next

(* A step, or a stutter, keeps the invariant and shows the abstract memory *)
(* a step or a stutter.                                                    *)
LEMMA StepOrStutter ==
  ASSUME PrivateInv, "write" \notin Prots, [Next]_vars
  PROVE  PrivateInv' /\ [Private!PMNext]_(Private!pmVars)
<1>1. CASE UNCHANGED vars
  <2>1. CountInv'
    BY <1>1, CountKept, Zenon DEF PrivateInv
  <2>2. PrivateInv'
    BY <1>1, <2>1, Zenon DEF vars, PrivateInv, WritableIsPrivate, WritableIsUser
  <2>3. UNCHANGED Private!pmVars
    BY <1>1, Zenon DEF vars, Private!pmVars, Live
  <2> QED
    BY <2>2, <2>3, Zenon
<1> QED
  BY <1>1, StepShows, Zenon

(* A page that is writable without a fault has its frame to itself, as     *)
(* long as mprotect (vmm_page_prot_locked) gives no right to write.        *)
THEOREM WritableArePrivate ==
  ASSUME "write" \notin Prots
  PROVE  Spec => []WritableIsPrivate
<1>1. PrivateInv /\ [Next]_vars => PrivateInv'
  BY StepOrStutter, Zenon
<1>2. PrivateInv => WritableIsPrivate
  BY Zenon DEF PrivateInv
<1> QED
  BY <1>1, <1>2, PrivateInitially, PTL DEF Spec

(* Under the same condition, fork, copy-on-write and swap implement        *)
(* address spaces that share nothing.                                      *)
THEOREM MemoryRefinement ==
  ASSUME "write" \notin Prots
  PROVE  Spec => ImplementsPrivateMemory
<1>1. Init => Private!PMInit
  BY DEF Init, Live, Empty, Private!PMInit, Private!Unmapped
<1>2. PrivateInv /\ [Next]_vars => PrivateInv' /\ [Private!PMNext]_(Private!pmVars)
  BY StepOrStutter, Zenon
<1> QED
  BY <1>1, <1>2, PrivateInitially, PTL DEF Spec, ImplementsPrivateMemory, Private!PMSpec
=============================================================================
