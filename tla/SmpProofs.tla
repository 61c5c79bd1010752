------------------------------ MODULE SmpProofs ------------------------------
(***************************************************************************)
(* The safety of starting the processors and of taking translations back,  *)
(* for every number of processors, spaces and frames.                      *)
(***************************************************************************)
EXTENDS CpuStart, Tlb, FiniteSetTheorems, TLAPS

-----------------------------------------------------------------------------
(* Starting.  AnswerIsRight is not inductive: that a processor cannot come *)
(* up after its answer was given rests on its state, which is STARTING     *)
(* only while smp_start_cpu waits for it, and that on the processors       *)
(* without context, which are still parked.                                *)

StartOrder ==
  /\ context \subseteq tried
  /\ starting \notin ready
  /\ \A a \in Ap \ context : states[a] = "PARKED" /\ ap[a] = "parked"
  /\ \A a \in Ap : states[a] = "STARTING" => starting = a

StartInv == StartTypeOK /\ OnlineRuns /\ AnswerIsRight /\ StartOrder

(* At first every processor is parked. *)
LEMMA StartInitially == StartInit => StartInv
BY ApAssumption, Zenon DEF StartInit, StartInv, StartOrder, StartTypeOK, OnlineRuns, AnswerIsRight

(* The steps of the boot processor keep the invariant. *)
LEMMA BootCpuKeeps ==
  ASSUME StartInv, NEW a \in Ap,
         StartCpu(a) \/ Unknown(a) \/ Poll(a) \/ TimeOut(a) \/ GiveUp(a)
  PROVE  StartInv'
<1>0. a # NoAp /\ NoAp \notin Ap
  BY ApAssumption, Zenon
<1>1. CASE StartCpu(a)
  <2>1. states[a] = "PARKED" /\ ap[a] = "parked" /\ a \notin ready
    BY <1>1, Zenon DEF StartCpu, StartInv, StartOrder, StartTypeOK
  <2>2. states' = [states EXCEPT ![a] = "STARTING"]
    BY <1>1, <2>1, Zenon DEF StartCpu, Moved
  <2>3. StartTypeOK'
    BY <1>0, <1>1, <2>1, <2>2, Zenon DEF StartCpu, StartInv, StartTypeOK, StartOrder
  <2>4. OnlineRuns'
    BY <1>0, <1>1, <2>1, <2>2, Zenon DEF StartCpu, StartInv, StartTypeOK, OnlineRuns
  <2>5. AnswerIsRight'
    BY <1>0, <1>1, <2>1, <2>2 DEF StartCpu, StartInv, StartTypeOK, AnswerIsRight, StartOrder
  <2>6. StartOrder'
    BY <1>0, <1>1, <2>1, <2>2, Zenon DEF StartCpu, StartInv, StartTypeOK, AnswerIsRight, StartOrder
  <2> QED
    BY <2>3, <2>4, <2>5, <2>6, Zenon DEF StartInv
<1>2. CASE Unknown(a)
  <2>1. states[a] = "PARKED" /\ a \notin ready
    BY <1>2, Zenon DEF Unknown, StartInv, StartOrder, StartTypeOK
  <2>2. StartTypeOK'
    BY <1>0, <1>2, <2>1, Zenon DEF Unknown, StartInv, StartTypeOK, StartOrder
  <2>3. OnlineRuns'
    BY <1>0, <1>2, <2>1, Zenon DEF Unknown, StartInv, StartTypeOK, OnlineRuns
  <2>4. AnswerIsRight'
    BY <1>0, <1>2, <2>1, Zenon DEF Unknown, StartInv, StartTypeOK, AnswerIsRight, StartOrder
  <2>5. StartOrder'
    BY <1>0, <1>2, <2>1, Zenon DEF Unknown, StartInv, StartTypeOK, AnswerIsRight, StartOrder
  <2> QED
    BY <2>2, <2>3, <2>4, <2>5, Zenon DEF StartInv
<1>3. CASE Poll(a)
  <2>1. /\ starting = a /\ starting' = NoAp /\ timed_out' = FALSE
        /\ states[a] # "STARTING"
        /\ ready' = IF states[a] = "IDLE" THEN ready \cup {a} ELSE ready
        /\ UNCHANGED <<states, context, tried, released, ap>>
    BY <1>3, Zenon DEF Poll, Answer
  <2>2. StartTypeOK'
    BY <1>0, <2>1, Zenon DEF StartInv, StartTypeOK, StartOrder
  <2>3. OnlineRuns'
    BY <1>0, <2>1, Zenon DEF StartInv, StartTypeOK, OnlineRuns
  <2>4. AnswerIsRight'
    BY <1>0, <2>1, Zenon DEF StartInv, StartTypeOK, AnswerIsRight, StartOrder
  <2>5. StartOrder'
    BY <1>0, <2>1, Zenon DEF StartInv, StartTypeOK, AnswerIsRight, StartOrder
  <2> QED
    BY <2>2, <2>3, <2>4, <2>5, Zenon DEF StartInv
<1>4. CASE TimeOut(a)
  BY <1>0, <1>4, Zenon DEF TimeOut, StartInv, StartOrder, StartTypeOK, OnlineRuns, AnswerIsRight
<1>5. CASE GiveUp(a)
  <2>1. /\ starting = a /\ starting' = NoAp /\ timed_out' = FALSE
        /\ UNCHANGED <<context, tried, released, ap>>
    BY <1>5, Zenon DEF GiveUp, Answer
  <2>2. CASE states[a] = "STARTING"
    <3>1. states' = [states EXCEPT ![a] = "TIMED_OUT"] /\ ready' = ready
      BY <1>5, <2>2, Zenon DEF GiveUp, Moved, Moves, Answer, LateAnswer
    <3>2. StartTypeOK'
      BY <1>0, <2>1, <2>2, <3>1, Zenon DEF StartInv, StartTypeOK, StartOrder
    <3>3. OnlineRuns'
      BY <1>0, <2>1, <2>2, <3>1, Zenon DEF StartInv, StartTypeOK, OnlineRuns
    <3>4. AnswerIsRight'
      BY <1>0, <2>1, <2>2, <3>1, Zenon DEF StartInv, StartTypeOK, AnswerIsRight, StartOrder
    <3>5. StartOrder'
      BY <1>0, <2>1, <2>2, <3>1, Zenon DEF StartInv, StartTypeOK, AnswerIsRight, StartOrder
    <3> QED
      BY <3>2, <3>3, <3>4, <3>5, Zenon DEF StartInv
  <2>3. CASE states[a] # "STARTING"
    <3>1. /\ states' = states
          /\ ready' = IF states[a] = "IDLE" THEN ready \cup {a} ELSE ready
      BY <1>5, <2>3, Zenon DEF GiveUp, Moved, Moves, Answer, LateAnswer
    <3>2. StartTypeOK'
      BY <1>0, <2>1, <2>3, <3>1, Zenon DEF StartInv, StartTypeOK, StartOrder
    <3>3. OnlineRuns'
      BY <1>0, <2>1, <2>3, <3>1, Zenon DEF StartInv, StartTypeOK, OnlineRuns
    <3>4. AnswerIsRight'
      BY <1>0, <2>1, <2>3, <3>1, Zenon DEF StartInv, StartTypeOK, AnswerIsRight, StartOrder
    <3>5. StartOrder'
      BY <1>0, <2>1, <2>3, <3>1, Zenon DEF StartInv, StartTypeOK, AnswerIsRight, StartOrder
    <3> QED
      BY <3>2, <3>3, <3>4, <3>5, Zenon DEF StartInv
  <2> QED
    BY <2>2, <2>3, Zenon
<1> QED
  BY <1>1, <1>2, <1>3, <1>4, <1>5, Zenon

(* So do the steps of the processor that is started. *)
LEMMA ApKeeps ==
  ASSUME StartInv, NEW a \in Ap,
         Boot(a) \/ Fail(a) \/ PublishIdle(a) \/ Run(a)
  PROVE  StartInv'
<1>1. CASE Boot(a)
  BY <1>1, Zenon DEF Boot, StartInv, StartOrder, StartTypeOK, OnlineRuns, AnswerIsRight
<1>2. CASE Fail(a)
  BY <1>2, Zenon DEF Fail, Moved, StartInv, StartOrder, StartTypeOK, OnlineRuns, AnswerIsRight
<1>3. CASE PublishIdle(a)
  <2>1. CASE states[a] = "STARTING"
    <3>1. states' = [states EXCEPT ![a] = "IDLE"] /\ ap' = [ap EXCEPT ![a] = "idle"]
      BY <1>3, <2>1, Zenon DEF PublishIdle, Moved, Moves, Published
    <3> QED
      BY <1>3, <2>1, <3>1 DEF PublishIdle, StartInv, StartOrder, StartTypeOK, OnlineRuns, AnswerIsRight
  <2>2. CASE states[a] # "STARTING"
    <3>1. states' = states /\ ap' = [ap EXCEPT ![a] = "halt"]
      BY <1>3, <2>2, Zenon DEF PublishIdle, Moved, Moves, Published
    <3> QED
      BY <1>3, <2>2, <3>1, ZenonT(60) DEF PublishIdle, StartInv, StartOrder, StartTypeOK, OnlineRuns, AnswerIsRight
  <2> QED
    BY <2>1, <2>2, Zenon
<1>4. CASE Run(a)
  BY <1>4, Zenon DEF Run, StartInv, StartOrder, StartTypeOK, OnlineRuns, AnswerIsRight
<1> QED
  BY <1>1, <1>2, <1>3, <1>4, Zenon

(* The invariant holds of every state. *)
THEOREM StartInvariant == StartSpec => []StartInv
<1>1. StartInv /\ [StartNext]_startVars => StartInv'
  <2> SUFFICES ASSUME StartInv, [StartNext]_startVars PROVE StartInv'
    BY Zenon
  <2>1. CASE UNCHANGED startVars
    BY <2>1, Zenon DEF startVars, StartInv, StartOrder, StartTypeOK, OnlineRuns, AnswerIsRight
  <2>2. CASE Release
    BY <2>2, Zenon DEF Release, StartInv, StartOrder, StartTypeOK, OnlineRuns, AnswerIsRight
  <2>3. ASSUME NEW a \in Ap,
               StartCpu(a) \/ Unknown(a) \/ Poll(a) \/ TimeOut(a) \/ GiveUp(a)
        PROVE  StartInv'
    BY <2>3, BootCpuKeeps, Zenon
  <2>4. ASSUME NEW a \in Ap, Boot(a) \/ Fail(a) \/ PublishIdle(a) \/ Run(a)
        PROVE  StartInv'
    BY <2>4, ApKeeps, Zenon
  <2> QED
    BY <2>1, <2>2, <2>3, <2>4, Zenon DEF StartNext
<1> QED
  BY <1>1, StartInitially, PTL DEF StartSpec

(* A processor schedules if and only if it counts as online, for every     *)
(* number of processors.                                                   *)
THEOREM OnlineProcessorsRun == StartSpec => []OnlineRuns
BY StartInvariant, PTL DEF StartInv

(* smp_start_cpu and the processor agree on whether it came up, whichever  *)
(* of the timeout and cpu_publish_idle is first.                           *)
THEOREM AnswersAreRight == StartSpec => []AnswerIsRight
BY StartInvariant, PTL DEF StartInv

-----------------------------------------------------------------------------
(* Translations.  NoFreedTranslation and Coherent speak of the moments     *)
(* when vmm_lock is free or its holder frees frames.  What carries them    *)
(* through a shootdown is TakenBack: a processor that has acknowledged the *)
(* generation under way, or has flushed for it and is about to, sees the   *)
(* page table as the holder of the lock left it.                           *)

(* The shootdowns that the bound has been promised to. *)
Pending == {c \in Cpu : pc[c] \in {"want", "edited"}}

(* What the processor keeps, if anything, is what its page table says. *)
Faithful(c) ==
  tlb[c] # Empty =>
    /\ cr3[c] # Kernel /\ pte[cr3[c]] # Empty
    /\ tlb[c].frame = pte[cr3[c]].frame
    /\ tlb[c].writable => pte[cr3[c]].writable

LocksHeld ==
  /\ \A c \in Cpu : pc[c] = "free" => vmm_lock = c
  /\ \A c \in Cpu : pc[c] = "post" => tlb_lock = c
  /\ \A c \in Cpu : vmm_lock = c => pc[c] \notin {"run", "want"}

InOrder ==
  /\ \A c, d \in Cpu : cr3[c] = cr3[d] /\ cr3[c] # Kernel => c = d
  /\ \A c \in Cpu : seen[c] <= tlb_request[c]
  /\ tlb_generation + Cardinality(Pending) <= MaxGen

MappedIsUsed == \A s \in Space : pte[s] # Empty => pte[s].frame \in used

TakenBack ==
  /\ vmm_lock = NoCpu => \A d \in Cpu : Faithful(d)
  /\ \A c \in Cpu : pc[c] = "free" => \A d \in Cpu : Faithful(d)
  /\ \A c \in Cpu : pc[c] = "post" /\ vmm_lock = c =>
       /\ Faithful(c)
       /\ \A d \in Cpu : tlb_ack[d] = tlb_generation => Faithful(d)
       /\ \A d \in Cpu : handler[d] = "ack" /\ seen[d] = tlb_generation => Faithful(d)

TlbInv ==
  TypeOK /\ LocksHeld /\ InOrder /\ MappedIsUsed /\ TakenBack /\ NoFreedTranslation

(* The steps of a panic; those of the others that leave the page tables    *)
(* alone; and those that do not.                                           *)
PanicStep(c) ==
  \/ Panic(c) \/ Raise(c) \/ StopOthers(c) \/ StopsSent(c)
  \/ \E d \in Cpu : SendStop(c, d)

OtherStep(c) ==
  \/ Fill(c) \/ Begin(c) \/ Mmio(c) \/ Shoot(c) \/ Finish(c) \/ Free(c)
  \/ Nmi(c) \/ NmiFlush(c) \/ NmiAck(c) \/ PanicStep(c)
  \/ \E s \in Space \cup {Kernel} : Switch(c, s)
  \/ \E d \in Cpu : Post(c, d)

TableStep(c) ==
  CowFault(c) \/ \E s \in Space : Map(c, s) \/ Remove(c, s) \/ Clone(c, s)

Step(c) == OtherStep(c) \/ TableStep(c)

(* At first nothing is mapped and nothing is kept. *)
LEMMA TlbInitially == Init => TlbInv
<1> SUFFICES ASSUME Init PROVE TlbInv
  BY Zenon
<1>1. Pending = {} /\ Cardinality(Pending) = 0
  BY FS_EmptySet, Zenon DEF Init, Pending
<1>2. TypeOK
  <2>1. /\ tlb_generation \in 0 .. MaxGen
        /\ tlb_request \in [Cpu -> 0 .. MaxGen] /\ tlb_ack \in [Cpu -> 0 .. MaxGen]
        /\ seen \in [Cpu -> 0 .. MaxGen]
        /\ \A c \in Cpu : tlb_ack[c] <= tlb_request[c] /\ tlb_request[c] <= tlb_generation
    BY TlbAssumption DEF Init
  <2>2. /\ cr3 \in [Cpu -> Space \cup {Kernel}]
        /\ pte \in [Space -> Entry \cup {Empty}] /\ tlb \in [Cpu -> Entry \cup {Empty}]
        /\ victim \in [Cpu -> SUBSET Frame] /\ todo \in [Cpu -> SUBSET Cpu]
    BY Zenon DEF Init
  <2> QED
    BY <2>1, <2>2, Zenon DEF Init, TypeOK
<1>3. LocksHeld /\ MappedIsUsed /\ TakenBack /\ NoFreedTranslation
  BY TlbAssumption, Zenon DEF Init, LocksHeld, MappedIsUsed, TakenBack, Faithful, NoFreedTranslation
<1>4. InOrder
  BY <1>1, TlbAssumption DEF Init, InOrder
<1> QED
  BY <1>2, <1>3, <1>4, Zenon DEF TlbInv

(* A processor that moves on is added to or taken from the promised        *)
(* shootdowns once.                                                        *)
LEMMA PendingMoves ==
  ASSUME TypeOK, NEW c \in Cpu, NEW l, Goto(c, l)
  PROVE  /\ Cardinality(Pending) \in Nat
         /\ Cardinality(Pending') =
              Cardinality(Pending) + (IF l \in {"want", "edited"} THEN 1 ELSE 0)
                                   - (IF pc[c] \in {"want", "edited"} THEN 1 ELSE 0)
<1>1. IsFiniteSet(Pending) /\ Cardinality(Pending) \in Nat
  BY TlbAssumption, FS_Subset, FS_CardinalityType, Zenon DEF Pending
<1>2. Pending' = IF l \in {"want", "edited"} THEN Pending \cup {c} ELSE Pending \ {c}
  BY Zenon DEF Pending, Goto, TypeOK
<1>3. c \in Pending <=> pc[c] \in {"want", "edited"}
  BY Zenon DEF Pending
<1>4. Cardinality(Pending \cup {c}) = IF c \in Pending THEN Cardinality(Pending)
                                                     ELSE Cardinality(Pending) + 1
  BY <1>1, FS_AddElement, Zenon
<1>5. Cardinality(Pending \ {c}) = IF c \in Pending THEN Cardinality(Pending) - 1
                                                    ELSE Cardinality(Pending)
  BY <1>1, FS_RemoveElement, Zenon
<1> QED
  BY <1>1, <1>2, <1>3, <1>4, <1>5

(* cow_resolve_slot gives the space of the processor a writable entry, of  *)
(* the frame it has or of one that was free.                               *)
LEMMA CowResolves ==
  ASSUME TypeOK, MappedIsUsed, NEW c \in Cpu, CowFault(c)
  PROVE  /\ cr3[c] \in Space
         /\ \E e \in Entry : pte' = [pte EXCEPT ![cr3[c]] = e] /\ e.frame \in used'
         /\ used \subseteq used' /\ used' \subseteq Frame
<1> DEFINE s == cr3[c]
<1>1. s \in Space /\ pte[s] \in Entry /\ pte[s].frame \in used
  BY Zenon DEF CowFault, TypeOK, MappedIsUsed
<1>2. \/ pte' = [pte EXCEPT ![s].writable = TRUE] /\ used' = used
      \/ \E f \in Frame : /\ pte' = [pte EXCEPT ![s] = [frame |-> f, writable |-> TRUE]]
                          /\ used' = used \cup {f}
  BY Zenon DEF CowFault
<1>3. CASE pte' = [pte EXCEPT ![s].writable = TRUE] /\ used' = used
  <2>1. [pte[s] EXCEPT !.writable = TRUE] \in Entry
    BY <1>1, Zenon DEF Entry
  <2>2. [pte[s] EXCEPT !.writable = TRUE].frame = pte[s].frame
    BY <1>1, Zenon DEF Entry
  <2>3. pte' = [pte EXCEPT ![s] = [pte[s] EXCEPT !.writable = TRUE]]
    BY <1>3, Zenon
  <2> QED
    BY <1>1, <1>3, <2>1, <2>2, <2>3, ZenonT(60) DEF TypeOK
<1>4. ASSUME NEW f \in Frame, pte' = [pte EXCEPT ![s] = [frame |-> f, writable |-> TRUE]],
             used' = used \cup {f}
      PROVE  /\ \E e \in Entry : pte' = [pte EXCEPT ![s] = e] /\ e.frame \in used'
             /\ used \subseteq used' /\ used' \subseteq Frame
  <2>1. [frame |-> f, writable |-> TRUE] \in Entry
    BY Zenon DEF Entry
  <2> QED
    BY <1>4, <2>1, Zenon DEF TypeOK
<1> QED
  BY <1>1, <1>2, <1>3, <1>4, Zenon

(* The page tables, the locks and the bound keep their types. *)
LEMMA TypeKept ==
  ASSUME TypeOK, InOrder, MappedIsUsed, NEW c \in Cpu, Step(c)
  PROVE  TypeOK'
<1>1. CASE Fill(c)
  BY <1>1, TlbAssumption, Zenon DEF Fill, TypeOK, shootVars, nmiVars, panicVars
<1>2. CASE Begin(c)
  BY <1>2, TlbAssumption, Zenon DEF Begin, Goto, TypeOK, memVars, shootVars, nmiVars, panicVars
<1>3. CASE CowFault(c)
  <2>1. pte' \in [Space -> Entry \cup {Empty}] /\ used' \in SUBSET Frame
    BY <1>3, CowResolves, Zenon DEF TypeOK
  <2> QED
    BY <1>3, <2>1, Zenon DEF CowFault, Invalidated, Dropped, TypeOK, shootVars, nmiVars, panicVars
<1>4. CASE Mmio(c)
  BY <1>4, TlbAssumption, Zenon DEF Mmio, Goto, TypeOK, memVars, shootVars, nmiVars, panicVars
<1>5. CASE Shoot(c)
  <2>1. Cardinality(Pending) \in Nat /\ Cardinality(Pending') = Cardinality(Pending) - 1
    BY <1>5, PendingMoves DEF Shoot
  <2>2. Cardinality(Pending') \in Nat
    BY <1>5, TlbAssumption, FS_Subset, FS_CardinalityType, Zenon DEF Pending
  <2>3. tlb_generation + 1 \in 0 .. MaxGen
    BY <2>1, <2>2, TlbAssumption DEF InOrder, TypeOK
  <2> QED
    BY <1>5, <2>3 DEF Shoot, Goto, Dropped, TypeOK, nmiVars, panicVars
<1>6. CASE Finish(c)
  BY <1>6, TlbAssumption, Zenon DEF Finish, Goto, TypeOK, memVars, nmiVars, panicVars
<1>7. CASE Free(c)
  BY <1>7, TlbAssumption, Zenon DEF Free, Goto, TypeOK, shootVars, nmiVars, panicVars
<1>8. CASE Nmi(c)
  BY <1>8, TlbAssumption, Zenon DEF Nmi, MustStop, TypeOK, memVars, shootVars, panicVars
<1>9. CASE NmiFlush(c)
  BY <1>9, TlbAssumption, Zenon DEF NmiFlush, Dropped, TypeOK, shootVars, panicVars
<1>10. CASE NmiAck(c)
  BY <1>10, TlbAssumption, Zenon DEF NmiAck, Acknowledged, InOrder, TypeOK, memVars, shootVars, panicVars
<1>11. CASE Panic(c)
  BY <1>11, TlbAssumption, Zenon DEF Panic, Goto, TypeOK, memVars, shootVars, nmiVars, panicVars
<1>12. CASE StopsSent(c)
  BY <1>12, TlbAssumption, Zenon DEF StopsSent, Goto, TypeOK, memVars, shootVars, nmiVars, panicVars
<1>13. CASE Raise(c)
  BY <1>13, TlbAssumption, Zenon DEF Raise, Goto, TypeOK, memVars, shootVars, nmiVars
<1>14. CASE StopOthers(c)
  BY <1>14, TlbAssumption, Zenon DEF StopOthers, Goto, TypeOK, memVars, nmiVars
<1>15. ASSUME NEW d \in Cpu, SendStop(c, d) PROVE TypeOK'
  BY <1>15, TlbAssumption, Zenon DEF SendStop, TypeOK, memVars, nmiVars, panicVars
<1>16. ASSUME NEW s \in Space \cup {Kernel}, Switch(c, s) PROVE TypeOK'
  BY <1>16, TlbAssumption, Zenon DEF Switch, Dropped, TypeOK, shootVars, nmiVars, panicVars
<1>17. ASSUME NEW s \in Space, Map(c, s) PROVE TypeOK'
  BY <1>17, TlbAssumption DEF Map, Edit, Goto, TypeOK, Entry, shootVars, nmiVars, panicVars
<1>18. ASSUME NEW s \in Space, Remove(c, s) PROVE TypeOK'
  BY <1>18, TlbAssumption, Zenon DEF Remove, Edit, Goto, Dropped, TypeOK, Entry, shootVars, nmiVars, panicVars
<1>19. ASSUME NEW s \in Space, Clone(c, s) PROVE TypeOK'
  BY <1>19, TlbAssumption, ZenonT(60) DEF Clone, Edit, Goto, TypeOK, Entry, shootVars, nmiVars, panicVars
<1>20. ASSUME NEW d \in Cpu, Post(c, d) PROVE TypeOK'
  BY <1>20, TlbAssumption DEF Post, TypeOK, memVars, nmiVars, panicVars
<1> QED
  BY <1>1, <1>2, <1>3, <1>4, <1>5, <1>6, <1>7, <1>8, <1>9, <1>10, <1>11, <1>12, <1>13, <1>14,
     <1>15, <1>16, <1>17, <1>18, <1>19, <1>20, Zenon DEF Step, OtherStep, PanicStep, TableStep

(* A step of a panic changes only where its own processor is, and that to  *)
(* a stage of a panic.                                                     *)
LEMMA PanicGoesOn ==
  ASSUME TypeOK, NEW c \in Cpu, PanicStep(c)
  PROVE  /\ \A d \in Cpu : pc'[d] \notin PanicStages => pc'[d] = pc[d]
         /\ UNCHANGED <<memVars, tlb_lock, tlb_generation, tlb_request, nmiVars, vmm_lock, victim>>
         /\ pc' = pc \/ \E l \in PanicStages : Goto(c, l)
<1>1. /\ UNCHANGED <<memVars, tlb_lock, tlb_generation, tlb_request, nmiVars, vmm_lock, victim>>
      /\ pc' = pc \/ \E l \in PanicStages : Goto(c, l)
  BY Zenon DEF PanicStep, Panic, Raise, StopOthers, StopsSent, SendStop, PanicStages, shootVars
<1> QED
  BY <1>1, Zenon DEF Goto, TypeOK

(* Who holds which lock follows from how far the processors are. *)
LEMMA LocksKept ==
  ASSUME TlbInv, NEW c \in Cpu, Step(c)
  PROVE  LocksHeld'
<1> USE TlbAssumption DEF TlbInv, TypeOK, LocksHeld
<1>1. CASE Fill(c) \/ Nmi(c) \/ NmiFlush(c) \/ NmiAck(c) \/ CowFault(c)
  BY <1>1, Zenon DEF Fill, Nmi, NmiFlush, NmiAck, CowFault, shootVars
<1>2. CASE Begin(c) \/ Mmio(c)
  BY <1>2 DEF Begin, Mmio, Goto, shootVars
<1>3. CASE PanicStep(c)
  <2>1. {"free", "post", "run", "want"} \cap PanicStages = {}
    BY DEF PanicStages
  <2>2. /\ UNCHANGED <<vmm_lock, tlb_lock>>
        /\ \A d \in Cpu : pc'[d] \in {"free", "post", "run", "want"} => pc'[d] = pc[d]
    BY <1>3, <2>1, PanicGoesOn, Zenon
  <2> QED
    BY <2>2, Zenon
<1>4. CASE Shoot(c)
  BY <1>4, Zenon DEF Shoot, Goto
<1>5. CASE Finish(c)
  BY <1>5, Zenon DEF Finish, Goto
<1>6. CASE Free(c)
  BY <1>6, Zenon DEF Free, Goto, shootVars
<1>7. ASSUME NEW s \in Space \cup {Kernel}, Switch(c, s) PROVE LocksHeld'
  BY <1>7, Zenon DEF Switch, shootVars
<1>8. ASSUME NEW s \in Space, Map(c, s) \/ Remove(c, s) \/ Clone(c, s) PROVE LocksHeld'
  BY <1>8 DEF Map, Remove, Clone, Edit, Goto, shootVars
<1>9. ASSUME NEW d \in Cpu, Post(c, d) PROVE LocksHeld'
  BY <1>9, Zenon DEF Post
<1> QED
  BY <1>1, <1>2, <1>3, <1>4, <1>5, <1>6, <1>7, <1>8, <1>9, Zenon DEF Step, OtherStep, TableStep

(* A space is in one CR3, the handler has read no request that was not     *)
(* made, and the bound on shootdowns is kept.                              *)
LEMMA OrderKept ==
  ASSUME TlbInv, NEW c \in Cpu, Step(c)
  PROVE  InOrder'
<1> USE TlbAssumption DEF TlbInv, TypeOK, InOrder
<1>1. CASE Fill(c) \/ Nmi(c) \/ NmiFlush(c) \/ NmiAck(c) \/ CowFault(c)
  <2>1. UNCHANGED <<cr3, pc, tlb_generation, tlb_request>>
    BY <1>1, ZenonT(60) DEF Fill, Nmi, NmiFlush, NmiAck, CowFault, memVars, shootVars
  <2>2. \A d \in Cpu : seen'[d] \in {seen[d], tlb_request[d]}
    BY <1>1 DEF Fill, Nmi, NmiFlush, NmiAck, CowFault, nmiVars
  <2>3. Pending' = Pending
    BY <2>1, Zenon DEF Pending
  <2> QED
    BY <2>1, <2>2, <2>3
<1>2. CASE Begin(c) \/ Mmio(c)
  <2>1. /\ UNCHANGED <<cr3, tlb_generation, tlb_request, seen>>
        /\ pc[c] = "run" /\ (Goto(c, "want") \/ Goto(c, "edited"))
        /\ tlb_generation + Cardinality(Pending) < MaxGen
    BY <1>2, Zenon DEF Begin, Mmio, Room, Pending, memVars, shootVars, nmiVars
  <2>2. Cardinality(Pending) \in Nat /\ Cardinality(Pending') = Cardinality(Pending) + 1
    BY <2>1, PendingMoves
  <2> QED
    BY <2>1, <2>2
<1>3. CASE Shoot(c)
  <2>1. /\ UNCHANGED <<cr3, tlb_request, seen>> /\ pc[c] = "edited" /\ Goto(c, "post")
        /\ tlb_generation' = tlb_generation + 1
    BY <1>3, Zenon DEF Shoot, nmiVars
  <2>2. Cardinality(Pending) \in Nat /\ Cardinality(Pending') = Cardinality(Pending) - 1
    BY <2>1, PendingMoves
  <2> QED
    BY <2>1, <2>2
<1>4. CASE PanicStep(c) /\ pc' = pc
  <2>1. UNCHANGED <<cr3, tlb_generation, tlb_request, seen>>
    BY <1>4, PanicGoesOn, Zenon DEF memVars, nmiVars
  <2>2. Pending' = Pending
    BY <1>4, Zenon DEF Pending
  <2> QED
    BY <2>1, <2>2, Zenon
<1>5. CASE Finish(c) \/ Free(c) \/ (PanicStep(c) /\ pc' # pc)
  <2>1. /\ UNCHANGED <<cr3, tlb_generation, tlb_request, seen>>
        /\ \E l \in {"run", "free"} \cup PanicStages : Goto(c, l)
    BY <1>5, PanicGoesOn, Zenon DEF Finish, Free, memVars, shootVars, nmiVars
  <2>2. Cardinality(Pending) \in Nat
    BY <2>1, PendingMoves, Zenon
  <2>3. Cardinality(Pending') \in {Cardinality(Pending), Cardinality(Pending) - 1}
    BY <2>1, <2>2, PendingMoves DEF PanicStages
  <2> QED
    BY <2>1, <2>2, <2>3
<1>6. ASSUME NEW s \in Space \cup {Kernel}, Switch(c, s) PROVE InOrder'
  <2>1. UNCHANGED <<pc, tlb_generation, tlb_request, seen>>
    BY <1>6, Zenon DEF Switch, shootVars, nmiVars
  <2>2. Pending' = Pending
    BY <2>1, Zenon DEF Pending
  <2> QED
    BY <1>6, <2>1, <2>2, Zenon DEF Switch
<1>7. ASSUME NEW s \in Space, Map(c, s) \/ Remove(c, s) \/ Clone(c, s) PROVE InOrder'
  <2>1. /\ UNCHANGED <<cr3, tlb_generation, tlb_request, seen>>
        /\ pc[c] = "want" /\ Goto(c, "edited")
    BY <1>7, Zenon DEF Map, Remove, Clone, Edit, shootVars, nmiVars
  <2>2. Cardinality(Pending) \in Nat /\ Cardinality(Pending') = Cardinality(Pending)
    BY <2>1, PendingMoves
  <2> QED
    BY <2>1, <2>2, Zenon
<1>8. ASSUME NEW d \in Cpu, Post(c, d) PROVE InOrder'
  <2>1. UNCHANGED <<cr3, pc, tlb_generation, seen>>
    BY <1>8, Zenon DEF Post, memVars, nmiVars
  <2>2. Pending' = Pending
    BY <2>1, Zenon DEF Pending
  <2> QED
    BY <1>8, <2>1, <2>2 DEF Post
<1> QED
  BY <1>1, <1>2, <1>3, <1>4, <1>5, <1>6, <1>7, <1>8, ZenonT(60) DEF Step, OtherStep, TableStep

(* What is mapped is not free. *)
LEMMA MappedKept ==
  ASSUME TlbInv, NEW c \in Cpu, Step(c)
  PROVE  MappedIsUsed'
<1>1. CASE UNCHANGED <<pte, used>>
  BY <1>1, Zenon DEF TlbInv, MappedIsUsed
<1>2. CASE Free(c)
  BY <1>2, Zenon DEF Free, TlbInv, MappedIsUsed
<1>3. CASE CowFault(c)
  BY <1>3, CowResolves, Zenon DEF TlbInv, TypeOK, MappedIsUsed
<1>4. ASSUME NEW s \in Space, Map(c, s) PROVE MappedIsUsed'
  BY <1>4 DEF Map, Edit, TlbInv, TypeOK, MappedIsUsed
<1>5. ASSUME NEW s \in Space, Remove(c, s) PROVE MappedIsUsed'
  BY <1>5, Zenon DEF Remove, Edit, TlbInv, TypeOK, MappedIsUsed
<1>6. ASSUME NEW s \in Space, Clone(c, s) PROVE MappedIsUsed'
  BY <1>6, Zenon DEF Clone, Edit, TlbInv, TypeOK, MappedIsUsed
<1>7. OtherStep(c) => Free(c) \/ UNCHANGED <<pte, used>>
  BY PanicGoesOn, Zenon DEF TlbInv, OtherStep, Fill, Begin, Mmio, Shoot, Finish, Nmi, NmiFlush, NmiAck,
         Switch, Post, memVars
<1> QED
  BY <1>1, <1>2, <1>3, <1>4, <1>5, <1>6, <1>7, Zenon DEF Step, TableStep

(* While the tables stay as they are, so does every processor that sees    *)
(* what they say.                                                          *)
LEMMA FaithfulKept ==
  ASSUME TlbInv, NEW c \in Cpu, OtherStep(c), NEW d \in Cpu
  PROVE  /\ pte' = pte
         /\ tlb'[d] = Empty \/ Faithful(d) => Faithful(d)'
<1>1. pte' = pte
  BY PanicGoesOn, Zenon DEF TlbInv, OtherStep, Fill, Begin, Mmio, Shoot, Finish, Free, Nmi, NmiFlush,
         NmiAck, Switch, Post, memVars
<1>2. CASE tlb'[d] = Empty
  BY <1>1, <1>2, Zenon DEF Faithful
<1>3. CASE UNCHANGED <<cr3, tlb>>
  BY <1>1, <1>3, Zenon DEF Faithful
<1>4. CASE Fill(c)
  BY <1>1, <1>4, Zenon DEF Fill, Faithful, TlbInv, TypeOK
<1>5. CASE Shoot(c) \/ NmiFlush(c)
  BY <1>1, <1>5, Zenon DEF Shoot, NmiFlush, Dropped, Faithful, TlbInv, TypeOK
<1>6. ASSUME NEW s \in Space \cup {Kernel}, Switch(c, s), Faithful(d) PROVE Faithful(d)'
  BY <1>1, <1>6, Zenon DEF Switch, Dropped, Faithful, TlbInv, TypeOK
<1>7. \/ UNCHANGED <<cr3, tlb>> \/ Fill(c) \/ Shoot(c) \/ NmiFlush(c)
      \/ \E s \in Space \cup {Kernel} : Switch(c, s)
  BY PanicGoesOn, Zenon DEF TlbInv, OtherStep, Begin, Mmio, Finish, Free, Nmi, NmiAck, Post, memVars
<1> QED
  BY <1>1, <1>2, <1>3, <1>4, <1>5, <1>6, <1>7, Zenon

(* The shootdown reaches everybody. *)
LEMMA TakenBackKept ==
  ASSUME TlbInv, NEW c \in Cpu, Step(c)
  PROVE  TakenBack'
<1> USE TlbAssumption DEF TlbInv
<1>1. CASE Fill(c) \/ (\E s \in Space \cup {Kernel} : Switch(c, s))
  <2>1. /\ UNCHANGED <<vmm_lock, pc, tlb_ack, tlb_generation, handler, seen>>
        /\ OtherStep(c)
    BY <1>1, Zenon DEF OtherStep, Fill, Switch, shootVars, nmiVars
  <2> QED
    BY <2>1, FaithfulKept, Zenon DEF TakenBack
<1>2. CASE Begin(c) \/ Mmio(c) \/ PanicStep(c)
  <2>1. /\ UNCHANGED <<vmm_lock, tlb_ack, tlb_generation, handler, seen>>
        /\ \A d \in Cpu : pc'[d] \in {"free", "post"} => pc[d] = pc'[d]
        /\ OtherStep(c)
    <3>1. CASE Begin(c) \/ Mmio(c)
      BY <3>1 DEF OtherStep, Begin, Mmio, Goto, shootVars, nmiVars, TypeOK
    <3>2. CASE PanicStep(c)
      <4>1. {"free", "post"} \cap PanicStages = {}
        BY DEF PanicStages
      <4> QED
        BY <3>2, <4>1, PanicGoesOn, Zenon DEF OtherStep, nmiVars
    <3> QED
      BY <1>2, <3>1, <3>2, Zenon
  <2> QED
    BY <2>1, FaithfulKept, ZenonT(60) DEF TakenBack
<1>3. CASE Shoot(c)
  <2>1. /\ UNCHANGED <<vmm_lock, tlb_ack, handler, seen>>
        /\ tlb_lock = NoCpu /\ tlb_generation' = tlb_generation + 1
        /\ pc' = [pc EXCEPT ![c] = "post"] /\ tlb'[c] = Empty /\ OtherStep(c)
    BY <1>3, Zenon DEF Shoot, Goto, Dropped, nmiVars, OtherStep, TypeOK
  <2>2. \A d \in Cpu : tlb_ack[d] # tlb_generation + 1 /\ seen[d] # tlb_generation + 1
    BY DEF TypeOK, InOrder
  <2>3. \A d \in Cpu : pc[d] # "post"
    BY <2>1, Zenon DEF LocksHeld
  <2>4. /\ vmm_lock = NoCpu => \A d \in Cpu : Faithful(d)'
        /\ \A e \in Cpu : pc[e] = "free" => \A d \in Cpu : Faithful(d)'
        /\ Faithful(c)'
    BY <2>1, FaithfulKept, Zenon DEF TakenBack
  <2> QED
    BY <2>1, <2>2, <2>3, <2>4, Zenon DEF TakenBack, TypeOK
<1>4. CASE Finish(c)
  <2>1. /\ UNCHANGED <<vmm_lock, tlb_ack, tlb_generation, handler, seen>>
        /\ pc[c] = "post" /\ AllAcked(c) /\ OtherStep(c)
        /\ pc' = [pc EXCEPT ![c] = IF vmm_lock = c THEN "free" ELSE "run"]
    BY <1>4, Zenon DEF Finish, Goto, nmiVars, OtherStep
  <2>2. vmm_lock = c => \A d \in Cpu : Faithful(d)
    BY <2>1, Zenon DEF TakenBack, AllAcked
  <2>3. \A d \in Cpu : Faithful(d) => Faithful(d)'
    BY <2>1, FaithfulKept, Zenon
  <2> QED
    BY <2>1, <2>2, <2>3, Zenon DEF TakenBack, TypeOK
<1>5. CASE Free(c)
  <2>1. /\ UNCHANGED <<tlb_ack, tlb_generation, handler, seen>>
        /\ pc[c] = "free" /\ pc' = [pc EXCEPT ![c] = "run"] /\ OtherStep(c)
        /\ vmm_lock' = NoCpu
    BY <1>5, Zenon DEF Free, Goto, shootVars, nmiVars, OtherStep
  <2>2. \A d \in Cpu : Faithful(d)'
    BY <2>1, FaithfulKept, Zenon DEF TakenBack
  <2> QED
    BY <2>1, <2>2, Zenon DEF TakenBack
<1>6. CASE Nmi(c) \/ NmiFlush(c)
  <2>1. /\ UNCHANGED <<vmm_lock, pc, tlb_ack, tlb_generation>> /\ OtherStep(c)
        /\ \A d \in Cpu : handler'[d] = "ack" =>
             (handler[d] = "ack" /\ seen'[d] = seen[d]) \/ tlb'[d] = Empty
    BY <1>6 DEF Nmi, NmiFlush, Dropped, OtherStep, shootVars, TypeOK
  <2> QED
    BY <2>1, FaithfulKept, Zenon DEF TakenBack
<1>7. CASE NmiAck(c)
  <2>1. /\ UNCHANGED <<vmm_lock, pc, tlb_generation, seen>> /\ OtherStep(c)
        /\ \A d \in Cpu : tlb_ack'[d] = tlb_ack[d] \/ (handler[d] = "ack" /\ tlb_ack'[d] = seen[d])
        /\ \A d \in Cpu : handler'[d] = "ack" => handler[d] = "ack"
    BY <1>7, Zenon DEF NmiAck, Acknowledged, OtherStep, shootVars, TypeOK
  <2> QED
    BY <2>1, FaithfulKept, Zenon DEF TakenBack
<1>8. ASSUME NEW d \in Cpu, Post(c, d) PROVE TakenBack'
  <2>1. UNCHANGED <<vmm_lock, pc, tlb_ack, tlb_generation, handler, seen>> /\ OtherStep(c)
    BY <1>8, Zenon DEF Post, OtherStep, nmiVars
  <2> QED
    BY <2>1, FaithfulKept, Zenon DEF TakenBack
<1>9. CASE CowFault(c)
  <2>1. /\ UNCHANGED <<vmm_lock, pc, cr3>> /\ vmm_lock = NoCpu
        /\ cr3[c] \in Space /\ tlb' = [tlb EXCEPT ![c] = Empty]
    BY <1>9, CowResolves, ZenonT(60) DEF CowFault, Invalidated, Dropped
  <2>2. \A s \in Space : s # cr3[c] => pte'[s] = pte[s]
    BY <1>9, CowResolves DEF TypeOK
  <2>3. ASSUME NEW d \in Cpu PROVE Faithful(d)'
    <3>1. CASE d = c
      BY <2>1, <3>1, Zenon DEF Faithful, TypeOK
    <3>2. CASE d # c
      <4>1. tlb[d] # Empty => cr3[d] # cr3[c] /\ cr3[d] \in Space
        BY <2>1, <3>2 DEF InOrder, TakenBack, Faithful, TypeOK
      <4> QED
        BY <2>1, <2>2, <3>2, <4>1, ZenonT(60) DEF TakenBack, Faithful, TypeOK
    <3> QED
      BY <3>1, <3>2, Zenon
  <2> QED
    BY <2>1, <2>3, Zenon DEF TakenBack
<1>10. ASSUME NEW s \in Space, Map(c, s) \/ Remove(c, s) \/ Clone(c, s) PROVE TakenBack'
  <2>1. vmm_lock = NoCpu /\ vmm_lock' = c /\ pc' = [pc EXCEPT ![c] = "edited"]
    BY <1>10, Zenon DEF Map, Remove, Clone, Edit, Goto
  <2> QED
    BY <2>1, Zenon DEF TakenBack, LocksHeld, TypeOK
<1> QED
  BY <1>1, <1>2, <1>3, <1>4, <1>5, <1>6, <1>7, <1>8, <1>9, <1>10, Zenon DEF Step, OtherStep, TableStep

(* No processor keeps a translation to a frame that is free. *)
LEMMA NoFreedKept ==
  ASSUME TlbInv, NEW c \in Cpu, Step(c)
  PROVE  NoFreedTranslation'
<1>1. CASE used \subseteq used' /\ \A d \in Cpu : tlb'[d] \in {tlb[d], Empty}
  BY <1>1, Zenon DEF TlbInv, NoFreedTranslation
<1>2. CASE Free(c)
  <2>1. \A d \in Cpu : Faithful(d)' /\ cr3'[d] \in Space \cup {Kernel}
    BY <1>2, FaithfulKept, Zenon DEF Free, OtherStep, TlbInv, TypeOK, TakenBack
  <2> QED
    BY <2>1, MappedKept, Zenon DEF Faithful, MappedIsUsed, NoFreedTranslation
<1>3. CASE Fill(c)
  BY <1>3 DEF Fill, TlbInv, TypeOK, MappedIsUsed, NoFreedTranslation
<1>4. CASE CowFault(c)
  <2>1. used \subseteq used' /\ \A d \in Cpu : tlb'[d] \in {tlb[d], Empty}
    BY <1>4, CowResolves, Zenon DEF CowFault, Invalidated, Dropped, TlbInv, TypeOK
  <2> QED
    BY <1>1, <2>1, Zenon
<1>5. ASSUME NEW s \in Space, Map(c, s) \/ Remove(c, s) \/ Clone(c, s)
      PROVE  used \subseteq used' /\ \A d \in Cpu : tlb'[d] \in {tlb[d], Empty}
  BY <1>5, Zenon DEF Map, Remove, Clone, Edit, Dropped, TlbInv, TypeOK
<1>6. CASE OtherStep(c) /\ ~Free(c) /\ ~Fill(c)
  <2>1. used' = used /\ (UNCHANGED tlb \/ tlb' = Dropped(c))
    BY <1>6, PanicGoesOn, Zenon DEF TlbInv, OtherStep, Begin, Mmio, Shoot, Finish, Nmi, NmiFlush,
                NmiAck, Switch, Post, memVars
  <2> QED
    BY <1>1, <2>1, Zenon DEF Dropped, TlbInv, TypeOK
<1> QED
  BY <1>1, <1>2, <1>3, <1>4, <1>5, <1>6, Zenon DEF Step, TableStep

(* The invariant holds of every state. *)
THEOREM TlbInvariant == Spec => []TlbInv
<1>1. TlbInv /\ [Next]_vars => TlbInv'
  <2> SUFFICES ASSUME TlbInv, [Next]_vars PROVE TlbInv'
    BY Zenon
  <2>1. CASE UNCHANGED vars
    <3>1. Pending' = Pending
      BY <2>1, Zenon DEF vars, Pending
    <3>2. TypeOK' /\ NoFreedTranslation' /\ MappedIsUsed' /\ LocksHeld' /\ InOrder'
      BY <2>1, <3>1, Zenon DEF vars, memVars, shootVars, nmiVars, panicVars, TlbInv, TypeOK, LocksHeld,
                        InOrder, MappedIsUsed, NoFreedTranslation
    <3>3. TakenBack'
      BY <2>1, Zenon DEF vars, memVars, shootVars, nmiVars, TlbInv, TakenBack, Faithful
    <3> QED
      BY <3>2, <3>3, Zenon DEF TlbInv
  <2>2. ASSUME NEW c \in Cpu, Step(c) PROVE TlbInv'
    BY <2>2, TypeKept, LocksKept, OrderKept, MappedKept, TakenBackKept, NoFreedKept, Zenon DEF TlbInv
  <2> QED
    BY <2>1, <2>2, Zenon DEF Next, Step, OtherStep, PanicStep, TableStep
<1> QED
  BY <1>1, TlbInitially, PTL DEF Spec

(* The bound on shootdowns and the order of requests and acknowledgements, *)
(* tlb_ack <= tlb_request <= tlb_generation, hold in every state.          *)
THEOREM TlbTypeCorrect == Spec => []TypeOK
BY TlbInvariant, PTL DEF TlbInv

(* vmm_unmap_range and the other users of smp_tlb_shootdown free a frame   *)
(* only when no processor keeps a translation to it, for every number of   *)
(* processors.                                                             *)
THEOREM FreedAreForgotten == Spec => []NoFreedTranslation
BY TlbInvariant, PTL DEF TlbInv

(* While vmm_lock is free every processor sees the page table of its       *)
(* space: the local invlpg of cow_resolve_slot needs no shootdown.         *)
THEOREM TranslationsAgree == Spec => []Coherent
<1>1. TlbInv => Coherent
  BY Zenon DEF TlbInv, TakenBack, Faithful, Coherent
<1> QED
  BY <1>1, TlbInvariant, PTL

-----------------------------------------------------------------------------
(* Stopping.  An NMI that is under way stops its processor if it finds the *)
(* bit in stop_mask, which is set before the first NMI is sent.            *)

Told(d) == d \in stopped_mask \/ (d \in nmi /\ d \in stop_mask)

StopInv ==
  /\ \A c \in Cpu : pc[c] = "send" =>
       \A d \in Cpu \ {c} : d \in stop_mask /\ (d \in todo[c] \/ Told(d))
  /\ \A c \in Cpu : pc[c] = "panic" => \A d \in Cpu \ {c} : Told(d)

(* A step takes no processor out of the masks, and an NMI that is taken    *)
(* has stopped its processor if the processor was to be stopped.           *)
LEMMA ToldStays ==
  ASSUME TypeOK, NEW c \in Cpu, Step(c), NEW d \in Cpu
  PROVE  (d \in stop_mask => d \in stop_mask') /\ (Told(d) => Told(d)')
<1>1. CASE Nmi(c)
  BY <1>1, Zenon DEF Nmi, MustStop, Told, panicVars
<1>2. CASE ~Nmi(c)
  <2>1. stop_mask \subseteq stop_mask' /\ nmi \subseteq nmi' /\ stopped_mask \subseteq stopped_mask'
    <3>1. CASE TableStep(c)
      BY <3>1, Zenon DEF TableStep, CowFault, Map, Remove, Clone, Edit, nmiVars, panicVars
    <3>2. CASE PanicStep(c)
      BY <3>2, Zenon DEF PanicStep, Panic, Raise, StopOthers, StopsSent, SendStop, nmiVars, panicVars
    <3>3. CASE OtherStep(c) /\ ~PanicStep(c)
      BY <1>2, <3>3, Zenon DEF OtherStep, Fill, Begin, Mmio, Shoot, Finish, Free, NmiFlush, NmiAck,
                Switch, Post, nmiVars, panicVars
    <3> QED
      BY <3>1, <3>2, <3>3, Zenon DEF Step
  <2> QED
    BY <2>1, Zenon DEF Told
<1> QED
  BY <1>1, <1>2, Zenon

(* What the loop of smp_stop_others has done is kept by every step. *)
LEMMA StopKept ==
  ASSUME TypeOK, StopInv, NEW c \in Cpu, Step(c)
  PROVE  StopInv'
<1>1. CASE UNCHANGED <<pc, todo>>
  BY <1>1, ToldStays, Zenon DEF StopInv
<1>2. CASE StopOthers(c)
  <2>1. /\ stop_mask' = stop_mask \cup (Cpu \ {c})
        /\ todo' = [todo EXCEPT ![c] = Cpu \ {c}] /\ pc' = [pc EXCEPT ![c] = "send"]
    BY <1>2, Zenon DEF StopOthers, Goto
  <2>2. todo'[c] = Cpu \ {c} /\ pc'[c] = "send"
    BY <2>1, Zenon DEF TypeOK
  <2>3. \A e \in Cpu \ {c} : todo'[e] = todo[e] /\ pc'[e] = pc[e]
    BY <2>1, Zenon DEF TypeOK
  <2>4. "send" # "panic"
    OBVIOUS
  <2> QED
    BY <2>1, <2>2, <2>3, <2>4, ToldStays, Zenon DEF StopInv
<1>3. ASSUME NEW e \in Cpu, SendStop(c, e) PROVE StopInv'
  <2>1. /\ pc' = pc /\ pc[c] = "send" /\ stop_mask' = stop_mask
        /\ todo' = [todo EXCEPT ![c] = @ \ {e}] /\ nmi' = nmi \cup {e}
    BY <1>3, Zenon DEF SendStop, panicVars
  <2>2. todo'[c] = todo[c] \ {e} /\ \A f \in Cpu \ {c} : todo'[f] = todo[f]
    BY <2>1, Zenon DEF TypeOK
  <2>3. e \in stop_mask => Told(e)'
    BY <2>1, Zenon DEF Told
  <2> QED
    BY <2>1, <2>2, <2>3, ToldStays, Zenon DEF StopInv
<1>4. CASE StopsSent(c)
  <2>1. todo[c] = {} /\ pc[c] = "send" /\ todo' = todo /\ pc' = [pc EXCEPT ![c] = "panic"]
    BY <1>4, Zenon DEF StopsSent, Goto, shootVars
  <2>2. pc'[c] = "panic" /\ \A e \in Cpu \ {c} : pc'[e] = pc[e]
    BY <2>1, Zenon DEF TypeOK
  <2>3. "send" # "panic"
    OBVIOUS
  <2> QED
    BY <2>1, <2>2, <2>3, ToldStays, Zenon DEF StopInv
<1>5. CASE /\ pc'[c] \notin {"send", "panic"}
           /\ \A e \in Cpu \ {c} : pc'[e] = pc[e] /\ todo'[e] = todo[e]
  BY <1>5, ToldStays, Zenon DEF StopInv
<1>6. CASE Begin(c) \/ Mmio(c) \/ Shoot(c) \/ Finish(c) \/ Free(c) \/ Panic(c) \/ Raise(c)
           \/ (\E s \in Space : Map(c, s) \/ Remove(c, s) \/ Clone(c, s))
           \/ (\E d \in Cpu : Post(c, d))
  <2>1. /\ \E l \in {"run", "want", "edited", "post", "free", "stop", "mask", "halt"} :
             Goto(c, l) \/ (pc' = pc /\ pc[c] = l)
        /\ todo' = todo \/ \E S : todo' = [todo EXCEPT ![c] = S]
    BY <1>6, ZenonT(60) DEF Begin, Mmio, Shoot, Finish, Free, Panic, Raise, Map, Remove, Clone, Edit,
              Post, shootVars
  <2>2. /\ pc'[c] \in {"run", "want", "edited", "post", "free", "stop", "mask", "halt"}
        /\ \A e \in Cpu \ {c} : pc'[e] = pc[e] /\ todo'[e] = todo[e]
    BY <2>1, Zenon DEF Goto, TypeOK
  <2>3. pc'[c] \notin {"send", "panic"}
    BY <2>2
  <2> QED
    BY <1>5, <2>2, <2>3, Zenon
<1>7. CASE \/ Fill(c) \/ Nmi(c) \/ NmiFlush(c) \/ NmiAck(c) \/ CowFault(c)
           \/ \E s \in Space \cup {Kernel} : Switch(c, s)
  BY <1>1, <1>7, Zenon DEF Fill, Nmi, NmiFlush, NmiAck, CowFault, Switch, shootVars
<1> QED
  BY <1>2, <1>3, <1>4, <1>6, <1>7, Zenon DEF Step, OtherStep, PanicStep, TableStep

(* A processor that has got through smp_stop_others leaves no other one    *)
(* running: each has stopped, or is to be stopped by an NMI under way.     *)
NoneForgotten ==
  \A c \in Cpu : pc[c] = "panic" => \A d \in Cpu \ {c} : Told(d)

(* smp_stop_others, once it returns, has told every other processor to     *)
(* stop, for every number of processors and whoever else panics.           *)
THEOREM StopsReachAll == Spec => []NoneForgotten
<1>1. Init => StopInv
  BY Zenon DEF Init, StopInv
<1>2. TypeOK /\ StopInv /\ [Next]_vars => StopInv'
  <2> SUFFICES ASSUME TypeOK, StopInv, [Next]_vars PROVE StopInv'
    BY Zenon
  <2>1. CASE UNCHANGED vars
    BY <2>1, Zenon DEF vars, shootVars, nmiVars, panicVars, StopInv, Told
  <2>2. ASSUME NEW c \in Cpu, Step(c) PROVE StopInv'
    BY <2>2, StopKept, Zenon
  <2> QED
    BY <2>1, <2>2, Zenon DEF Next, Step, OtherStep, PanicStep, TableStep
<1>3. StopInv => NoneForgotten
  BY Zenon DEF StopInv, NoneForgotten
<1> QED
  BY <1>1, <1>2, <1>3, TlbTypeCorrect, PTL DEF Spec

=============================================================================
