-------------------------------- MODULE Tlb --------------------------------
(***************************************************************************)
(* Translations that processors keep, and how they are taken back: the     *)
(* users of smp_tlb_shootdown in mm/vmm.c, the shootdown and the NMI       *)
(* handler in kernel/smp/smp.c, and the stopping of processors in a panic. *)
(*                                                                         *)
(* A space has one page.  A processor keeps at most one translation, of    *)
(* the space that its CR3 holds, and may fill it from the page table at    *)
(* any time, as the hardware does.  Loading CR3 drops it.  A process has   *)
(* one thread, so that its space is in one CR3 at a time.                  *)
(***************************************************************************)
EXTENDS Integers, FiniteSets

CONSTANTS
  Cpu,     \* the numbers of the processors that are online
  Space,
  Frame,
  NoCpu,
  Kernel,  \* the kernel's address space, in CR3 of a processor that is idle
  Empty,   \* an entry that is not present
  MaxGen,  \* bound on the number of shootdowns
  MayPanic \* the processors that may panic

ASSUME TlbAssumption ==
  /\ Cpu \subseteq Nat /\ IsFiniteSet(Cpu) /\ NoCpu \notin Cpu /\ MayPanic \subseteq Cpu
  /\ Kernel \notin Space /\ MaxGen \in Nat
  /\ Empty \notin [frame : Frame, writable : BOOLEAN]

VARIABLES
  cr3,       \* the space of each processor
  pte,       \* page tables
  tlb,       \* translations kept by the processors
  used,      \* frames that are not free
  vmm_lock, tlb_lock,
  pc,        \* "run", "want" vmm_lock, "edited" the table, "post", "free",
             \* and in a panic "stop", "mask", "send", "panic" or "halt"
  victim,    \* the frames to free after the shootdown
  todo,      \* processors still to be sent an NMI
  tlb_generation, tlb_request, tlb_ack,
  nmi,       \* processors with an NMI pending; a second one is not kept
  handler,   \* NMI handler: "none", "flush", "ack"
  seen,      \* the request it has read
  stop_mask, stopped_mask,
  panic_active

memVars == <<cr3, pte, tlb, used>>
shootVars == <<tlb_lock, todo, tlb_generation, tlb_request>>
nmiVars == <<tlb_ack, handler, seen, stopped_mask>>
panicVars == <<stop_mask, panic_active>>
vars == <<memVars, shootVars, nmiVars, panicVars, vmm_lock, pc, victim, nmi>>

Entry == [frame : Frame, writable : BOOLEAN]

TypeOK ==
  /\ cr3 \in [Cpu -> Space \cup {Kernel}]
  /\ pte \in [Space -> Entry \cup {Empty}]
  /\ tlb \in [Cpu -> Entry \cup {Empty}]
  /\ used \in SUBSET Frame
  /\ vmm_lock \in Cpu \cup {NoCpu} /\ tlb_lock \in Cpu \cup {NoCpu}
  /\ pc \in [Cpu -> {"run", "want", "edited", "post", "free",
                    "stop", "mask", "send", "panic", "halt"}]
  /\ victim \in [Cpu -> SUBSET Frame]
  /\ todo \in [Cpu -> SUBSET Cpu]
  /\ tlb_generation \in 0 .. MaxGen
  /\ tlb_request \in [Cpu -> 0 .. MaxGen] /\ tlb_ack \in [Cpu -> 0 .. MaxGen]
  /\ \A c \in Cpu : tlb_ack[c] <= tlb_request[c] /\ tlb_request[c] <= tlb_generation
  /\ nmi \in SUBSET Cpu
  /\ handler \in [Cpu -> {"none", "flush", "ack"}]
  /\ seen \in [Cpu -> 0 .. MaxGen]
  /\ stop_mask \in SUBSET Cpu /\ stopped_mask \in SUBSET stop_mask
  /\ panic_active \in BOOLEAN

Init ==
  /\ cr3 = [c \in Cpu |-> Kernel]
  /\ pte = [s \in Space |-> Empty]
  /\ tlb = [c \in Cpu |-> Empty]
  /\ used = {}
  /\ vmm_lock = NoCpu /\ tlb_lock = NoCpu
  /\ pc = [c \in Cpu |-> "run"]
  /\ victim = [c \in Cpu |-> {}]
  /\ todo = [c \in Cpu |-> {}]
  /\ tlb_generation = 0
  /\ tlb_request = [c \in Cpu |-> 0] /\ tlb_ack = [c \in Cpu |-> 0]
  /\ nmi = {}
  /\ handler = [c \in Cpu |-> "none"] /\ seen = [c \in Cpu |-> 0]
  /\ stop_mask = {} /\ stopped_mask = {} /\ panic_active = FALSE

-----------------------------------------------------------------------------
(* The processor runs the code that the NMI handler may interrupt. *)
Executes(c) == handler[c] = "none" /\ c \notin stopped_mask

(* The next processor of a loop over the processors by number. *)
First(d, S) == d \in S /\ \A e \in S : d <= e

Goto(c, l) == pc' = [pc EXCEPT ![c] = l]
Dropped(c) == [tlb EXCEPT ![c] = Empty]

(* schedule_locked calls vmm_switch_address_space, which loads CR3 when it *)
(* changes.                                                                *)
Switch(c, s) ==
  /\ Executes(c) /\ pc[c] = "run"
  /\ s # cr3[c]
  /\ s # Kernel => \A d \in Cpu : cr3[d] # s
  /\ cr3' = [cr3 EXCEPT ![c] = s]
  /\ tlb' = Dropped(c)
  /\ UNCHANGED <<pte, used, shootVars, nmiVars, vmm_lock, pc, victim, nmi, panicVars>>

(* The processor's own walk of the page table, at any time. *)
Fill(c) ==
  /\ c \notin stopped_mask
  /\ cr3[c] # Kernel /\ tlb[c] = Empty
  /\ tlb' = [tlb EXCEPT ![c] = pte[cr3[c]]]
  /\ UNCHANGED <<cr3, pte, used, shootVars, nmiVars, vmm_lock, pc, victim, nmi, panicVars>>

-----------------------------------------------------------------------------
(* Changes to page tables, under vmm_lock.                                 *)

(* The bound on shootdowns allows one more besides those under way. *)
Room == tlb_generation + Cardinality({d \in Cpu : pc[d] \in {"want", "edited"}}) < MaxGen

(* spin_lock_irqsave. *)
Begin(c) ==
  /\ Executes(c) /\ pc[c] = "run"
  /\ Room
  /\ Goto(c, "want")
  /\ UNCHANGED <<memVars, shootVars, nmiVars, vmm_lock, victim, nmi, panicVars>>

Edit(c, table, drop) ==
  /\ Executes(c) /\ pc[c] = "want"
  /\ vmm_lock = NoCpu
  /\ vmm_lock' = c
  /\ pte' = table
  /\ victim' = [victim EXCEPT ![c] = drop]
  /\ Goto(c, "edited")
  /\ UNCHANGED <<cr3, shootVars, nmiVars, nmi, panicVars>>

(* vmm_map_new_pages. *)
Map(c, s) ==
  /\ pte[s] = Empty
  /\ \E f \in Frame \ used :
       /\ Edit(c, [pte EXCEPT ![s] = [frame |-> f, writable |-> TRUE]], {})
       /\ used' = used \cup {f}
  /\ UNCHANGED tlb

(* vmm_unmap_range, swap_out_one_locked and vmm_destroy_address_space. *)
Remove(c, s) ==
  /\ pte[s] # Empty
  /\ Edit(c, [pte EXCEPT ![s] = Empty], {pte[s].frame})
  /\ tlb' = Dropped(c)
  /\ UNCHANGED used

(* vmm_clone_address_space, by the process of the space it copies. *)
Clone(c, d) ==
  LET s == cr3[c]
  IN /\ s # Kernel /\ d # s
     /\ pte[s] # Empty /\ pte[d] = Empty /\ \A e \in Cpu : cr3[e] # d
     /\ LET shared == [frame |-> pte[s].frame, writable |-> FALSE]
        IN Edit(c, [pte EXCEPT ![s] = shared, ![d] = shared], {})
     /\ UNCHANGED <<tlb, used>>

(* Mutant of Invalidated: cow_resolve_slot leaves the translation alone. *)
InvalidatedNot(c) == tlb

(* invalidate_local_page. *)
Invalidated(c) == Dropped(c)

(* cow_resolve_slot on a write fault: no shootdown, as no other processor  *)
(* has the space.                                                          *)
CowFault(c) ==
  LET s == cr3[c]
      sharers == {r \in Space : r # s /\ pte[r] # Empty /\ pte[r].frame = pte[s].frame}
  IN /\ Executes(c) /\ pc[c] = "run"
     /\ vmm_lock = NoCpu
     /\ s # Kernel /\ pte[s] # Empty /\ ~pte[s].writable
     /\ \/ /\ sharers = {}
           /\ pte' = [pte EXCEPT ![s].writable = TRUE]
           /\ UNCHANGED used
        \/ /\ sharers # {}
           /\ \E f \in Frame \ used :
                /\ pte' = [pte EXCEPT ![s] = [frame |-> f, writable |-> TRUE]]
                /\ used' = used \cup {f}
     /\ tlb' = Invalidated(c)
     /\ UNCHANGED <<cr3, shootVars, nmiVars, vmm_lock, pc, victim, nmi, panicVars>>

(* mmio_map changes the kernel's table under mmio_lock, not vmm_lock. *)
Mmio(c) ==
  /\ Executes(c) /\ pc[c] = "run"
  /\ \A d \in Cpu : pc[d] \in {"edited", "post"} => vmm_lock = d
  /\ Room
  /\ Goto(c, "edited")
  /\ UNCHANGED <<memVars, shootVars, nmiVars, vmm_lock, victim, nmi, panicVars>>

-----------------------------------------------------------------------------
(* smp_tlb_shootdown.                                                      *)

Shoot(c) ==
  /\ Executes(c) /\ pc[c] = "edited"
  /\ tlb_lock = NoCpu
  /\ tlb_lock' = c
  /\ tlb_generation' = tlb_generation + 1
  /\ tlb' = Dropped(c)
  /\ todo' = [todo EXCEPT ![c] = Cpu \ {c}]
  /\ Goto(c, "post")
  /\ UNCHANGED <<cr3, pte, used, tlb_request, nmiVars, vmm_lock, victim, nmi, panicVars>>

Post(c, d) ==
  /\ Executes(c) /\ pc[c] = "post" /\ First(d, todo[c])
  /\ todo' = [todo EXCEPT ![c] = @ \ {d}]
  /\ tlb_request' = [tlb_request EXCEPT ![d] = tlb_generation]
  /\ nmi' = nmi \cup {d}
  /\ UNCHANGED <<memVars, tlb_lock, tlb_generation, nmiVars, vmm_lock, pc, victim, panicVars>>

(* Mutant of AllAcked: any earlier acknowledgement will do. *)
AllAckedOnce(c) == \A d \in Cpu \ {c} : tlb_ack[d] > 0

AllAcked(c) == \A d \in Cpu \ {c} : tlb_ack[d] = tlb_generation

(* The loop over the acknowledgements, and the unlock. *)
Finish(c) ==
  /\ Executes(c) /\ pc[c] = "post" /\ todo[c] = {}
  /\ AllAcked(c)
  /\ tlb_lock' = NoCpu
  /\ Goto(c, IF vmm_lock = c THEN "free" ELSE "run")
  /\ UNCHANGED <<memVars, todo, tlb_generation, tlb_request, nmiVars, vmm_lock, victim, nmi,
                 panicVars>>

(* pmm_free_page of what was unmapped; a frame that others map stays. *)
Free(c) ==
  /\ Executes(c) /\ pc[c] = "free"
  /\ used' = {f \in used : f \in victim[c] => \E s \in Space : pte[s] # Empty /\ pte[s].frame = f}
  /\ victim' = [victim EXCEPT ![c] = {}]
  /\ vmm_lock' = NoCpu
  /\ Goto(c, "run")
  /\ UNCHANGED <<cr3, pte, tlb, shootVars, nmiVars, nmi, panicVars>>

-----------------------------------------------------------------------------
(* smp_handle_nmi and smp_stop_others.                                     *)

(* Mutant of Accepted: requests come as interrupts, which are disabled     *)
(* under spin_lock_irqsave.                                                *)
AcceptedUnmasked(c) == pc[c] = "run"

(* An NMI is taken whatever the processor does, outside the NMI handler. *)
Accepted(c) == TRUE

(* Mutant of MustStop: a request to flush comes first. *)
MustStopLater(c) == c \in stop_mask /\ tlb_request[c] = tlb_ack[c]

MustStop(c) == c \in stop_mask

Nmi(c) ==
  /\ Executes(c) /\ c \in nmi
  /\ Accepted(c)
  /\ nmi' = nmi \ {c}
  /\ IF MustStop(c)
     THEN stopped_mask' = stopped_mask \cup {c} /\ UNCHANGED <<handler, seen>>
     ELSE /\ seen' = [seen EXCEPT ![c] = tlb_request[c]]
          /\ handler' = [handler EXCEPT ![c] = IF tlb_request[c] # tlb_ack[c]
                                               THEN "flush" ELSE "none"]
          /\ UNCHANGED stopped_mask
  /\ UNCHANGED <<memVars, shootVars, tlb_ack, vmm_lock, pc, victim, panicVars>>

NmiFlush(c) ==
  /\ handler[c] = "flush"
  /\ tlb' = Dropped(c)
  /\ handler' = [handler EXCEPT ![c] = "ack"]
  /\ UNCHANGED <<cr3, pte, used, shootVars, tlb_ack, seen, stopped_mask, vmm_lock, pc, victim,
                 nmi, panicVars>>

(* Mutant of Acknowledged: one generation too many. *)
AcknowledgedNext(c) == seen[c] + 1

Acknowledged(c) == seen[c]

NmiAck(c) ==
  /\ handler[c] = "ack"
  /\ tlb_ack' = [tlb_ack EXCEPT ![c] = Acknowledged(c)]
  /\ handler' = [handler EXCEPT ![c] = "none"]
  /\ UNCHANGED <<memVars, shootVars, seen, stopped_mask, vmm_lock, pc, victim, nmi, panicVars>>

PanicStages == {"stop", "mask", "send", "panic", "halt"}

(* panic_header: whoever finds a panic under way halts.  The flag is a     *)
(* plain one, and two processors may both find it clear.                   *)
Panic(c) ==
  /\ c \in MayPanic /\ Executes(c)
  /\ pc[c] \notin PanicStages
  /\ Goto(c, IF panic_active THEN "halt" ELSE "stop")
  /\ UNCHANGED <<memVars, shootVars, nmiVars, vmm_lock, victim, nmi, panicVars>>

Raise(c) ==
  /\ Executes(c) /\ pc[c] = "stop"
  /\ panic_active' = TRUE
  /\ Goto(c, "mask")
  /\ UNCHANGED <<memVars, shootVars, nmiVars, vmm_lock, victim, nmi, stop_mask>>

(* smp_stop_others: the mask, then one NMI after another.  Interrupts are  *)
(* off, but an NMI from a processor that panics as well ends the loop.     *)
StopOthers(c) ==
  /\ Executes(c) /\ pc[c] = "mask"
  /\ stop_mask' = stop_mask \cup (Cpu \ {c})
  /\ todo' = [todo EXCEPT ![c] = Cpu \ {c}]
  /\ Goto(c, "send")
  /\ UNCHANGED <<memVars, tlb_lock, tlb_generation, tlb_request, nmiVars, vmm_lock, victim, nmi,
                 panic_active>>

SendStop(c, d) ==
  /\ Executes(c) /\ pc[c] = "send" /\ First(d, todo[c])
  /\ todo' = [todo EXCEPT ![c] = @ \ {d}]
  /\ nmi' = nmi \cup {d}
  /\ UNCHANGED <<memVars, tlb_lock, tlb_generation, tlb_request, nmiVars, vmm_lock, pc, victim,
                 panicVars>>

(* The wait for the others, which a timeout ends, is over. *)
StopsSent(c) ==
  /\ Executes(c) /\ pc[c] = "send" /\ todo[c] = {}
  /\ Goto(c, "panic")
  /\ UNCHANGED <<memVars, shootVars, nmiVars, vmm_lock, victim, nmi, panicVars>>

Next ==
  \E c \in Cpu :
    \/ Fill(c) \/ Begin(c) \/ CowFault(c) \/ Mmio(c) \/ Shoot(c) \/ Finish(c) \/ Free(c)
    \/ Nmi(c) \/ NmiFlush(c) \/ NmiAck(c)
    \/ Panic(c) \/ Raise(c) \/ StopOthers(c) \/ StopsSent(c)
    \/ \E s \in Space \cup {Kernel} : Switch(c, s)
    \/ \E s \in Space : Map(c, s) \/ Remove(c, s) \/ Clone(c, s)
    \/ \E d \in Cpu : Post(c, d) \/ SendStop(c, d)

Spec == Init /\ [][Next]_vars

(* The steps that a processor takes unless it is stopped; the others are   *)
(* up to the processes and the hardware.                                   *)
GoesOn(c) ==
  \/ Nmi(c) \/ NmiFlush(c) \/ NmiAck(c) \/ Shoot(c) \/ Finish(c) \/ Free(c)
  \/ Raise(c) \/ StopOthers(c) \/ StopsSent(c)
  \/ \E d \in Cpu : Post(c, d) \/ SendStop(c, d)

(* Processors execute and NMIs arrive. *)
Fairness == \A c \in Cpu : WF_vars(GoesOn(c))

FairSpec == Spec /\ Fairness

-----------------------------------------------------------------------------
(* Properties.                                                             *)

(* A frame is given back to the allocator only when no processor keeps a   *)
(* translation to it: smp_tlb_shootdown comes before pmm_free_page, and it *)
(* is over only when every processor has flushed since the table changed.  *)
NoFreedTranslation ==
  \A c \in Cpu : tlb[c] # Empty => tlb[c].frame \in used

(* While no one holds vmm_lock to change a table, a processor sees the     *)
(* page table of its space: the same frame, and no right to write that the *)
(* table does not give.  The local invlpg of cow_resolve_slot is enough.   *)
Coherent ==
  vmm_lock = NoCpu =>
    \A c \in Cpu : tlb[c] # Empty =>
      /\ pte[cr3[c]] # Empty
      /\ tlb[c].frame = pte[cr3[c]].frame
      /\ tlb[c].writable => pte[cr3[c]].writable

(* Shootdowns end, although the processors they wait for may spin for      *)
(* vmm_lock or tlb_lock with interrupts disabled: unless there is a panic, *)
(* there are always times to come when none is under way.                  *)
ShootdownsEnd ==
  []<>(panic_active \/ \A c \in Cpu : pc[c] \notin {"edited", "post"})

(* In the end every processor that has begun to panic has been stopped by  *)
(* another one that panics, or has stopped all the others: also when two   *)
(* find panic_active clear, when an NMI ends the loop over the processors, *)
(* and when a stop and a flush are delivered as a single NMI.              *)
PanicStops ==
  <>[](\A c \in Cpu : pc[c] \in PanicStages \ {"halt"} =>
                        c \in stopped_mask \/ Cpu \ {c} \subseteq stopped_mask)

(* Once there is a panic, every processor stops, halts or is the one that  *)
(* reports the panic.  Two processors that panic together may stop each    *)
(* other before either has sent its NMI to the third.                      *)
PanicStopsAll ==
  panic_active ~> \A c \in Cpu : c \in stopped_mask \/ pc[c] \in {"panic", "halt"}

=============================================================================
