------------------------------- MODULE MCSmp -------------------------------
(***************************************************************************)
(* Small instances of CpuStart and Tlb, one after the other: processors    *)
(* 1 .. 3 are started by processor 0, and when 1 and 2 have come up and    *)
(* the boot loader did not know 3, Tlb is what the three online ones do.   *)
(***************************************************************************)
EXTENDS CpuStart, Tlb

CONSTANTS s1, s2, f1, f2

MCSpace == {s1, s2}
MCFrame == {f1, f2}

(* The processors of Tlb are online and run. *)
Up ==
  /\ released /\ context = Cpu \ {0}
  /\ \A a \in context : ap[a] = "run"

(* What is explored of Tlb: any two changes of the page tables without a   *)
(* panic, or panics around at most one change, with one space and frame.   *)
Scenario ==
  \/ \A c \in Cpu : pc[c] \notin PanicStages
  \/ /\ tlb_generation + Cardinality({c \in Cpu : pc[c] \in {"want", "edited"}}) <= 1
     /\ used \subseteq {f1} /\ pte[s2] = Empty /\ \A c \in Cpu : cr3[c] # s2

MCInit == StartInit /\ Init

MCNext ==
  \/ StartNext /\ UNCHANGED vars
  \/ Up /\ Next /\ UNCHANGED startVars

MCSpec == MCInit /\ [][MCNext]_<<startVars, vars>> /\ StartFairness /\ Fairness

=============================================================================
