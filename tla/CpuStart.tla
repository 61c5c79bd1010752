------------------------------ MODULE CpuStart ------------------------------
(***************************************************************************)
(* Starting the application processors (kernel/smp/smp.c) and the table of *)
(* their states (kernel/smp/cpu.c): the boot processor hands a processor   *)
(* its context, waits for it until a timeout, and goes on; the processor   *)
(* may come up, fail, or come up late.  The states change by compare and   *)
(* exchange.                                                               *)
(***************************************************************************)
EXTENDS Integers, FiniteSets

CONSTANTS Ap, NoAp

ASSUME ApAssumption == NoAp \notin Ap

VARIABLES
  states,       \* states[id] of cpu.c
  context,      \* processors whose goto_address is set
  tried,        \* processors for which smp_start_cpu has been called
  starting,     \* the processor it waits for
  timed_out,    \* the wait for it is over
  ready,        \* processors for which it returned true
  released,     \* scheduler_released
  ap            \* what a processor does: "parked", "boot", "halt", "idle", "run"

startVars == <<states, context, tried, starting, timed_out, ready, released, ap>>

StartTypeOK ==
  /\ states \in [Ap -> {"PARKED", "STARTING", "IDLE", "TIMED_OUT", "FAILED"}]
  /\ context \in SUBSET Ap /\ tried \in SUBSET Ap /\ ready \in SUBSET tried
  /\ starting \in tried \cup {NoAp} /\ timed_out \in BOOLEAN /\ released \in BOOLEAN
  /\ timed_out => starting # NoAp
  /\ ap \in [Ap -> {"parked", "boot", "halt", "idle", "run"}]

StartInit ==
  /\ states = [a \in Ap |-> "PARKED"]
  /\ context = {} /\ tried = {} /\ ready = {}
  /\ starting = NoAp /\ timed_out = FALSE /\ released = FALSE
  /\ ap = [a \in Ap |-> "parked"]

-----------------------------------------------------------------------------
(* transition_ap, and whether it succeeds. *)
Moved(a, from, to) == IF states[a] = from THEN [states EXCEPT ![a] = to] ELSE states
Moves(a, from) == states[a] = from

(* The boot processor, in smp_start_cpu for one processor after another:   *)
(* cpu_try_start, and the context for the processor.                       *)
StartCpu(a) ==
  /\ starting = NoAp /\ ~released /\ a \notin tried
  /\ tried' = tried \cup {a}
  /\ starting' = a
  /\ states' = Moved(a, "PARKED", "STARTING")
  /\ context' = context \cup {a}
  /\ UNCHANGED <<timed_out, ready, released, ap>>

(* smp_start_cpu returns at once: the boot loader does not know the        *)
(* processor.                                                              *)
Unknown(a) ==
  /\ starting = NoAp /\ ~released /\ a \notin tried
  /\ tried' = tried \cup {a}
  /\ UNCHANGED <<states, context, starting, timed_out, ready, released, ap>>

(* The call returns; the next one has a time of its own. *)
Answer(a, ok) ==
  /\ starting' = NoAp /\ timed_out' = FALSE
  /\ ready' = IF ok THEN ready \cup {a} ELSE ready

(* The loop until the timeout. *)
Poll(a) ==
  /\ starting = a /\ ~timed_out
  /\ states[a] \in {"IDLE", "FAILED"}
  /\ Answer(a, states[a] = "IDLE")
  /\ UNCHANGED <<states, context, tried, released, ap>>

(* Mutant of TimeOut: the wait has no end. *)
TimeOutNever(a) == FALSE

TimeOut(a) ==
  /\ starting = a /\ ~timed_out
  /\ timed_out' = TRUE
  /\ UNCHANGED <<states, context, tried, starting, ready, released, ap>>

(* Mutant of LateAnswer: the result of the exchange is not looked at. *)
LateAnswerFalse(a) == FALSE

(* The answer when the processor was faster than the timeout. *)
LateAnswer(a) == ~Moves(a, "STARTING") /\ states[a] = "IDLE"

GiveUp(a) ==
  /\ starting = a /\ timed_out
  /\ states' = Moved(a, "STARTING", "TIMED_OUT")
  /\ Answer(a, LateAnswer(a))
  /\ UNCHANGED <<context, tried, released, ap>>

(* smp_release_scheduler, called by scheduler_start. *)
Release ==
  /\ starting = NoAp /\ tried = Ap /\ ~released
  /\ released' = TRUE
  /\ UNCHANGED <<states, context, tried, starting, timed_out, ready, ap>>

-----------------------------------------------------------------------------
(* A processor, in smp_ap_main.                                            *)

Boot(a) ==
  /\ ap[a] = "parked" /\ a \in context
  /\ ap' = [ap EXCEPT ![a] = "boot"]
  /\ UNCHANGED <<states, context, tried, starting, timed_out, ready, released>>

(* cpu_fail, when a part of the processor cannot be set up.  Its second    *)
(* exchange, from IDLE, is left out: nobody calls it on an IDLE processor. *)
Fail(a) ==
  /\ ap[a] = "boot"
  /\ states' = Moved(a, "STARTING", "FAILED")
  /\ ap' = [ap EXCEPT ![a] = "halt"]
  /\ UNCHANGED <<context, tried, starting, timed_out, ready, released>>

(* Mutant of Published: the processor goes on although it was given up. *)
PublishedAnyway(a) == "idle"

Published(a) == IF Moves(a, "STARTING") THEN "idle" ELSE "halt"

(* cpu_publish_idle: a processor that was given up halts. *)
PublishIdle(a) ==
  /\ ap[a] = "boot"
  /\ states' = Moved(a, "STARTING", "IDLE")
  /\ ap' = [ap EXCEPT ![a] = Published(a)]
  /\ UNCHANGED <<context, tried, starting, timed_out, ready, released>>

(* scheduler_start, once scheduler_released is set. *)
Run(a) ==
  /\ ap[a] = "idle" /\ released
  /\ ap' = [ap EXCEPT ![a] = "run"]
  /\ UNCHANGED <<states, context, tried, starting, timed_out, ready, released>>

StartNext ==
  \/ Release
  \/ \E a \in Ap : StartCpu(a) \/ Unknown(a) \/ Poll(a) \/ TimeOut(a) \/ GiveUp(a)
                   \/ Boot(a) \/ Fail(a) \/ PublishIdle(a) \/ Run(a)

StartSpec == StartInit /\ [][StartNext]_startVars

(* The clock runs, and so do the boot processor and those that came up. *)
StartFairness ==
  /\ WF_startVars(Release \/ \E a \in Ap : StartCpu(a) \/ Poll(a) \/ TimeOut(a) \/ GiveUp(a))
  /\ \A a \in Ap : WF_startVars(Run(a))

FairStart == StartSpec /\ StartFairness

-----------------------------------------------------------------------------
(* Properties.                                                             *)

(* A processor takes part in scheduling only if it counts as online, which *)
(* is who smp_tlb_shootdown and smp_stop_others ask (cpu_is_online), and   *)
(* one that does count as online is neither halted nor about to halt.      *)
OnlineRuns ==
  \A a \in Ap : states[a] = "IDLE" <=> ap[a] \in {"idle", "run"}

(* smp_start_cpu says true of exactly the processors that come up, also    *)
(* when the timeout and cpu_publish_idle meet.                             *)
AnswerIsRight ==
  \A a \in tried \ {starting} : a \in ready <=> states[a] = "IDLE"

(* A processor that does not answer does not keep the system from          *)
(* starting, and every processor that came up gets to schedule.            *)
SystemStarts ==
  <>[](released /\ \A a \in Ap : states[a] = "IDLE" => ap[a] = "run")

=============================================================================
