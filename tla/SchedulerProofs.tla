--------------------------- MODULE SchedulerProofs ---------------------------
(***************************************************************************)
(* What is proved of Scheduler, for any number of processors and threads:  *)
(* its safety properties, each a consequence of IInv, and that it          *)
(* implements SleepWake.                                                   *)
(*                                                                         *)
(* The safety properties are not inductive on their own: that no two       *)
(* processors run one thread rests on how current, previous, running_cpu   *)
(* and the holder of runqueue_lock agree with each other at every step of  *)
(* a switch.  IInv states that agreement.  It is shown to hold initially,  *)
(* to be kept by the parts that several actions share, and then by every   *)
(* action.                                                                 *)
(***************************************************************************)
EXTENDS Scheduler, TLAPS

(* The thread a processor runs is RUNNING there, and the other way round.  *)
CurrentRuns ==
  \A c \in Cpu : current[c] \in Thread =>
    running_cpu[current[c]] = c /\ state[current[c]] = "RUNNING"

RunningIsCurrent ==
  \A t \in Thread : state[t] = "RUNNING" =>
    running_cpu[t] \in Cpu /\ current[running_cpu[t]] = t

(* A thread has a processor only while that one runs it or is leaving it.  *)
PlacedIsKnown ==
  \A t \in Thread : running_cpu[t] \in Cpu =>
    current[running_cpu[t]] = t \/ previous[running_cpu[t]] = t

(* A processor that is leaving a thread holds the lock, and keeps it.      *)
SwitchHoldsLock == \A c \in Cpu : previous[c] # NoNode <=> runqueue_lock = c

PreviousIsPlaced ==
  \A c \in Cpu : previous[c] \in Thread =>
    running_cpu[previous[c]] = c /\ previous[c] # current[c]

(* A terminated thread exists only until the switch away from it is over.  *)
TerminatedIsLeft ==
  \A t \in Thread : state[t] = "TERMINATED" => \E c \in Cpu : previous[c] = t

FreeIsNowhere == \A t \in Thread : state[t] = "FREE" => running_cpu[t] = NoCpu

UnstartedIdles == \A c \in Cpu : c \notin started => current[c] = Idle

(* Where a thread is, as told by its own fields and by the processors'.    *)
Placement ==
  /\ CurrentRuns
  /\ RunningIsCurrent
  /\ PlacedIsKnown
  /\ SwitchHoldsLock
  /\ PreviousIsPlaced
  /\ TerminatedIsLeft
  /\ FreeIsNowhere
  /\ UnstartedIdles

(* Where the preemption depth of a thread is kept.                         *)
Depth ==
  /\ \A c \in Cpu : current[c] \in Thread => preempt_depth[c] = held[current[c]]
  /\ \A c \in Cpu : current[c] = Idle => preempt_depth[c] = 0
  /\ \A t \in Thread : (\A c \in Cpu : current[c] # t) => preempt_saved[t] = held[t]
  /\ preempt_saved[Idle] = 0

(* A user thread on its way into the kernel is already confined.           *)
Confined ==
  /\ \A t \in UserThread : state[t] # "FREE" /\ mode[t] \in {"entering", "kernel"} =>
       kernel_only[t]
  /\ \A t \in UserThread : mode[t] # "kernel" => held[t] = 0
  /\ \A c \in Cpu : current[c] \in UserThread /\ mode[current[c]] = "kernel" =>
       c = BootCpu

IInv == TypeOK /\ Placement /\ Depth /\ Confined /\ NoStaleTimeout

-----------------------------------------------------------------------------
(* Initially every processor idles and no thread exists (scheduler_init).  *)
LEMMA InitInv == Init => IInv
<1> SUFFICES ASSUME Init PROVE IInv
  BY Zenon
<1> USE CpuAssumption, ThreadAssumption DEF Init, BootCpu, NoCpu, Node
<1>1. TypeOK
  BY Zenon DEF TypeOK, ThreadState
<1>2. Placement
  BY DEF Placement, CurrentRuns, RunningIsCurrent, PlacedIsKnown, SwitchHoldsLock,
         PreviousIsPlaced, TerminatedIsLeft, FreeIsNowhere, UnstartedIdles
<1>3. Depth
  BY Zenon DEF Depth
<1>4. Confined
  BY Zenon DEF Confined
<1>5. NoStaleTimeout
  BY Zenon DEF NoStaleTimeout
<1> QED
  BY <1>1, <1>2, <1>3, <1>4, <1>5, Zenon DEF IInv

-----------------------------------------------------------------------------
(* What schedule_locked does, whoever calls it: the effect of waking the   *)
(* sleepers that are due and of moving c from its current thread to next.  *)
SwitchTo(c, st, wt, d, next) ==
  /\ next \in Thread => next \in Selectable(c, WokenState(st, wt))
  /\ \A t \in Thread :
       /\ state'[t] = IF t = next THEN "RUNNING"
                      ELSE IF t = current[c] /\ st[t] = "RUNNING" THEN "READY"
                      ELSE IF st[t] = "BLOCKED" /\ wt[t] = "now" THEN "READY"
                      ELSE st[t]
       /\ wake_tick'[t] = IF st[t] = "BLOCKED" /\ wt[t] = "now" THEN "never" ELSE wt[t]
       /\ running_cpu'[t] = IF t = next /\ next # current[c] THEN c ELSE running_cpu[t]
       /\ preempt_saved'[t] = IF t = current[c] /\ next # current[c] THEN d
                              ELSE preempt_saved[t]
  /\ preempt_saved'[Idle] = IF current[c] = Idle /\ next # Idle THEN d
                            ELSE preempt_saved[Idle]
  /\ current' = [current EXCEPT ![c] = next]
  /\ previous' = IF next = current[c] THEN previous
                 ELSE [previous EXCEPT ![c] = current[c]]
  /\ preempt_depth' = [preempt_depth EXCEPT ![c] =
                         IF next = current[c] THEN d ELSE preempt_saved[next]]
  /\ runqueue_lock' = IF next = current[c] THEN runqueue_lock ELSE c
  /\ state' \in [Thread -> ThreadState]
  /\ wake_tick' \in [Thread -> {"never", "later", "now"}]
  /\ running_cpu' \in [Thread -> Cpu \cup {NoCpu}]
  /\ preempt_saved' \in [Node -> Nat]

(* schedule_locked switches to some thread that pick_next may return.      *)
LEMMA ScheduleEffect ==
  ASSUME TypeOK, NEW c \in Cpu, NEW d \in Nat,
         NEW st \in [Thread -> ThreadState],
         NEW wt \in [Thread -> {"never", "later", "now"}],
         ScheduleFrom(c, st, wt, d)
  PROVE  \E next \in Node : SwitchTo(c, st, wt, d, next)
<1> USE ThreadAssumption DEF TypeOK, Node
<1> DEFINE woken == WokenState(st, wt)
<1>1. PICK next \in PickNext(c, woken) :
        /\ state' = SwitchedState(woken, current[c], next)
        /\ current' = [current EXCEPT ![c] = next]
        /\ IF next = current[c]
           THEN /\ preempt_depth' = [preempt_depth EXCEPT ![c] = d]
                /\ UNCHANGED <<running_cpu, previous, preempt_saved, runqueue_lock>>
           ELSE /\ running_cpu' = [t \in Thread |->
                                     IF t = next THEN c ELSE running_cpu[t]]
                /\ previous' = [previous EXCEPT ![c] = current[c]]
                /\ SwitchDepth(c, current[c], next, d)
                /\ runqueue_lock' = c
  BY Zenon DEF ScheduleFrom
<1>2. next \in Node /\ (next \in Thread => next \in Selectable(c, woken))
  BY Zenon DEF PickNext, Selectable
<1>3. wake_tick' = WokenTick(st, wt)
  BY Zenon DEF ScheduleFrom
<1>4. /\ woken \in [Thread -> ThreadState]
      /\ \A t \in Thread : woken[t] = IF st[t] = "BLOCKED" /\ wt[t] = "now" THEN "READY"
                                                                          ELSE st[t]
  BY Zenon DEF WokenState, ThreadState
<1>5. /\ state' \in [Thread -> ThreadState]
      /\ \A t \in Thread :
           state'[t] = IF t = next THEN "RUNNING"
                       ELSE IF t = current[c] /\ st[t] = "RUNNING" THEN "READY"
                       ELSE IF st[t] = "BLOCKED" /\ wt[t] = "now" THEN "READY"
                       ELSE st[t]
  <2> HIDE DEF woken
  <2> QED
    BY <1>1, <1>4, Zenon DEF SwitchedState, ThreadState
<1>6. /\ wake_tick' \in [Thread -> {"never", "later", "now"}]
      /\ \A t \in Thread :
           wake_tick'[t] = IF st[t] = "BLOCKED" /\ wt[t] = "now" THEN "never" ELSE wt[t]
  BY <1>3, Zenon DEF WokenTick
<1>7. /\ running_cpu' \in [Thread -> Cpu \cup {NoCpu}]
      /\ preempt_saved' \in [Node -> Nat]
  BY <1>1 DEF SwitchDepth
<1>8. \A t \in Thread :
        /\ running_cpu'[t] = IF t = next /\ next # current[c] THEN c ELSE running_cpu[t]
        /\ preempt_saved'[t] = IF t = current[c] /\ next # current[c] THEN d
                               ELSE preempt_saved[t]
  BY <1>1 DEF SwitchDepth
<1>9. /\ preempt_saved'[Idle] = IF current[c] = Idle /\ next # Idle THEN d
                                ELSE preempt_saved[Idle]
      /\ previous' = IF next = current[c] THEN previous
                     ELSE [previous EXCEPT ![c] = current[c]]
      /\ preempt_depth' = [preempt_depth EXCEPT ![c] =
                             IF next = current[c] THEN d ELSE preempt_saved[next]]
      /\ runqueue_lock' = IF next = current[c] THEN runqueue_lock ELSE c
  BY <1>1, Zenon DEF SwitchDepth
<1>10. SwitchTo(c, st, wt, d, next)
  BY <1>1, <1>2, <1>5, <1>6, <1>7, <1>8, <1>9, Zenon DEF SwitchTo
<1> QED
  BY <1>2, <1>10, Zenon

(* schedule_locked preserves the invariant, whatever its caller has just   *)
(* done to the thread that it runs on behalf of.                           *)
LEMMA ScheduleInv ==
  ASSUME IInv, Unlocked, NEW c \in Cpu, NEW d \in Nat,
         NEW st \in [Thread -> ThreadState],
         NEW wt \in [Thread -> {"never", "later", "now"}],
         \A t \in Thread : t # current[c] =>
           st[t] = state[t] /\ wt[t] = wake_tick[t] /\ held'[t] = held[t] /\ mode'[t] = mode[t],
         current[c] \in Thread =>
           /\ st[current[c]] \in {"RUNNING", "BLOCKED", "TERMINATED"}
           /\ wt[current[c]] # "never" => st[current[c]] = "BLOCKED"
           /\ held'[current[c]] = d,
         current[c] \in UserThread =>
           /\ mode'[current[c]] \in {"entering", "kernel"} => kernel_only[current[c]]
           /\ mode'[current[c]] # "kernel" => held'[current[c]] = 0,
         current[c] = Idle => d = 0,
         ScheduleFrom(c, st, wt, d),
         UNCHANGED <<kernel_only, affinity, affinity_auto>>,
         started' = started \cup {c},
         reschedule_pending' \in SUBSET Cpu, ipi' \in SUBSET Cpu,
         wake_pending' \in [Thread -> BOOLEAN],
         held' \in [Thread -> Nat],
         mode' \in [Thread -> {"user", "entering", "kernel", "leaving"}]
  PROVE  IInv'
<1>t. TypeOK /\ Placement /\ Depth /\ Confined /\ NoStaleTimeout
  BY Zenon DEF IInv
<1>0. PICK next \in Node : SwitchTo(c, st, wt, d, next)
  BY <1>t, ScheduleEffect, Zenon
<1> USE ThreadAssumption, CpuAssumption DEF Node, NoCpu, BootCpu
<1>1. next \in Thread =>
        /\ next = current[c] \/ (running_cpu[next] = NoCpu /\ state[next] \in {"READY", "BLOCKED"})
        /\ ~(st[next] = "BLOCKED" /\ wt[next] # "now")
        /\ st[next] \in {"READY", "RUNNING", "BLOCKED"}
        /\ kernel_only[next] => c = BootCpu
  BY <1>0, <1>t, Zenon DEF Selectable, Eligible, WokenState, TypeOK, ThreadState, SwitchTo
<1>2. \A e \in Cpu : previous[e] = NoNode
  BY <1>t DEF Unlocked, Placement, SwitchHoldsLock
<1>3. TypeOK'
  BY <1>t, <1>0 DEF TypeOK, SwitchTo
<1>4. Placement'
  <2> USE <1>t, <1>0, <1>1, <1>2 DEF TypeOK, Placement, SwitchTo
  <2>1. CurrentRuns'
    BY DEF CurrentRuns
  <2>2. RunningIsCurrent'
    BY DEF RunningIsCurrent, CurrentRuns
  <2>3. PlacedIsKnown'
    BY DEF PlacedIsKnown
  <2>4. SwitchHoldsLock'
    BY DEF SwitchHoldsLock, Unlocked
  <2>5. PreviousIsPlaced'
    BY DEF PreviousIsPlaced, CurrentRuns
  <2>6. TerminatedIsLeft'
    BY DEF TerminatedIsLeft
  <2>7. FreeIsNowhere'
    BY DEF FreeIsNowhere
  <2>8. UnstartedIdles'
    BY DEF UnstartedIdles
  <2> QED
    BY <2>1, <2>2, <2>3, <2>4, <2>5, <2>6, <2>7, <2>8, ZenonT(60) DEF Placement
<1>5. Depth'
  <2>1. \A e \in Cpu : /\ current'[e] \in Thread => preempt_depth'[e] = held'[current'[e]]
                       /\ current'[e] = Idle => preempt_depth'[e] = 0
    BY <1>t, <1>0, <1>1 DEF TypeOK, Placement, CurrentRuns, Depth, SwitchTo
  <2>2. \A t \in Thread : (\A e \in Cpu : current'[e] # t) => preempt_saved'[t] = held'[t]
    BY <1>t, <1>0, <1>1 DEF TypeOK, Placement, CurrentRuns, Depth, SwitchTo
  <2>3. preempt_saved'[Idle] = 0
    BY <1>t, <1>0, <1>1 DEF TypeOK, Placement, CurrentRuns, Depth, SwitchTo
  <2> QED
    BY <2>1, <2>2, <2>3, Zenon DEF Depth
<1>6. Confined'
  <2> USE <1>t, <1>0, <1>1 DEF TypeOK, SwitchTo
  <2>1. \A t \in UserThread : state'[t] # "FREE" => state[t] # "FREE"
    BY DEF Placement, CurrentRuns
  <2>2. \A t \in UserThread : /\ state'[t] # "FREE" /\ mode'[t] \in {"entering", "kernel"}
                              => kernel_only'[t]
    BY <2>1 DEF Confined
  <2>3. \A t \in UserThread : mode'[t] # "kernel" => held'[t] = 0
    BY DEF Confined
  <2>4. \A e \in Cpu : current'[e] \in UserThread /\ mode'[current'[e]] = "kernel" =>
                         e = BootCpu
    <3> SUFFICES ASSUME NEW e \in Cpu, current'[e] \in UserThread,
                        mode'[current'[e]] = "kernel"
                 PROVE  e = BootCpu
      BY Zenon
    <3>1. CASE e = c
      <4>1. state'[next] = "RUNNING" /\ current'[e] = next
        BY <3>1
      <4> QED
        BY <4>1, <3>1, <2>2
    <3>2. CASE e # c
      <4>1. current'[e] = current[e] /\ current[e] # current[c]
        BY <3>2 DEF Placement, CurrentRuns
      <4> QED
        BY <4>1 DEF Confined
    <3> QED
      BY <3>1, <3>2, Zenon
  <2> QED
    BY <2>2, <2>3, <2>4, Zenon DEF Confined
<1>7. NoStaleTimeout'
  BY <1>t, <1>0, <1>1 DEF TypeOK, NoStaleTimeout, ThreadState, SwitchTo
<1> QED
  BY <1>3, <1>4, <1>5, <1>6, <1>7, Zenon DEF IInv

(* Placement depends on these variables only.                              *)
LEMMA PlacementKept ==
  ASSUME Placement,
         UNCHANGED <<state, running_cpu, current, previous, started, runqueue_lock>>
  PROVE  Placement'
<1> USE DEF Placement
<1>1. CurrentRuns' /\ RunningIsCurrent'
  BY Zenon DEF CurrentRuns, RunningIsCurrent
<1>2. PlacedIsKnown' /\ SwitchHoldsLock'
  BY Zenon DEF PlacedIsKnown, SwitchHoldsLock
<1>3. PreviousIsPlaced' /\ TerminatedIsLeft'
  BY Zenon DEF PreviousIsPlaced, TerminatedIsLeft
<1>4. FreeIsNowhere' /\ UnstartedIdles'
  BY Zenon DEF FreeIsNowhere, UnstartedIdles
<1> QED
  BY <1>1, <1>2, <1>3, <1>4, Zenon

(* A call that leaves every thread and processor where it is: only marks   *)
(* and requests change (reschedule_pending, ipi, affinity, wake_pending).  *)
LEMMA MarkInv ==
  ASSUME IInv, TypeOK',
         UNCHANGED <<state, running_cpu, wake_tick, kernel_only, mode, depthVars,
                     current, previous, started, runqueue_lock>>
  PROVE  IInv'
<1> USE DEF IInv, depthVars
<1>1. Placement'
  BY PlacementKept, Zenon
<1>2. Depth'
  BY Zenon DEF Depth
<1>3. Confined'
  BY Zenon DEF Confined
<1>4. NoStaleTimeout'
  BY Zenon DEF NoStaleTimeout
<1> QED
  BY <1>1, <1>2, <1>3, <1>4, Zenon

(* scheduler_yield preserves the invariant.                                *)
LEMMA YieldInv ==
  ASSUME IInv, NEW c \in Cpu, c \in started, YieldOn(c),
         UNCHANGED <<kernel_only, affinity, affinity_auto, held, started>>,
         ipi' \in SUBSET Cpu,
         mode' \in [Thread -> {"user", "entering", "kernel", "leaving"}],
         \A t \in Thread : t # current[c] => mode'[t] = mode[t],
         current[c] \in UserThread =>
           \/ mode'[current[c]] = mode[current[c]]
           \/ mode[current[c]] = "entering" /\ mode'[current[c]] = "kernel"
           \/ mode[current[c]] = "leaving" /\ mode'[current[c]] = "user",
         current[c] \notin UserThread => UNCHANGED mode
  PROVE  IInv'
<1> USE ThreadAssumption DEF IInv
<1>1. /\ current[c] \in Node
      /\ preempt_depth[c] \in Nat
      /\ current[c] \in Thread => held[current[c]] = preempt_depth[c]
      /\ current[c] = Idle => preempt_depth[c] = 0
  BY Zenon DEF TypeOK, Depth, Node
<1>2. CASE preempt_depth[c] > 0
  <2>1. current[c] \in UserThread => mode[current[c]] = "kernel"
    BY <1>1, <1>2 DEF Confined
  <2>2. mode' = mode
    BY <2>1 DEF TypeOK
  <2> QED
    BY <1>2, <2>2, MarkInv DEF YieldOn, threadVars, depthVars, TypeOK
<1>3. CASE preempt_depth[c] = 0
  <2>1. /\ Unlocked
        /\ ScheduleFrom(c, state, wake_tick, preempt_depth[c])
        /\ UNCHANGED <<wake_pending, reschedule_pending>>
    BY <1>3 DEF YieldOn, ScheduleLocked
  <2>2. current[c] \in Thread =>
           /\ state[current[c]] = "RUNNING"
           /\ wake_tick[current[c]] = "never"
    BY Zenon DEF Placement, CurrentRuns, NoStaleTimeout, TypeOK
  <2>3. current[c] \in UserThread =>
           /\ mode'[current[c]] \in {"entering", "kernel"} => kernel_only[current[c]]
           /\ mode'[current[c]] # "kernel" => held'[current[c]] = 0
    BY <2>2, <1>1, <1>3, Zenon DEF Confined
  <2>4. started' = started \cup {c}
    BY Zenon
  <2>5. TypeOK
    BY Zenon
  <2> QED
    BY <1>1, <2>1, <2>2, <2>3, <2>4, <2>5, ScheduleInv, ZenonT(60) DEF TypeOK
<1> QED
  BY <1>1, <1>2, <1>3

(* The current thread of c marks itself s, arms its wake-up tick and       *)
(* schedules: scheduler_sleep, scheduler_block and scheduler_exit.         *)
LEMMA GiveUpInv ==
  ASSUME IInv, Unlocked, NEW c \in Cpu, NEW t \in Thread, current[c] = t,
         NEW s \in {"BLOCKED", "TERMINATED"}, NEW tick \in {"never", "later", "now"},
         tick # "never" => s = "BLOCKED",
         ScheduleFrom(c, [state EXCEPT ![t] = s], [wake_tick EXCEPT ![t] = tick],
                      preempt_depth[c]),
         UNCHANGED <<kernel_only, affinity, affinity_auto, mode, held, started,
                     reschedule_pending, ipi>>,
         wake_pending' \in [Thread -> BOOLEAN]
  PROVE  IInv'
<1> DEFINE st == [state EXCEPT ![t] = s]
           wt == [wake_tick EXCEPT ![t] = tick]
<1> USE ThreadAssumption DEF IInv
<1>1. /\ st \in [Thread -> ThreadState]
      /\ wt \in [Thread -> {"never", "later", "now"}]
      /\ st[t] = s /\ wt[t] = tick
      /\ \A u \in Thread : u # t => st[u] = state[u] /\ wt[u] = wake_tick[u]
  BY Zenon DEF TypeOK, ThreadState
<1>2. /\ preempt_depth[c] \in Nat /\ held'[t] = preempt_depth[c]
      /\ held' \in [Thread -> Nat]
      /\ mode' \in [Thread -> {"user", "entering", "kernel", "leaving"}]
      /\ reschedule_pending' \in SUBSET Cpu /\ ipi' \in SUBSET Cpu
      /\ started' = started \cup {c}
  BY DEF TypeOK, Depth, Placement, UnstartedIdles
<1>3. t \in UserThread =>
        /\ mode'[t] \in {"entering", "kernel"} => kernel_only[t]
        /\ mode'[t] # "kernel" => held'[t] = 0
  BY Zenon DEF Confined, Placement, CurrentRuns
<1>4. ScheduleFrom(c, st, wt, preempt_depth[c])
  BY Zenon
<1> HIDE DEF st, wt, IInv
<1> QED
  BY <1>1, <1>2, <1>3, <1>4, ScheduleInv


(* Every action of the scheduler preserves the invariant.                  *)
LEMMA StepInv == IInv /\ [Next]_vars => IInv'
<1> SUFFICES ASSUME IInv, [Next]_vars PROVE IInv'
  BY Zenon
<1> USE ThreadAssumption, CpuAssumption
<1>t. TypeOK /\ Placement /\ Depth /\ Confined /\ NoStaleTimeout
  BY Zenon DEF IInv
<1>c. \A c \in Cpu :
        /\ current[c] \in Node /\ preempt_depth[c] \in Nat
        /\ current[c] \in Thread =>
             /\ state[current[c]] = "RUNNING" /\ wake_tick[current[c]] = "never"
             /\ held[current[c]] = preempt_depth[c] /\ running_cpu[current[c]] = c
             /\ c \in started
        /\ current[c] = Idle => preempt_depth[c] = 0
        /\ current[c] \in UserThread =>
             /\ mode[current[c]] \in {"entering", "kernel"} => kernel_only[current[c]]
             /\ mode[current[c]] # "kernel" => held[current[c]] = 0
  BY <1>t DEF TypeOK, Placement, CurrentRuns, UnstartedIdles, NoStaleTimeout, Depth,
              Confined, Node
<1>u. \A c, e \in Cpu : current[c] \in Thread /\ current[e] = current[c] => e = c
  BY <1>t, Zenon DEF Placement, CurrentRuns
<1>1. ASSUME NEW c \in Cpu, FinishSwitch(c) PROVE IInv'
  <2> USE <1>1, <1>t DEF FinishSwitch, FinishedState, placeVars, depthVars
  <2>1. TypeOK'
    BY Zenon DEF TypeOK, ThreadState, Node
  <2>2. \A e \in Cpu : e # c => previous[e] = NoNode
    BY Zenon DEF Placement, SwitchHoldsLock
  <2>3. \A e \in Cpu : previous'[e] = NoNode
    BY <2>2, Zenon DEF TypeOK
  <2>4. Placement'
    <3> USE <2>1, <2>2, <2>3 DEF TypeOK, Placement
    <3>1. CurrentRuns'
      BY DEF CurrentRuns, PreviousIsPlaced
    <3>2. RunningIsCurrent'
      BY DEF RunningIsCurrent, PreviousIsPlaced
    <3>3. PlacedIsKnown'
      BY DEF PlacedIsKnown, SwitchHoldsLock, NoCpu
    <3>4. SwitchHoldsLock'
      BY DEF SwitchHoldsLock, NoCpu
    <3>5. PreviousIsPlaced'
      BY Zenon DEF PreviousIsPlaced
    <3>6. TerminatedIsLeft'
      BY Zenon DEF TerminatedIsLeft
    <3>7. FreeIsNowhere'
      BY Zenon DEF FreeIsNowhere
    <3>8. UnstartedIdles'
      BY Zenon DEF UnstartedIdles
    <3> QED
      BY <3>1, <3>2, <3>3, <3>4, <3>5, <3>6, <3>7, <3>8, Zenon
  <2>5. Depth'
    BY Zenon DEF Depth
  <2>6. Confined'
    BY Zenon DEF Confined, TypeOK
  <2>7. NoStaleTimeout'
    BY Zenon DEF NoStaleTimeout, TypeOK
  <2> QED
    BY <2>1, <2>4, <2>5, <2>6, <2>7, Zenon DEF IInv
<1>2. ASSUME NEW c \in Cpu, NEW t \in Thread, NEW aff \in Cpu \cup {NoCpu},
             CreateThread(c, t, aff)
      PROVE  IInv'
  <2>0. /\ \A u \in Thread : u # t =>
             held'[u] = held[u] /\ preempt_saved'[u] = preempt_saved[u]
        /\ held'[t] = 0 /\ preempt_saved'[t] = 0
        /\ preempt_saved'[Idle] = preempt_saved[Idle]
        /\ UNCHANGED <<current, preempt_depth>>
    BY <1>2, <1>t, Zenon DEF CreateThread, TypeOK, Node
  <2>2. \A e \in Cpu : current[e] # t /\ previous[e] # t
    <3>1. state[t] = "FREE" /\ runqueue_lock = NoCpu
      BY <1>2, Zenon DEF CreateThread, Unlocked
    <3>2. \A e \in Cpu : current[e] # t
      BY <3>1, <1>t, Zenon DEF Placement, CurrentRuns
    <3>3. \A e \in Cpu : previous[e] = NoNode
      BY <3>1, <1>t DEF Placement, SwitchHoldsLock, NoCpu
    <3> QED
      BY <3>2, <3>3, Zenon
  <2>4. Depth'
    <3>1. \A e \in Cpu : current[e] \in Thread => preempt_depth'[e] = held'[current[e]]
      BY <2>0, <2>2, <1>t, Zenon DEF Depth
    <3> QED
      BY <2>0, <3>1, <1>t, Zenon DEF Depth
  <2> USE <1>2, <1>t DEF CreateThread, RescheduleAll
  <2>1. TypeOK'
    BY DEF TypeOK, ThreadState, Node
  <2>3. Placement'
    <3> USE <2>2 DEF TypeOK, Placement
    <3>1. CurrentRuns' /\ RunningIsCurrent'
      BY DEF CurrentRuns, RunningIsCurrent
    <3>2. PlacedIsKnown' /\ SwitchHoldsLock'
      BY DEF PlacedIsKnown, SwitchHoldsLock, NoCpu
    <3>3. PreviousIsPlaced' /\ TerminatedIsLeft'
      BY DEF PreviousIsPlaced, TerminatedIsLeft
    <3>4. FreeIsNowhere' /\ UnstartedIdles'
      BY Zenon DEF FreeIsNowhere, UnstartedIdles
    <3> QED
      BY <3>1, <3>2, <3>3, <3>4, Zenon
  <2>5. Confined'
    BY <2>2, Zenon DEF Confined, TypeOK
  <2>6. NoStaleTimeout'
    BY Zenon DEF NoStaleTimeout, TypeOK
  <2> QED
    BY <2>1, <2>3, <2>4, <2>5, <2>6, Zenon DEF IInv
<1>3. ASSUME NEW c \in Cpu, Yield(c) PROVE IInv'
  <2>1. c \in started
    <3>1. c \in started \/ current[c] \in Thread
      BY <1>3, Zenon DEF Yield, InKernel
    <3> QED
      BY <3>1, <1>c, Zenon
  <2> QED
    BY <2>1, <1>3, <1>t, YieldInv, Zenon DEF Yield, placeVars, TypeOK
<1>4. ASSUME NEW c \in Cpu, NEW t \in Thread, Sleep(c, t) PROVE IInv'
  <2>1. PICK tick \in {"later", "now"} :
          ScheduleFrom(c, [state EXCEPT ![t] = "BLOCKED"],
                          [wake_tick EXCEPT ![t] = tick], preempt_depth[c])
    BY <1>4, Zenon DEF Sleep, ScheduleLocked
  <2>2. /\ Unlocked /\ current[c] = t
        /\ UNCHANGED <<kernel_only, affinity, affinity_auto, mode, held, started,
                       reschedule_pending, ipi>>
        /\ wake_pending' \in [Thread -> BOOLEAN]
    BY <1>4, <1>t, Zenon DEF Sleep, InKernel, placeVars, TypeOK
  <2> QED
    BY <2>1, <2>2, GiveUpInv, Zenon
<1>5. ASSUME NEW c \in Cpu, NEW t \in Thread, Block(c, t) PROVE IInv'
  <2>1. CASE wake_pending[t]
    BY <1>5, <2>1, <1>t, MarkInv, ZenonT(60) DEF Block, placeVars, depthVars, TypeOK
  <2>2. CASE ~wake_pending[t]
    <3>1. /\ Unlocked /\ current[c] = t
          /\ ScheduleFrom(c, [state EXCEPT ![t] = "BLOCKED"],
                             [wake_tick EXCEPT ![t] = "never"], preempt_depth[c])
          /\ UNCHANGED <<kernel_only, affinity, affinity_auto, mode, held, started,
                         reschedule_pending, ipi, wake_pending>>
      <4>1. current[c] = t
        BY <1>5, Zenon DEF Block, InKernel
      <4>2. [wake_tick EXCEPT ![t] = "never"] = wake_tick
        BY <4>1, <1>c, <1>t DEF TypeOK
      <4> QED
        BY <1>5, <2>2, <4>1, <4>2, Zenon DEF Block, ScheduleLocked, placeVars
    <3>2. wake_pending' \in [Thread -> BOOLEAN]
      BY <3>1, <1>t, Zenon DEF TypeOK
    <3> QED
      BY <3>1, <3>2, GiveUpInv, Zenon
  <2> QED
    BY <2>1, <2>2, Zenon
<1>6. ASSUME NEW c \in Cpu, NEW t \in Thread, Exit(c, t) PROVE IInv'
  <2>1. /\ Unlocked /\ current[c] = t
        /\ ScheduleFrom(c, [state EXCEPT ![t] = "TERMINATED"],
                           [wake_tick EXCEPT ![t] = "never"], preempt_depth[c])
        /\ UNCHANGED <<kernel_only, affinity, affinity_auto, mode, held, started,
                       reschedule_pending, ipi, wake_pending>>
    <3>1. current[c] = t
      BY <1>6, Zenon DEF Exit, InKernel
    <3>2. [wake_tick EXCEPT ![t] = "never"] = wake_tick
      BY <3>1, <1>c, <1>t DEF TypeOK
    <3> QED
      BY <1>6, <3>1, <3>2, Zenon DEF Exit, ScheduleLocked, placeVars
  <2>2. wake_pending' \in [Thread -> BOOLEAN]
    BY <2>1, <1>t, Zenon DEF TypeOK
  <2> QED
    BY <2>1, <2>2, GiveUpInv, Zenon
<1>7. ASSUME NEW c \in Cpu, NEW t \in Thread, Unblock(c, t) PROVE IInv'
  <2>1. TypeOK'
    <3>1. /\ UNCHANGED <<running_cpu, placeVars, depthVars, current, previous, started,
                         reschedule_pending, runqueue_lock>>
          /\ ipi' = ipi \cup (started \ {c})
      BY <1>7, Zenon DEF Unblock, RescheduleAll
    <3>2. /\ state' \in [Thread -> ThreadState]
          /\ wake_tick' \in [Thread -> {"never", "later", "now"}]
          /\ wake_pending' \in [Thread -> BOOLEAN]
      <4>1. CASE /\ EnqueueWoken(t)
                 /\ UNCHANGED wake_pending
        BY <4>1, <1>t, Zenon DEF EnqueueWoken, TypeOK, ThreadState
      <4>2. CASE /\ wake_pending' = [wake_pending EXCEPT ![t] = TRUE]
                 /\ UNCHANGED <<state, wake_tick>>
        BY <4>2, <1>t, Zenon DEF TypeOK
      <4>3. CASE UNCHANGED <<state, wake_tick, wake_pending>>
        BY <4>3, <1>t, Zenon DEF TypeOK
      <4> QED
        BY <1>7, <4>1, <4>2, <4>3, Zenon DEF Unblock
    <3> QED
      BY <3>1, <3>2, <1>t, Zenon DEF placeVars, depthVars, TypeOK
  <2>2. CASE state[t] # "BLOCKED"
    BY <1>7, <2>1, <2>2, MarkInv, Zenon DEF Unblock, placeVars
  <2>3. CASE state[t] = "BLOCKED"
    <3>1. /\ state' = [state EXCEPT ![t] = "READY"]
          /\ wake_tick' = [wake_tick EXCEPT ![t] = "never"]
          /\ UNCHANGED <<running_cpu, kernel_only, mode, preempt_saved, preempt_depth, held,
                         current, previous, started, runqueue_lock>>
      BY <1>7, <2>3, Zenon DEF Unblock, EnqueueWoken, placeVars, depthVars
    <3>2. Placement'
      <4> USE <2>3, <3>1, <1>t DEF TypeOK, Placement
      <4>1. CurrentRuns' /\ RunningIsCurrent'
        BY DEF CurrentRuns, RunningIsCurrent
      <4>2. PlacedIsKnown' /\ SwitchHoldsLock'
        BY Zenon DEF PlacedIsKnown, SwitchHoldsLock
      <4>3. PreviousIsPlaced' /\ TerminatedIsLeft'
        BY DEF PreviousIsPlaced, TerminatedIsLeft
      <4>4. FreeIsNowhere' /\ UnstartedIdles'
        BY Zenon DEF FreeIsNowhere, UnstartedIdles
      <4> QED
        BY <4>1, <4>2, <4>3, <4>4, Zenon
    <3>3. Depth' /\ Confined' /\ NoStaleTimeout'
      BY <2>3, <3>1, <1>t DEF TypeOK, Depth, Confined, NoStaleTimeout
    <3> QED
      BY <2>1, <3>2, <3>3, Zenon DEF IInv
  <2> QED
    BY <2>2, <2>3, Zenon
<1>8. ASSUME NEW c \in Cpu, NEW t \in Thread, NEW aff \in Cpu \cup {NoCpu},
             SetAffinity(c, t, aff)
      PROVE  IInv'
  <2>1. TypeOK'
    BY <1>8, <1>t, Zenon DEF SetAffinity, RescheduleAll, threadVars, depthVars, TypeOK
  <2> QED
    BY <1>8, <2>1, MarkInv, Zenon DEF SetAffinity, threadVars
<1>9. ASSUME NEW c \in Cpu, NEW t \in Thread, PreemptDisable(c, t) PROVE IInv'
  <2>1. /\ current[c] = t /\ mode[t] = "kernel"
        /\ preempt_depth' = [preempt_depth EXCEPT ![c] = @ + 1]
        /\ held' = [held EXCEPT ![t] = @ + 1]
        /\ UNCHANGED <<threadVars, placeVars, preempt_saved, current, previous,
                       started, reschedule_pending, runqueue_lock, ipi>>
    BY <1>9, Zenon DEF PreemptDisable, InKernel
  <2>2. TypeOK'
    BY <2>1, <1>t DEF threadVars, placeVars, TypeOK
  <2>3. Placement' /\ Confined' /\ NoStaleTimeout'
    <3>1. Placement'
      BY <2>1, <1>t, PlacementKept, Zenon DEF threadVars
    <3>2. Confined'
      BY <2>1, <1>t, Zenon DEF threadVars, placeVars, TypeOK, Confined
    <3>3. NoStaleTimeout'
      BY <2>1, <1>t, Zenon DEF threadVars, NoStaleTimeout
    <3> QED
      BY <3>1, <3>2, <3>3, Zenon
  <2>4. Depth'
    BY <2>1, <1>c, <1>t DEF Depth, TypeOK
  <2> QED
    BY <2>2, <2>3, <2>4, Zenon DEF IInv
<1>10. ASSUME NEW c \in Cpu, NEW t \in Thread, PreemptEnable(c, t) PROVE IInv'
  <2>1. /\ current[c] = t /\ mode[t] = "kernel" /\ held[t] > 0 /\ held[t] = preempt_depth[c]
        /\ held' = [held EXCEPT ![t] = @ - 1]
        /\ UNCHANGED <<placeVars, started, ipi>>
        /\ held[t] \in Nat /\ c \in started
    BY <1>10, <1>c, <1>t, Zenon DEF PreemptEnable, InKernel, OwesEnable, TypeOK
  <2>2. CASE MustYield(c)
    <3>1. /\ Unlocked
          /\ reschedule_pending' = reschedule_pending \ {c}
          /\ ScheduleFrom(c, state, wake_tick, 0)
          /\ UNCHANGED wake_pending
      BY <1>10, <2>2, Zenon DEF PreemptEnable
    <3>2. held'[t] = 0 /\ held' \in [Thread -> Nat]
      BY <2>1, <2>2, <1>t DEF MustYield, TypeOK
    <3>3. \A u \in Thread : u # t => held'[u] = held[u]
      BY <2>1, <1>t, Zenon DEF TypeOK
    <3>4. /\ state \in [Thread -> ThreadState]
          /\ wake_tick \in [Thread -> {"never", "later", "now"}]
          /\ mode' \in [Thread -> {"user", "entering", "kernel", "leaving"}]
          /\ wake_pending' \in [Thread -> BOOLEAN]
          /\ reschedule_pending' \in SUBSET Cpu /\ ipi' \in SUBSET Cpu
          /\ UNCHANGED <<kernel_only, affinity, affinity_auto, mode>>
          /\ started' = started \cup {c}
      BY <2>1, <3>1, <1>t DEF placeVars, TypeOK
    <3>5. /\ state[t] = "RUNNING" /\ wake_tick[t] = "never"
          /\ t \in UserThread => kernel_only[t] /\ mode'[t] = "kernel"
          /\ t # Idle
      BY <2>1, <3>4, <1>c, Zenon
    <3> QED
      BY <2>1, <3>1, <3>2, <3>3, <3>4, <3>5, ScheduleInv
  <2>3. CASE ~MustYield(c)
    <3>1. /\ preempt_depth' = [preempt_depth EXCEPT ![c] = @ - 1]
          /\ UNCHANGED <<threadVars, preempt_saved, current, previous,
                         reschedule_pending, runqueue_lock>>
      BY <1>10, <2>3, Zenon DEF PreemptEnable
    <3>2. TypeOK'
      BY <2>1, <3>1, <1>t DEF threadVars, placeVars, TypeOK
    <3>3. Placement' /\ Confined' /\ NoStaleTimeout'
      <4>1. Placement'
        BY <2>1, <3>1, <1>t, PlacementKept, Zenon DEF threadVars
      <4>2. Confined'
        BY <2>1, <3>1, <1>t, Zenon DEF threadVars, placeVars, TypeOK, Confined
      <4>3. NoStaleTimeout'
        BY <3>1, <1>t, Zenon DEF threadVars, NoStaleTimeout
      <4> QED
        BY <4>1, <4>2, <4>3, Zenon
    <3>4. Depth'
      BY <2>1, <3>1, <1>c, <1>t DEF Depth, TypeOK
    <3> QED
      BY <3>2, <3>3, <3>4, Zenon DEF IInv
  <2> QED
    BY <2>2, <2>3, Zenon
<1>11. ASSUME NEW c \in Cpu, TimerInterrupt(c) PROVE IInv'
  <2>1. c \in started /\ Unlocked /\ UNCHANGED <<wake_pending, placeVars, held, started, ipi>>
    BY <1>11, Zenon DEF TimerInterrupt, Interruptible
  <2>2. CASE preempt_depth[c] > 0
    <3>1. /\ reschedule_pending' = reschedule_pending \cup {c}
          /\ UNCHANGED <<state, running_cpu, wake_tick, preempt_saved,
                         preempt_depth, current, previous, runqueue_lock>>
      BY <1>11, <2>2, Zenon DEF TimerInterrupt
    <3>2. TypeOK'
      BY <2>1, <3>1, <1>t, Zenon DEF placeVars, TypeOK
    <3> QED
      BY <2>1, <3>1, <3>2, MarkInv, Zenon DEF placeVars, depthVars
  <2>3. CASE ~(preempt_depth[c] > 0)
    <3>1. /\ reschedule_pending' = reschedule_pending \ {c}
          /\ ScheduleFrom(c, state, wake_tick, preempt_depth[c])
      BY <1>11, <2>3, Zenon DEF TimerInterrupt, ScheduleLocked
    <3>2. started' = started \cup {c} /\ reschedule_pending' \in SUBSET Cpu
      BY <2>1, <3>1, <1>t DEF TypeOK
    <3>3. /\ state \in [Thread -> ThreadState]
          /\ wake_tick \in [Thread -> {"never", "later", "now"}]
          /\ mode' \in [Thread -> {"user", "entering", "kernel", "leaving"}]
          /\ held' \in [Thread -> Nat] /\ wake_pending' \in [Thread -> BOOLEAN]
          /\ ipi' \in SUBSET Cpu
          /\ UNCHANGED <<kernel_only, affinity, affinity_auto, mode, held>>
      BY <2>1, <1>t, Zenon DEF placeVars, TypeOK
    <3> QED
      BY <2>1, <3>1, <3>2, <3>3, <1>t, <1>c, ScheduleInv
  <2> QED
    BY <2>2, <2>3, Zenon
<1>12. ASSUME NEW c \in Cpu, RescheduleInterrupt(c) PROVE IInv'
  <2>1. /\ c \in started /\ YieldOn(c) /\ ipi' = ipi \ {c}
        /\ UNCHANGED <<placeVars, held, started>>
    BY <1>12, Zenon DEF RescheduleInterrupt, Interruptible
  <2> QED
    BY <2>1, <1>t, YieldInv, Zenon DEF placeVars, TypeOK
<1>13. ASSUME NEW c \in Cpu, Start(c) PROVE IInv'
  <2>1. /\ Unlocked /\ started' = started \cup {c}
        /\ ScheduleFrom(c, state, wake_tick, preempt_depth[c])
        /\ UNCHANGED <<wake_pending, placeVars, held, reschedule_pending, ipi>>
    BY <1>13, Zenon DEF Start, ScheduleLocked
  <2> QED
    BY <2>1, <1>t, <1>c, ScheduleInv, Zenon DEF placeVars, TypeOK
<1>14. ASSUME NEW t \in Thread, Elapse(t) PROVE IInv'
  <2> USE <1>14, <1>t DEF Elapse, placeVars, depthVars
  <2>1. TypeOK'
    BY Zenon DEF TypeOK
  <2>2. Placement'
    BY PlacementKept, Zenon
  <2>3. Depth'
    BY Zenon DEF Depth
  <2>4. Confined'
    BY Zenon DEF Confined
  <2>5. NoStaleTimeout'
    BY Zenon DEF NoStaleTimeout, TypeOK
  <2> QED
    BY <2>1, <2>2, <2>3, <2>4, <2>5, Zenon DEF IInv
<1>15. ASSUME NEW c \in Cpu, NEW t \in Thread, EnterKernel(c, t) PROVE IInv'
  <2>0. /\ current[c] = t /\ mode[t] = "user"
        /\ UNCHANGED <<state, running_cpu, wake_tick, wake_pending, affinity, affinity_auto,
                       preempt_saved, preempt_depth, held, current, previous, started,
                       reschedule_pending, runqueue_lock>>
    BY <1>15, Zenon DEF EnterKernel, threadVars, depthVars
  <2>1. TypeOK'
    BY <1>15, <1>t, Zenon DEF EnterKernel, threadVars, depthVars, TypeOK
  <2>2. Placement' /\ NoStaleTimeout'
    BY <2>0, <1>t, PlacementKept, Zenon DEF NoStaleTimeout
  <2>3. Depth'
    BY <2>0, <1>t, Zenon DEF Depth
  <2>4. Confined'
    <3>1. /\ \A u \in Thread : u # t =>
               mode'[u] = mode[u] /\ kernel_only'[u] = kernel_only[u]
          /\ mode'[t] = "kernel" => c = BootCpu
          /\ kernel_only'[t] = TRUE
      BY <1>15, <1>t, Zenon DEF EnterKernel, TypeOK
    <3>2. \A e \in Cpu : current[e] = t => e = c
      BY <2>0, <1>u, Zenon
    <3>3. \A u \in UserThread : state'[u] # "FREE" /\ mode'[u] \in {"entering", "kernel"} =>
            kernel_only'[u]
      BY <2>0, <3>1, <1>t, Zenon DEF Confined
    <3>4. \A u \in UserThread : mode'[u] # "kernel" => held'[u] = 0
      BY <2>0, <3>1, <1>t, Zenon DEF Confined
    <3>5. \A e \in Cpu : current'[e] \in UserThread /\ mode'[current'[e]] = "kernel" =>
            e = BootCpu
      BY <2>0, <3>1, <3>2, <1>t, Zenon DEF Confined
    <3> QED
      BY <3>3, <3>4, <3>5, Zenon DEF Confined
  <2> QED
    BY <2>1, <2>2, <2>3, <2>4, Zenon DEF IInv
<1>16. ASSUME NEW c \in Cpu, NEW t \in Thread, EnterYield(c, t) PROVE IInv'
  <2>1. /\ current[c] = t /\ t \in UserThread /\ mode[t] = "entering" /\ YieldOn(c)
        /\ mode' = [mode EXCEPT ![t] = "kernel"]
        /\ UNCHANGED <<kernel_only, affinity, affinity_auto, held, started, ipi>>
    BY <1>16, Zenon DEF EnterYield
  <2> QED
    BY <2>1, <1>t, <1>c, YieldInv, Zenon DEF TypeOK
<1>17. ASSUME NEW c \in Cpu, NEW t \in Thread, LeaveKernel(c, t) PROVE IInv'
  <2>1. /\ held[t] = 0 /\ kernel_only' = [kernel_only EXCEPT ![t] = FALSE]
        /\ UNCHANGED <<state, running_cpu, wake_tick, wake_pending, preempt_saved,
                       preempt_depth, held, current, previous, started,
                       reschedule_pending, runqueue_lock>>
    BY <1>17, Zenon DEF LeaveKernel, threadVars, depthVars
  <2>2. /\ affinity' \in [Thread -> Cpu \cup {NoCpu}]
        /\ affinity_auto' \in [Thread -> BOOLEAN]
    <3>1. CASE affinity[t] = NoCpu \/ affinity_auto[t]
      <4>1. PICK target \in {NoCpu} \cup (started \ {c}) :
              /\ affinity' = [affinity EXCEPT ![t] = target]
              /\ affinity_auto' = [affinity_auto EXCEPT ![t] = target # NoCpu]
        BY <1>17, <3>1, Zenon DEF LeaveKernel
      <4>2. (target # NoCpu) \in BOOLEAN
        BY Zenon
      <4>3. affinity_auto' \in [Thread -> BOOLEAN]
        BY <4>1, <4>2, <1>t, Zenon DEF TypeOK
      <4> QED
        BY <4>1, <4>3, <1>t, Zenon DEF TypeOK
    <3>2. CASE ~(affinity[t] = NoCpu \/ affinity_auto[t])
      BY <1>17, <3>2, <1>t, Zenon DEF LeaveKernel, TypeOK
    <3> QED
      BY <3>1, <3>2, Zenon
  <2>3. /\ mode'[t] \in {"user", "leaving"}
        /\ mode' \in [Thread -> {"user", "entering", "kernel", "leaving"}]
        /\ \A u \in Thread : u # t => mode'[u] = mode[u]
    BY <1>17, <1>t, Zenon DEF LeaveKernel, TypeOK
  <2>4. ipi' \in SUBSET Cpu
    BY <1>17, <1>t, Zenon DEF LeaveKernel, TypeOK
  <2>5. TypeOK'
    BY <2>1, <2>2, <2>3, <2>4, <1>t, Zenon DEF TypeOK
  <2>6. Placement' /\ NoStaleTimeout'
    BY <2>1, <1>t, PlacementKept, Zenon DEF NoStaleTimeout
  <2>7. Depth'
    BY <2>1, <1>t, Zenon DEF Depth
  <2>8. Confined'
    BY <2>1, <2>3, <1>t, Zenon DEF Confined, TypeOK
  <2> QED
    BY <2>5, <2>6, <2>7, <2>8, Zenon DEF IInv
<1>18. ASSUME NEW c \in Cpu, NEW t \in Thread, LeaveYield(c, t) PROVE IInv'
  <2>1. /\ current[c] = t /\ t \in UserThread /\ mode[t] = "leaving" /\ YieldOn(c)
        /\ mode' = [mode EXCEPT ![t] = "user"]
        /\ UNCHANGED <<kernel_only, affinity, affinity_auto, held, started, ipi>>
    BY <1>18, Zenon DEF LeaveYield
  <2> QED
    BY <2>1, <1>t, <1>c, YieldInv, Zenon DEF TypeOK
<1>19. CASE UNCHANGED vars
  BY <1>19, <1>t, MarkInv, Zenon DEF vars, threadVars, placeVars, depthVars, TypeOK
<1> QED
  BY <1>1, <1>2, <1>3, <1>4, <1>5, <1>6, <1>7, <1>8, <1>9, <1>10, <1>11, <1>12, <1>13,
     <1>14, <1>15, <1>16, <1>17, <1>18, <1>19, Zenon DEF Next

-----------------------------------------------------------------------------
(* The invariant holds in every state of every behaviour of the scheduler. *)
THEOREM Invariance == Spec => []IInv
BY InitInv, StepInv, PTL DEF Spec


(* The scheduler's variables keep their types; in particular no processor's *)
(* preempt_depth goes below zero.                                          *)
THEOREM TypeCorrect == Spec => []TypeOK
<1>1. IInv => TypeOK
  BY Zenon DEF IInv
<1> QED
  BY <1>1, Invariance, PTL

(* No two processors ever run on the stack of one thread, for any number   *)
(* of processors and threads (finish_switch, pick_next).                   *)
THEOREM OneCpu == Spec => []OneCpuPerThread
<1>1. IInv => OneCpuPerThread
  BY ThreadAssumption DEF IInv, Placement, CurrentRuns, PreviousIsPlaced, OneCpuPerThread
<1> QED
  BY <1>1, Invariance, PTL

(* A thread that scheduler_thread_stopped reports as stopped is freed, and *)
(* no processor uses its stack or address space.                           *)
THEOREM Stopped == Spec => []StoppedIsGone
<1>1. IInv => StoppedIsGone
  <2> SUFFICES ASSUME IInv, NEW t \in Thread, ThreadStopped(t)
               PROVE  /\ state[t] = "FREE"
                      /\ running_cpu[t] = NoCpu
                      /\ \A c \in Cpu : current[c] # t /\ previous[c] # t
    BY Zenon DEF StoppedIsGone
  <2> USE ThreadAssumption DEF IInv, Placement, ThreadStopped
  <2>0. NoCpu \notin Cpu
    BY CpuAssumption DEF NoCpu
  <2>1. \A c \in Cpu : previous[c] = NoNode
    BY <2>0, Zenon DEF SwitchHoldsLock, Unlocked
  <2>2. state[t] = "FREE"
    BY <2>1 DEF TypeOK, ThreadState, TerminatedIsLeft
  <2> QED
    BY <2>1, <2>2 DEF FreeIsNowhere, CurrentRuns
<1> QED
  BY <1>1, Invariance, PTL

(* scheduler_enter_kernel returns on processor 0: user threads run kernel  *)
(* code nowhere else.                                                      *)
THEOREM KernelConfined == Spec => []KernelOnBootCpu
<1>1. IInv => KernelOnBootCpu
  BY Zenon DEF IInv, Confined, KernelOnBootCpu, InKernel
<1> QED
  BY <1>1, Invariance, PTL

(* A processor's preempt_depth is that of the thread it runs, across any   *)
(* sequence of switches.                                                   *)
THEOREM DepthCorrect == Spec => []DepthFollowsThread
<1>1. IInv => DepthFollowsThread
  BY Zenon DEF IInv, Depth, DepthFollowsThread
<1> QED
  BY <1>1, Invariance, PTL

(* Only a blocked thread has a wake-up tick armed.                         *)
THEOREM TimeoutsFresh == Spec => []NoStaleTimeout
<1>1. IInv => NoStaleTimeout
  BY Zenon DEF IInv
<1> QED
  BY <1>1, Invariance, PTL

-----------------------------------------------------------------------------
(* What a step does to the processor of a thread that holds preemption off *)
(* (used for PreemptionRespected).                                         *)
LEMMA YieldKeeps ==
  ASSUME IInv, NEW c \in Cpu, NEW e \in Cpu, YieldOn(e),
         current[c] \in Thread, held[current[c]] > 0
  PROVE  current'[c] = current[c]
<1>1. preempt_depth[c] = held[current[c]]
  BY Zenon DEF IInv, Depth
<1>2. CASE e = c
  BY <1>1, <1>2, Zenon DEF YieldOn
<1>3. CASE e # c
  BY <1>3, Zenon DEF YieldOn, ScheduleLocked, ScheduleFrom, IInv, TypeOK
<1> QED
  BY <1>2, <1>3, Zenon

(* No interrupt, yield or wake-up takes the processor of a thread that has *)
(* preemption disabled.                                                    *)
THEOREM NoPreemption == Spec => PreemptionRespected
<1>1. ASSUME IInv, [Next]_vars, NEW c \in Cpu, NEW t \in Thread,
             current[c] = t, held[t] > 0, current'[c] # t
      PROVE  Sleep(c, t) \/ Block(c, t) \/ Exit(c, t) \/ held'[t] = 0
  <2> USE <1>1
  <2>0. /\ held[t] \in Nat /\ preempt_depth[c] = held[t] /\ c \in started
        /\ current \in [Cpu -> Node]
        /\ \A e \in Cpu, u \in Thread : e # c /\ current[e] = u => u # t
    <3>1. held[t] \in Nat /\ current \in [Cpu -> Node]
      BY Zenon DEF IInv, TypeOK
    <3>2. preempt_depth[c] = held[t]
      BY Zenon DEF IInv, Depth
    <3>3. c \in started
      BY ThreadAssumption, Zenon DEF IInv, Placement, UnstartedIdles
    <3>4. \A e \in Cpu : current[e] = t => e = c
      BY ZenonT(60) DEF IInv, Placement, CurrentRuns
    <3> QED
      BY <3>1, <3>2, <3>3, <3>4, Zenon
  <2>1. \A e \in Cpu : \A st, wt, d : ScheduleFrom(e, st, wt, d) => e = c
    BY <2>0, ZenonT(60) DEF ScheduleFrom
  <2>2. \A e \in Cpu : ~YieldOn(e)
    BY YieldKeeps, Zenon
  <2>3. ~UNCHANGED current
    BY Zenon
  <2>4. ASSUME NEW e \in Cpu,
               \/ FinishSwitch(e) \/ Yield(e) \/ Start(e)
               \/ TimerInterrupt(e) \/ RescheduleInterrupt(e)
        PROVE  FALSE
    BY <2>0, <2>1, <2>2, <2>3, <2>4, Zenon DEF FinishSwitch, Yield, Start, TimerInterrupt,
         RescheduleInterrupt, ScheduleLocked
  <2>5. ASSUME NEW e \in Cpu, NEW u \in Thread, Sleep(e, u) \/ Block(e, u) \/ Exit(e, u)
        PROVE  Sleep(c, t) \/ Block(c, t) \/ Exit(c, t)
    <3>1. current[e] = u
      BY <2>5, Zenon DEF Sleep, Block, Exit, InKernel
    <3>2. e = c
      BY <2>5, <2>1, <2>3, Zenon DEF Sleep, Block, Exit, ScheduleLocked
    <3> QED
      BY <2>5, <3>1, <3>2, Zenon
  <2>6. ASSUME NEW e \in Cpu, NEW u \in Thread, PreemptEnable(e, u)
        PROVE  held'[t] = 0
    <3>1. current[e] = u /\ MustYield(e) /\ held' = [held EXCEPT ![u] = @ - 1]
      BY <2>6, <2>3, Zenon DEF PreemptEnable, InKernel
    <3>2. e = c /\ u = t
      BY <2>6, <3>1, <2>1, Zenon DEF PreemptEnable
    <3> QED
      BY <3>1, <3>2, <2>0 DEF MustYield, IInv, TypeOK
  <2>7. ASSUME NEW e \in Cpu, NEW u \in Thread,
               \/ Unblock(e, u) \/ PreemptDisable(e, u) \/ EnterKernel(e, u)
               \/ EnterYield(e, u) \/ LeaveKernel(e, u) \/ LeaveYield(e, u)
        PROVE  FALSE
    BY <2>7, <2>2, <2>3, Zenon DEF Unblock, PreemptDisable, EnterKernel, EnterYield,
         LeaveKernel, LeaveYield
  <2>8. ASSUME NEW e \in Cpu, NEW u \in Thread, NEW aff \in Cpu \cup {NoCpu},
               CreateThread(e, u, aff) \/ SetAffinity(e, u, aff)
        PROVE  FALSE
    BY <2>8, <2>3, Zenon DEF CreateThread, SetAffinity
  <2>9. ASSUME NEW u \in Thread, Elapse(u) PROVE FALSE
    BY <2>9, <2>3, Zenon DEF Elapse
  <2>10. ~UNCHANGED vars
    BY <2>3, Zenon DEF vars
  <2> QED
    BY <2>4, <2>5, <2>6, <2>7, <2>8, <2>9, <2>10, Zenon DEF Next
<1>2. IInv /\ [Next]_vars =>
        [\A c \in Cpu, t \in Thread :
           current[c] = t /\ held[t] > 0 /\ current'[c] # t
             => \/ Sleep(c, t) \/ Block(c, t) \/ Exit(c, t)
                \/ held'[t] = 0]_vars
  BY <1>1, Zenon
<1> QED
  BY <1>2, Invariance, PTL DEF Spec, PreemptionRespected

-----------------------------------------------------------------------------
(* The scheduler implements SleepWake.                                     *)

(* The sleepers that schedule_locked wakes up on the way.                  *)
Due(st, wt) == {t \in Thread : st[t] = "BLOCKED" /\ wt[t] = "now"}

(* Seen through Phase, schedule_locked only lets timeouts run out.         *)
LEMMA SchedulePhase ==
  ASSUME TypeOK, NEW c \in Cpu, NEW d \in Nat,
         NEW st \in [Thread -> ThreadState],
         NEW wt \in [Thread -> {"never", "later", "now"}],
         ScheduleFrom(c, st, wt, d)
  PROVE  Phase' = SW!Expired(PhaseOf(st, wt), Due(st, wt))
<1>1. PICK next \in Node : SwitchTo(c, st, wt, d, next)
  BY ScheduleEffect, Zenon
<1>2. next \in Thread =>
        st[next] \in {"READY", "RUNNING"} \/ (st[next] = "BLOCKED" /\ wt[next] = "now")
  BY <1>1, Zenon DEF SwitchTo, Selectable, WokenState
<1>3. ASSUME NEW t \in Thread
      PROVE  Phase'[t] = SW!Expired(PhaseOf(st, wt), Due(st, wt))[t]
  BY <1>1, <1>2, ZenonT(60) DEF SwitchTo, Phase, PhaseOf, Due, SW!Expired, ThreadState
<1> QED
  BY <1>3, Zenon DEF Phase, PhaseOf, SW!Expired

(* A step that only schedules is an expiry of timeouts.                    *)
LEMMA ScheduleExpires ==
  ASSUME TypeOK, NEW c \in Cpu, NEW d \in Nat,
         ScheduleFrom(c, state, wake_tick, d), UNCHANGED wake_pending
  PROVE  SW!SWNext
<1>1. Phase' = SW!Expired(Phase, Due(state, wake_tick))
  BY SchedulePhase, Zenon DEF TypeOK, Phase
<1>2. Due(state, wake_tick) \in SUBSET Thread
  BY Zenon DEF Due
<1> QED
  BY <1>1, <1>2, Zenon DEF SW!SWNext, SW!Expire

(* scheduler_yield expires timeouts, or changes no phase. *)
LEMMA YieldExpires ==
  ASSUME TypeOK, NEW c \in Cpu, YieldOn(c)
  PROVE  SW!SWNext \/ UNCHANGED <<Phase, wake_pending>>
<1>1. CASE preempt_depth[c] > 0
  BY <1>1, Zenon DEF YieldOn, threadVars, Phase, PhaseOf
<1>2. CASE ~(preempt_depth[c] > 0)
  BY <1>2, ScheduleExpires, Zenon DEF YieldOn, ScheduleLocked, TypeOK
<1> QED
  BY <1>1, <1>2, Zenon

(* Every step of the scheduler is a step of SleepWake or invisible to it.  *)
LEMMA StepRefines == IInv /\ [Next]_vars => [SW!SWNext]_(SW!swVars)
<1> SUFFICES ASSUME IInv, [Next]_vars PROVE SW!SWNext \/ UNCHANGED <<Phase, wake_pending>>
  BY Zenon DEF SW!swVars
<1>t. TypeOK
  BY Zenon DEF IInv
<1>c. \A c \in Cpu : current[c] \in Thread =>
        state[current[c]] = "RUNNING" /\ wake_tick[current[c]] = "never"
  BY DEF IInv, TypeOK, Placement, CurrentRuns, NoStaleTimeout
<1>1. ASSUME NEW c \in Cpu, FinishSwitch(c) PROVE UNCHANGED <<Phase, wake_pending>>
  BY <1>1, <1>t, Zenon DEF FinishSwitch, FinishedState, Phase, PhaseOf, TypeOK
<1>2. ASSUME NEW c \in Cpu, NEW t \in Thread, NEW aff \in Cpu \cup {NoCpu},
             CreateThread(c, t, aff)
      PROVE  SW!SWNext
  <2>1. SW!Spawn(t)
    BY <1>2, <1>t, Zenon DEF CreateThread, SW!Spawn, Phase, PhaseOf, TypeOK
  <2> QED
    BY <2>1, Zenon DEF SW!SWNext
<1>3. ASSUME NEW c \in Cpu, NEW t \in Thread, Sleep(c, t) PROVE SW!SWNext
  <2>1. PICK tick \in {"later", "now"} :
          ScheduleFrom(c, [state EXCEPT ![t] = "BLOCKED"],
                          [wake_tick EXCEPT ![t] = tick], preempt_depth[c])
    BY <1>3, Zenon DEF Sleep, ScheduleLocked
  <2> DEFINE st == [state EXCEPT ![t] = "BLOCKED"]
             wt == [wake_tick EXCEPT ![t] = tick]
  <2>2. /\ st \in [Thread -> ThreadState] /\ wt \in [Thread -> {"never", "later", "now"}]
        /\ preempt_depth[c] \in Nat
    BY <1>t, Zenon DEF TypeOK, ThreadState
  <2>3. PhaseOf(st, wt) = [Phase EXCEPT ![t] = "timed"]
    BY <1>t, Zenon DEF Phase, PhaseOf, TypeOK
  <2>4. Phase' = SW!Expired(PhaseOf(st, wt), Due(st, wt))
    <3> HIDE DEF st, wt
    <3> QED
      BY <1>t, <2>1, <2>2, SchedulePhase, Zenon DEF st, wt
  <2>5. Phase[t] = "awake" /\ wake_pending' = [wake_pending EXCEPT ![t] = FALSE]
    BY <1>3, <1>c, Zenon DEF Sleep, InKernel, Phase, PhaseOf
  <2>6. Due(st, wt) \in SUBSET Thread
    BY Zenon DEF Due
  <2>7. SW!Sleep(t, Due(st, wt))
    BY <2>3, <2>4, <2>5, Zenon DEF SW!Sleep
  <2> QED
    BY <2>6, <2>7, Zenon DEF SW!SWNext
<1>4. ASSUME NEW c \in Cpu, NEW t \in Thread, Block(c, t) PROVE SW!SWNext
  <2>1. Phase[t] = "awake" /\ wake_tick[t] = "never"
    BY <1>4, <1>c, Zenon DEF Block, InKernel, Phase, PhaseOf
  <2>2. CASE wake_pending[t]
    <3>1. /\ UNCHANGED Phase
          /\ wake_pending' = [wake_pending EXCEPT ![t] = FALSE]
      BY <1>4, <2>2, Zenon DEF Block, Phase, PhaseOf
    <3>2. SW!Block(t, {})
      BY <2>1, <2>2, <3>1, Zenon DEF SW!Block
    <3> QED
      BY <3>2, Zenon DEF SW!SWNext
  <2>3. CASE ~wake_pending[t]
    <3> DEFINE st == [state EXCEPT ![t] = "BLOCKED"]
    <3>1. ScheduleFrom(c, st, wake_tick, preempt_depth[c]) /\ UNCHANGED wake_pending
      BY <1>4, <2>3, Zenon DEF Block, ScheduleLocked
    <3>2. /\ st \in [Thread -> ThreadState] /\ preempt_depth[c] \in Nat
          /\ wake_tick \in [Thread -> {"never", "later", "now"}]
      BY <1>t, Zenon DEF TypeOK, ThreadState
    <3>3. PhaseOf(st, wake_tick) = [Phase EXCEPT ![t] = "blocked"]
      BY <1>t, <2>1, Zenon DEF Phase, PhaseOf, TypeOK
    <3>4. Phase' = SW!Expired(PhaseOf(st, wake_tick), Due(st, wake_tick))
      <4> HIDE DEF st
      <4> QED
        BY <1>t, <3>1, <3>2, SchedulePhase, Zenon
    <3>5. Due(st, wake_tick) \in SUBSET Thread
      BY Zenon DEF Due
    <3>6. wake_pending' = [wake_pending EXCEPT ![t] = FALSE]
      BY <3>1, <2>3, <1>t, Zenon DEF TypeOK
    <3>7. SW!Block(t, Due(st, wake_tick))
      BY <2>1, <2>3, <3>3, <3>4, <3>6, Zenon DEF SW!Block
    <3> QED
      BY <3>5, <3>7, Zenon DEF SW!SWNext
  <2> QED
    BY <2>2, <2>3, Zenon
<1>5. ASSUME NEW c \in Cpu, NEW t \in Thread, Exit(c, t) PROVE SW!SWNext
  <2> DEFINE st == [state EXCEPT ![t] = "TERMINATED"]
  <2>1. /\ ScheduleFrom(c, st, wake_tick, preempt_depth[c])
        /\ UNCHANGED wake_pending /\ Phase[t] = "awake"
    BY <1>5, <1>c, Zenon DEF Exit, ScheduleLocked, InKernel, Phase, PhaseOf
  <2>2. /\ st \in [Thread -> ThreadState] /\ preempt_depth[c] \in Nat
        /\ wake_tick \in [Thread -> {"never", "later", "now"}]
    BY <1>t, Zenon DEF TypeOK, ThreadState
  <2>3. PhaseOf(st, wake_tick) = [Phase EXCEPT ![t] = "dead"]
    BY <1>t, Zenon DEF Phase, PhaseOf, TypeOK
  <2>4. Phase' = SW!Expired(PhaseOf(st, wake_tick), Due(st, wake_tick))
    <3> HIDE DEF st
    <3> QED
      BY <1>t, <2>1, <2>2, SchedulePhase, Zenon
  <2>5. Due(st, wake_tick) \in SUBSET Thread
    BY Zenon DEF Due
  <2>6. SW!Die(t, Due(st, wake_tick))
    BY <2>1, <2>3, <2>4, Zenon DEF SW!Die
  <2> QED
    BY <2>5, <2>6, Zenon DEF SW!SWNext
<1>6. ASSUME NEW c \in Cpu, NEW t \in Thread, Unblock(c, t)
      PROVE  SW!SWNext \/ UNCHANGED <<Phase, wake_pending>>
  <2>1. CASE state[t] = "BLOCKED"
    <3>0. /\ state' = [state EXCEPT ![t] = "READY"]
          /\ wake_tick' = [wake_tick EXCEPT ![t] = "never"]
          /\ UNCHANGED wake_pending
      BY <1>6, <2>1, Zenon DEF Unblock, EnqueueWoken
    <3>1. /\ Phase' = [Phase EXCEPT ![t] = "awake"]
          /\ Phase[t] \in {"blocked", "timed"}
      BY <3>0, <1>t, <2>1, Zenon DEF Phase, PhaseOf, TypeOK
    <3>2. SW!Unblock(t)
      BY <3>0, <3>1, Zenon DEF SW!Unblock, SW!Asleep
    <3> QED
      BY <3>2, Zenon DEF SW!SWNext
  <2>2. CASE state[t] \in {"RUNNING", "READY"}
    <3>1. /\ wake_pending' = [wake_pending EXCEPT ![t] = TRUE] /\ UNCHANGED Phase
          /\ Phase[t] = "awake"
      BY <1>6, <2>2, Zenon DEF Unblock, Phase, PhaseOf
    <3>2. SW!Unblock(t)
      BY <3>1, Zenon DEF SW!Unblock
    <3> QED
      BY <3>2, Zenon DEF SW!SWNext
  <2>3. CASE state[t] \notin {"BLOCKED", "RUNNING", "READY"}
    BY <1>6, <2>3, Zenon DEF Unblock, Phase, PhaseOf
  <2> QED
    BY <2>1, <2>2, <2>3, Zenon
<1>7. ASSUME NEW c \in Cpu, NEW t \in Thread, PreemptEnable(c, t)
      PROVE  SW!SWNext \/ UNCHANGED <<Phase, wake_pending>>
  <2>1. CASE MustYield(c)
    BY <1>7, <1>t, <2>1, ScheduleExpires, Zenon DEF PreemptEnable
  <2>2. CASE ~MustYield(c)
    BY <1>7, <2>2, Zenon DEF PreemptEnable, threadVars, Phase, PhaseOf
  <2> QED
    BY <2>1, <2>2, Zenon
<1>8. ASSUME NEW c \in Cpu, TimerInterrupt(c)
      PROVE  SW!SWNext \/ UNCHANGED <<Phase, wake_pending>>
  <2>1. CASE preempt_depth[c] > 0
    BY <1>8, <2>1, Zenon DEF TimerInterrupt, Phase, PhaseOf
  <2>2. CASE ~(preempt_depth[c] > 0)
    BY <1>8, <1>t, <2>2, ScheduleExpires, Zenon DEF TimerInterrupt, ScheduleLocked, TypeOK
  <2> QED
    BY <2>1, <2>2, Zenon
<1>9. ASSUME NEW c \in Cpu, Start(c) PROVE SW!SWNext
  BY <1>9, <1>t, ScheduleExpires, Zenon DEF Start, ScheduleLocked, TypeOK
<1>10. ASSUME NEW c \in Cpu, YieldOn(c) PROVE SW!SWNext \/ UNCHANGED <<Phase, wake_pending>>
  BY <1>10, <1>t, YieldExpires, Zenon
<1>11. ASSUME NEW t \in Thread, Elapse(t) PROVE UNCHANGED <<Phase, wake_pending>>
  BY <1>11, <1>t, Zenon DEF Elapse, Phase, PhaseOf, TypeOK
<1>12. ASSUME UNCHANGED threadVars PROVE UNCHANGED <<Phase, wake_pending>>
  BY <1>12, Zenon DEF threadVars, Phase, PhaseOf
<1>13. ASSUME NEW c \in Cpu, NEW t \in Thread,
              \/ PreemptDisable(c, t) \/ EnterKernel(c, t) \/ LeaveKernel(c, t)
       PROVE  UNCHANGED <<Phase, wake_pending>>
  BY <1>12, <1>13, Zenon DEF PreemptDisable, EnterKernel, LeaveKernel
<1>14. ASSUME NEW c \in Cpu, NEW t \in Thread, EnterYield(c, t) \/ LeaveYield(c, t)
       PROVE  YieldOn(c)
  BY <1>14, Zenon DEF EnterYield, LeaveYield
<1>15. ASSUME NEW c \in Cpu, Yield(c) \/ RescheduleInterrupt(c) PROVE YieldOn(c)
  BY <1>15, Zenon DEF Yield, RescheduleInterrupt
<1>16. ASSUME NEW c \in Cpu, NEW t \in Thread, NEW aff \in Cpu \cup {NoCpu},
              SetAffinity(c, t, aff)
       PROVE  UNCHANGED <<Phase, wake_pending>>
  BY <1>12, <1>16, Zenon DEF SetAffinity
<1>17. CASE UNCHANGED vars
  BY <1>12, <1>17, Zenon DEF vars
<1> QED
  BY <1>1, <1>2, <1>3, <1>4, <1>5, <1>6, <1>7, <1>8, <1>9, <1>10, <1>11, <1>13, <1>14,
     <1>15, <1>16, <1>17, Zenon DEF Next

(* The scheduler implements the blocking primitives that SleepWake         *)
(* specifies, for any number of processors: a wake-up is never lost.       *)
THEOREM Refinement == Spec => ImplementsSleepWake
<1>1. Init => SW!SWInit
  BY Zenon DEF Init, SW!SWInit, Phase, PhaseOf
<1> QED
  BY <1>1, StepRefines, Invariance, PTL DEF Spec, ImplementsSleepWake, SW!SWSpec
==============================================================================
