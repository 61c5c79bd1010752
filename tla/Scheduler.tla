------------------------------ MODULE Scheduler ------------------------------
(***************************************************************************)
(* The SMP thread scheduler (kernel/process/scheduler.c).                  *)
(*                                                                         *)
(* Every run-queue operation runs under runqueue_lock with interrupts off. *)
(* A context switch hands the lock from the outgoing to the incoming       *)
(* thread: schedule_locked takes the decision and switches stacks,         *)
(* finish_switch runs on the new stack, marks the old thread off its       *)
(* processor, frees it if it has terminated, and only then unlocks.  Those *)
(* are two steps here, and runqueue_lock is a variable.                    *)
(*                                                                         *)
(* A user thread runs kernel code on processor 0 only: scheduler_enter_    *)
(* kernel moves it there and scheduler_leave_kernel lets it go.            *)
(*                                                                         *)
(* Abstracted: which of the selectable threads pick_next prefers (virtual  *)
(* run times and deadlines), and the clock: the tick at which a sleeping   *)
(* thread wakes is "later" or "now".                                       *)
(***************************************************************************)
EXTENDS Integers

CONSTANTS
  Cpu,         \* the processors that came up, by logical id
  Thread,      \* thread ids
  UserThread,  \* those created by scheduler_create_user_thread or _forked_thread
  Idle,        \* cpu->idle, of whichever processor
  NoNode,      \* the null thread pointer
  MaxDepth     \* bound on nested scheduler_preempt_disable

BootCpu == 0
NoCpu == -1

ASSUME CpuAssumption == BootCpu \in Cpu /\ Cpu \subseteq Nat
ASSUME ThreadAssumption ==
  /\ UserThread \subseteq Thread
  /\ Idle \notin Thread
  /\ NoNode \notin Thread \cup {Idle}
ASSUME DepthAssumption == MaxDepth \in Nat

VARIABLES
  state,               \* thread->state
  running_cpu,         \* thread->running_cpu
  wake_tick,           \* thread->wake_tick: "never" (0), "later" or "now"
  wake_pending,        \* thread->wake_pending
  kernel_only,         \* thread->kernel_only
  affinity,            \* thread->affinity
  affinity_auto,       \* thread->affinity_auto
  preempt_saved,       \* thread->preempt_saved
  current,             \* cpu->current
  previous,            \* cpu->previous, set while a switch is under way
  started,             \* processors whose cpu->started is set (= active_mask)
  preempt_depth,       \* cpu->preempt_depth
  reschedule_pending,  \* processors whose cpu->reschedule_pending is set
  runqueue_lock,       \* processor in the middle of a switch, or NoCpu
  ipi,                 \* processors with a reschedule interrupt in flight
  mode,                \* where a user thread is: "user", "entering", "kernel", "leaving"
  held                 \* preempt_disable calls of a thread not yet undone

threadVars == <<state, running_cpu, wake_tick, wake_pending>>
placeVars == <<kernel_only, affinity, affinity_auto, mode>>
depthVars == <<preempt_saved, preempt_depth, held>>
vars == <<threadVars, placeVars, depthVars, current, previous, started,
          reschedule_pending, runqueue_lock, ipi>>

Node == Thread \cup {Idle}
ThreadState == {"FREE", "READY", "RUNNING", "BLOCKED", "TERMINATED"}

TypeOK ==
  /\ state \in [Thread -> ThreadState]
  /\ running_cpu \in [Thread -> Cpu \cup {NoCpu}]
  /\ wake_tick \in [Thread -> {"never", "later", "now"}]
  /\ wake_pending \in [Thread -> BOOLEAN]
  /\ kernel_only \in [Thread -> BOOLEAN]
  /\ affinity \in [Thread -> Cpu \cup {NoCpu}]
  /\ affinity_auto \in [Thread -> BOOLEAN]
  /\ mode \in [Thread -> {"user", "entering", "kernel", "leaving"}]
  /\ preempt_saved \in [Node -> Nat]
  /\ held \in [Thread -> Nat]
  /\ current \in [Cpu -> Node]
  /\ previous \in [Cpu -> Node \cup {NoNode}]
  /\ preempt_depth \in [Cpu -> Nat]
  /\ started \in SUBSET Cpu
  /\ reschedule_pending \in SUBSET Cpu
  /\ runqueue_lock \in Cpu \cup {NoCpu}
  /\ ipi \in SUBSET Cpu

Init ==
  /\ state = [t \in Thread |-> "FREE"]
  /\ running_cpu = [t \in Thread |-> NoCpu]
  /\ wake_tick = [t \in Thread |-> "never"]
  /\ wake_pending = [t \in Thread |-> FALSE]
  /\ kernel_only = [t \in Thread |-> FALSE]
  /\ affinity = [t \in Thread |-> NoCpu]
  /\ affinity_auto = [t \in Thread |-> FALSE]
  /\ mode = [t \in Thread |-> "kernel"]
  /\ preempt_saved = [n \in Node |-> 0]
  /\ held = [t \in Thread |-> 0]
  /\ current = [c \in Cpu |-> Idle]
  /\ previous = [c \in Cpu |-> NoNode]
  /\ preempt_depth = [c \in Cpu |-> 0]
  /\ started = {}
  /\ reschedule_pending = {}
  /\ runqueue_lock = NoCpu
  /\ ipi = {}

-----------------------------------------------------------------------------
(* Helpers.                                                                *)

Unlocked == runqueue_lock = NoCpu

Live(t) == state[t] \in {"READY", "RUNNING", "BLOCKED"}

(* The thread that runs kernel code on c and may call the scheduler. *)
InKernel(c, t) ==
  /\ runqueue_lock # c
  /\ t \in Thread
  /\ current[c] = t
  /\ mode[t] = "kernel"

(* Mutant of Interruptible: the idle loop runs with interrupts off too. *)
InterruptibleBusy(c) ==
  /\ c \in started
  /\ runqueue_lock # c
  /\ current[c] # Idle
  /\ current[c] \in UserThread => mode[current[c]] = "user"

(* A system call runs with interrupts off: its gate is an interrupt gate.  *)
(* A kernel thread, user code and the idle loop run with them on.          *)
Interruptible(c) ==
  /\ c \in started
  /\ runqueue_lock # c
  /\ current[c] \in UserThread => mode[current[c]] = "user"

(* Mutant of Eligible: a thread in the kernel is not confined. *)
EligibleAnywhere(t, c) == affinity[t] \in {NoCpu, c}

Eligible(t, c) ==
  IF kernel_only[t] THEN c = BootCpu
                    ELSE affinity[t] \in {NoCpu, c}

(* smp_reschedule_all, called on c. *)
RescheduleAll(c) == ipi' = ipi \cup (started \ {c})

-----------------------------------------------------------------------------
(* The context switch.                                                     *)

(* wake_sleeping_threads. *)
WokenState(st, wt) ==
  [t \in Thread |->
     IF st[t] = "BLOCKED" /\ wt[t] = "now" THEN "READY" ELSE st[t]]

WokenTick(st, wt) ==
  [t \in Thread |->
     IF st[t] = "BLOCKED" /\ wt[t] = "now" THEN "never" ELSE wt[t]]

(* Mutant of Selectable: a thread running elsewhere is not left out. *)
SelectableTwice(c, st) ==
  {t \in Thread : st[t] \in {"READY", "RUNNING"} /\ Eligible(t, c)}

Selectable(c, st) ==
  {t \in Thread :
     /\ \/ st[t] = "READY" /\ running_cpu[t] = NoCpu
        \/ current[c] = t /\ st[t] \in {"READY", "RUNNING"}
     /\ Eligible(t, c)}

(* pick_next: a selectable thread, or the idle thread when there is none.  *)
PickNext(c, st) == IF Selectable(c, st) = {} THEN {Idle} ELSE Selectable(c, st)

(* The state of the threads once c has left prev for next. *)
SwitchedState(st, prev, next) ==
  [t \in Thread |->
     IF t = next THEN "RUNNING"
     ELSE IF t = prev /\ st[t] = "RUNNING" THEN "READY" ELSE st[t]]

(* Mutant of SwitchDepth: the depth stays with the processor. *)
KeepDepth(c, prev, next, d) ==
  /\ preempt_depth' = [preempt_depth EXCEPT ![c] = d]
  /\ UNCHANGED preempt_saved

(* The processor's preemption depth is that of the thread it runs. *)
SwitchDepth(c, prev, next, d) ==
  /\ preempt_saved' = [preempt_saved EXCEPT ![prev] = d]
  /\ preempt_depth' = [preempt_depth EXCEPT ![c] = preempt_saved[next]]

(* schedule_locked, entered on c with the thread states st, wake-up ticks  *)
(* wt and preemption depth d that its caller has just written.             *)
ScheduleFrom(c, st, wt, d) ==
  LET prev == current[c]
      woken == WokenState(st, wt)
  IN /\ wake_tick' = WokenTick(st, wt)
     /\ \E next \in PickNext(c, woken) :
          /\ state' = SwitchedState(woken, prev, next)
          /\ current' = [current EXCEPT ![c] = next]
          /\ IF next = prev
             THEN /\ preempt_depth' = [preempt_depth EXCEPT ![c] = d]
                  /\ UNCHANGED <<running_cpu, previous, preempt_saved, runqueue_lock>>
             ELSE /\ running_cpu' = [t \in Thread |->
                                       IF t = next THEN c ELSE running_cpu[t]]
                  /\ previous' = [previous EXCEPT ![c] = prev]
                  /\ SwitchDepth(c, prev, next, d)
                  /\ runqueue_lock' = c

ScheduleLocked(c, st, wt) == ScheduleFrom(c, st, wt, preempt_depth[c])

(* Mutant of FinishedState: a terminated thread is not unlinked. *)
FinishedStateKept(prev) == state

(* The thread that was left is unlinked and freed if it has terminated. *)
FinishedState(prev) ==
  [t \in Thread |->
     IF t = prev /\ state[t] = "TERMINATED" THEN "FREE" ELSE state[t]]

(* finish_switch, on the stack of the thread that was switched to. *)
FinishSwitch(c) ==
  /\ runqueue_lock = c
  /\ running_cpu' = [t \in Thread |->
                       IF t = previous[c] THEN NoCpu ELSE running_cpu[t]]
  /\ state' = FinishedState(previous[c])
  /\ previous' = [previous EXCEPT ![c] = NoNode]
  /\ runqueue_lock' = NoCpu
  /\ UNCHANGED <<wake_tick, wake_pending, placeVars, depthVars, current,
                 started, reschedule_pending, ipi>>

-----------------------------------------------------------------------------
(* Operations of the thread that runs kernel code on c.                    *)

(* create_thread, by a thread or by the boot code before scheduler_start.  *)
CreateThread(c, t, aff) ==
  /\ Unlocked
  /\ (\E u \in Thread : InKernel(c, u)) \/ (c = BootCpu /\ c \notin started)
  /\ state[t] = "FREE"
  /\ state' = [state EXCEPT ![t] = "READY"]
  /\ running_cpu' = [running_cpu EXCEPT ![t] = NoCpu]
  /\ wake_tick' = [wake_tick EXCEPT ![t] = "never"]
  /\ wake_pending' = [wake_pending EXCEPT ![t] = FALSE]
  /\ kernel_only' = [kernel_only EXCEPT ![t] = t \in UserThread]
  /\ affinity' = [affinity EXCEPT ![t] = aff]
  /\ affinity_auto' = [affinity_auto EXCEPT ![t] = FALSE]
  /\ mode' = [mode EXCEPT ![t] = "kernel"]
  /\ preempt_saved' = [preempt_saved EXCEPT ![t] = 0]
  /\ held' = [held EXCEPT ![t] = 0]
  /\ RescheduleAll(c)
  /\ UNCHANGED <<current, previous, started, preempt_depth,
                 reschedule_pending, runqueue_lock>>

(* Mutant of YieldOn: the preemption depth is not looked at. *)
YieldAlways(c) ==
  /\ Unlocked
  /\ ScheduleLocked(c, state, wake_tick)
  /\ UNCHANGED <<wake_pending, reschedule_pending>>

(* scheduler_yield. *)
YieldOn(c) ==
  IF preempt_depth[c] > 0
  THEN /\ reschedule_pending' = reschedule_pending \cup {c}
       /\ UNCHANGED <<threadVars, preempt_saved, preempt_depth, current,
                      previous, runqueue_lock>>
  ELSE /\ Unlocked
       /\ ScheduleLocked(c, state, wake_tick)
       /\ UNCHANGED <<wake_pending, reschedule_pending>>

(* By kernel code, or by the idle loop of a started processor. *)
Yield(c) ==
  /\ \/ \E t \in Thread : InKernel(c, t)
     \/ c \in started /\ runqueue_lock # c /\ current[c] = Idle
  /\ YieldOn(c)
  /\ UNCHANGED <<placeVars, held, started, ipi>>

(* scheduler_sleep with a non-zero time: the tick may already be due when  *)
(* pick_next reads the clock again.                                        *)
Sleep(c, t) ==
  /\ Unlocked
  /\ InKernel(c, t)
  /\ wake_pending' = [wake_pending EXCEPT ![t] = FALSE]
  /\ \E tick \in {"later", "now"} :
       ScheduleLocked(c, [state EXCEPT ![t] = "BLOCKED"],
                         [wake_tick EXCEPT ![t] = tick])
  /\ UNCHANGED <<placeVars, held, started, reschedule_pending, ipi>>

(* Mutant of Block: a wake-up that came first is not looked at. *)
BlockBlindly(c, t) ==
  /\ Unlocked
  /\ InKernel(c, t)
  /\ ScheduleLocked(c, [state EXCEPT ![t] = "BLOCKED"], wake_tick)
  /\ UNCHANGED <<wake_pending, placeVars, held, started, reschedule_pending, ipi>>

(* scheduler_block. *)
Block(c, t) ==
  /\ Unlocked
  /\ InKernel(c, t)
  /\ \/ /\ wake_pending[t]
        /\ wake_pending' = [wake_pending EXCEPT ![t] = FALSE]
        /\ UNCHANGED <<state, running_cpu, wake_tick, preempt_saved,
                       preempt_depth, current, previous, runqueue_lock>>
     \/ /\ ~wake_pending[t]
        /\ ScheduleLocked(c, [state EXCEPT ![t] = "BLOCKED"], wake_tick)
        /\ UNCHANGED wake_pending
  /\ UNCHANGED <<placeVars, held, started, reschedule_pending, ipi>>

(* scheduler_exit. *)
Exit(c, t) ==
  /\ Unlocked
  /\ InKernel(c, t)
  /\ ScheduleLocked(c, [state EXCEPT ![t] = "TERMINATED"], wake_tick)
  /\ UNCHANGED <<wake_pending, placeVars, held, started, reschedule_pending, ipi>>

(* Mutant of EnqueueWoken: the timeout stays armed. *)
EnqueueWokenArmed(t) ==
  /\ state' = [state EXCEPT ![t] = "READY"]
  /\ UNCHANGED wake_tick

(* enqueue_woken_thread. *)
EnqueueWoken(t) ==
  /\ state' = [state EXCEPT ![t] = "READY"]
  /\ wake_tick' = [wake_tick EXCEPT ![t] = "never"]

(* scheduler_unblock(t), by a thread on c. *)
Unblock(c, t) ==
  /\ Unlocked
  /\ \E u \in Thread : InKernel(c, u)
  /\ \/ /\ state[t] = "BLOCKED"
        /\ EnqueueWoken(t)
        /\ UNCHANGED wake_pending
     \/ /\ state[t] \in {"RUNNING", "READY"}
        /\ wake_pending' = [wake_pending EXCEPT ![t] = TRUE]
        /\ UNCHANGED <<state, wake_tick>>
     \/ /\ state[t] \in {"FREE", "TERMINATED"}
        /\ UNCHANGED <<state, wake_tick, wake_pending>>
  /\ RescheduleAll(c)
  /\ UNCHANGED <<running_cpu, placeVars, depthVars, current, previous,
                 started, reschedule_pending, runqueue_lock>>

(* scheduler_set_affinity. *)
SetAffinity(c, t, aff) ==
  /\ Unlocked
  /\ \E u \in Thread : InKernel(c, u)
  /\ Live(t)
  /\ affinity' = [affinity EXCEPT ![t] = aff]
  /\ affinity_auto' = [affinity_auto EXCEPT ![t] = FALSE]
  /\ RescheduleAll(c)
  /\ UNCHANGED <<threadVars, kernel_only, mode, depthVars, current, previous,
                 started, reschedule_pending, runqueue_lock>>

(* scheduler_preempt_disable; it refuses on a processor not yet started. *)
PreemptDisable(c, t) ==
  /\ InKernel(c, t)
  /\ c \in started
  /\ held[t] < MaxDepth
  /\ preempt_depth' = [preempt_depth EXCEPT ![c] = @ + 1]
  /\ held' = [held EXCEPT ![t] = @ + 1]
  /\ UNCHANGED <<threadVars, placeVars, preempt_saved, current, previous,
                 started, reschedule_pending, runqueue_lock, ipi>>

(* The reschedule put off while preemption was disabled is now due. *)
MustYield(c) == preempt_depth[c] = 1 /\ c \in reschedule_pending \cap started

(* Callers pair every preempt_enable with a preempt_disable. *)
OwesEnable(t) == held[t] > 0

(* scheduler_preempt_enable, and the yield that was put off. *)
PreemptEnable(c, t) ==
  /\ InKernel(c, t)
  /\ OwesEnable(t)
  /\ held' = [held EXCEPT ![t] = @ - 1]
  /\ IF MustYield(c)
     THEN /\ Unlocked
          /\ reschedule_pending' = reschedule_pending \ {c}
          /\ ScheduleFrom(c, state, wake_tick, 0)
          /\ UNCHANGED wake_pending
     ELSE /\ preempt_depth' = [preempt_depth EXCEPT ![c] = @ - 1]
          /\ UNCHANGED <<threadVars, preempt_saved, current, previous,
                         reschedule_pending, runqueue_lock>>
  /\ UNCHANGED <<placeVars, started, ipi>>

-----------------------------------------------------------------------------
(* Interrupts, start-up and the clock.                                     *)

(* scheduler_on_timer_interrupt, when the slice of the current thread has  *)
(* run out or the processor is idle.                                       *)
TimerInterrupt(c) ==
  /\ Unlocked
  /\ Interruptible(c)
  /\ IF preempt_depth[c] > 0
     THEN /\ reschedule_pending' = reschedule_pending \cup {c}
          /\ UNCHANGED <<state, running_cpu, wake_tick, preempt_saved,
                         preempt_depth, current, previous, runqueue_lock>>
     ELSE /\ reschedule_pending' = reschedule_pending \ {c}
          /\ ScheduleLocked(c, state, wake_tick)
  /\ UNCHANGED <<wake_pending, placeVars, held, started, ipi>>

(* scheduler_on_reschedule_interrupt. *)
RescheduleInterrupt(c) ==
  /\ c \in ipi
  /\ Interruptible(c)
  /\ ipi' = ipi \ {c}
  /\ YieldOn(c)
  /\ UNCHANGED <<placeVars, held, started>>

(* scheduler_start: processor 0 first, it releases the others. *)
Start(c) ==
  /\ Unlocked
  /\ c \notin started
  /\ c = BootCpu \/ BootCpu \in started
  /\ started' = started \cup {c}
  /\ ScheduleLocked(c, state, wake_tick)
  /\ UNCHANGED <<wake_pending, placeVars, held, reschedule_pending, ipi>>

(* timer_ticks reaches the wake_tick of t. *)
Elapse(t) ==
  /\ wake_tick[t] = "later"
  /\ wake_tick' = [wake_tick EXCEPT ![t] = "now"]
  /\ UNCHANGED <<state, running_cpu, wake_pending, placeVars, depthVars,
                 current, previous, started, reschedule_pending,
                 runqueue_lock, ipi>>

-----------------------------------------------------------------------------
(* Entering and leaving the kernel.                                        *)

(* scheduler_enter_kernel, at a system call, fault or signal delivery. *)
EnterKernel(c, t) ==
  /\ Unlocked
  /\ current[c] = t
  /\ t \in UserThread
  /\ mode[t] = "user"
  /\ kernel_only' = [kernel_only EXCEPT ![t] = TRUE]
  /\ mode' = [mode EXCEPT ![t] = IF c = BootCpu THEN "kernel" ELSE "entering"]
  /\ ipi' = IF c = BootCpu THEN ipi ELSE ipi \cup ({BootCpu} \cap started)
  /\ UNCHANGED <<threadVars, affinity, affinity_auto, depthVars, current,
                 previous, started, reschedule_pending, runqueue_lock>>

(* Its scheduler_yield, off processor 0. *)
EnterYield(c, t) ==
  /\ runqueue_lock # c
  /\ current[c] = t
  /\ t \in UserThread
  /\ mode[t] = "entering"
  /\ mode' = [mode EXCEPT ![t] = "kernel"]
  /\ YieldOn(c)
  /\ UNCHANGED <<kernel_only, affinity, affinity_auto, held, started, ipi>>

(* scheduler_leave_kernel: a thread that nobody pinned may be sent to a    *)
(* started processor with less load.                                       *)
LeaveKernel(c, t) ==
  /\ Unlocked
  /\ InKernel(c, t)
  /\ t \in UserThread
  /\ held[t] = 0
  /\ kernel_only' = [kernel_only EXCEPT ![t] = FALSE]
  /\ IF affinity[t] = NoCpu \/ affinity_auto[t]
     THEN \E target \in {NoCpu} \cup (started \ {c}) :
            /\ affinity' = [affinity EXCEPT ![t] = target]
            /\ affinity_auto' = [affinity_auto EXCEPT ![t] = target # NoCpu]
     ELSE UNCHANGED <<affinity, affinity_auto>>
  /\ mode' = [mode EXCEPT ![t] =
                IF affinity'[t] \in {NoCpu, c} THEN "user" ELSE "leaving"]
  /\ ipi' = IF mode'[t] = "leaving" THEN ipi \cup (started \ {c}) ELSE ipi
  /\ UNCHANGED <<threadVars, depthVars, current, previous, started,
                 reschedule_pending, runqueue_lock>>

(* Its scheduler_yield, when the thread must move. *)
LeaveYield(c, t) ==
  /\ runqueue_lock # c
  /\ current[c] = t
  /\ t \in UserThread
  /\ mode[t] = "leaving"
  /\ mode' = [mode EXCEPT ![t] = "user"]
  /\ YieldOn(c)
  /\ UNCHANGED <<kernel_only, affinity, affinity_auto, held, started, ipi>>

Next ==
  \/ \E c \in Cpu :
       \/ FinishSwitch(c) \/ Yield(c) \/ Start(c)
       \/ TimerInterrupt(c) \/ RescheduleInterrupt(c)
  \/ \E c \in Cpu, t \in Thread :
       \/ Sleep(c, t) \/ Block(c, t) \/ Unblock(c, t) \/ Exit(c, t)
       \/ PreemptDisable(c, t) \/ PreemptEnable(c, t)
       \/ EnterKernel(c, t) \/ EnterYield(c, t)
       \/ LeaveKernel(c, t) \/ LeaveYield(c, t)
  \/ \E c \in Cpu, t \in Thread, aff \in Cpu \cup {NoCpu} :
       CreateThread(c, t, aff) \/ SetAffinity(c, t, aff)
  \/ \E t \in Thread : Elapse(t)

Spec == Init /\ [][Next]_vars

(* Spinning on runqueue_lock ends, a switch completes, the timer of every  *)
(* processor keeps firing, and code that disabled preemption or entered    *)
(* the kernel gets to the end of what it is doing.                         *)
Fairness ==
  /\ \A c \in Cpu : WF_vars(FinishSwitch(c)) /\ WF_vars(Start(c)) /\ SF_vars(TimerInterrupt(c))
  /\ \A c \in Cpu, t \in Thread :
       /\ SF_vars(PreemptEnable(c, t))
       /\ SF_vars(EnterYield(c, t)) /\ SF_vars(LeaveYield(c, t)) /\ SF_vars(LeaveKernel(c, t))

FairSpec == Spec /\ Fairness

-----------------------------------------------------------------------------
(* Properties.                                                             *)

(* A thread's stack is used by one processor at most: a thread is current  *)
(* on one processor, and a processor still leaving it (finish_switch has   *)
(* not run) keeps every other one from picking it.                         *)
OneCpuPerThread ==
  \A c, d \in Cpu :
    c # d /\ current[c] \in Thread => current[c] # current[d] /\ current[c] # previous[d]

(* scheduler_thread_stopped(t): what process_wait and process_waitpid test *)
(* before they destroy the address space of an exited process.             *)
ThreadStopped(t) == Unlocked /\ state[t] \notin {"READY", "RUNNING", "BLOCKED"}

(* When a waiter sees an exiting thread as stopped, no processor runs on   *)
(* its stack or address space any more, and it has left the run queue for  *)
(* good, so the later scheduler_free_thread_by_id has nothing to free      *)
(* twice.                                                                  *)
StoppedIsGone ==
  \A t \in Thread : ThreadStopped(t) =>
    /\ state[t] = "FREE"
    /\ running_cpu[t] = NoCpu
    /\ \A c \in Cpu : current[c] # t /\ previous[c] # t

(* A user thread executes kernel code on processor 0 only, whatever its    *)
(* affinity and however often it was preempted or blocked on the way in:   *)
(* scheduler_enter_kernel returns on processor 0.  Faults that isr_handler *)
(* resolves before that call (copy-on-write, stack growth) are not meant.  *)
KernelOnBootCpu ==
  \A c \in Cpu, t \in UserThread : InKernel(c, t) => c = BootCpu

(* The preemption depth follows the thread across switches made with       *)
(* preemption disabled (scheduler_block, scheduler_sleep): a processor's   *)
(* counter is what the thread it runs still has to undo, so that           *)
(* scheduler_preempt_enable never meets a zero depth and panics.           *)
DepthFollowsThread ==
  /\ \A t \in Thread : Live(t) =>
       IF \E c \in Cpu : current[c] = t
       THEN \A c \in Cpu : current[c] = t => preempt_depth[c] = held[t]
       ELSE preempt_saved[t] = held[t]
  /\ \A c \in Cpu : current[c] = Idle => preempt_depth[c] = 0

(* A thread that runs or waits for a processor has no wake-up tick armed:  *)
(* a later scheduler_block, which does not set one, is never cut short by  *)
(* the timeout of an earlier scheduler_sleep.                              *)
NoStaleTimeout ==
  \A t \in Thread : wake_tick[t] # "never" => state[t] = "BLOCKED"

(* While a thread has preemption disabled, no interrupt, yield or wake-up  *)
(* takes its processor: the processor changes threads only when the thread *)
(* itself blocks, sleeps, exits or undoes its last preempt_disable.        *)
PreemptionRespected ==
  [][\A c \in Cpu, t \in Thread :
       current[c] = t /\ held[t] > 0 /\ current'[c] # t
         => \/ Sleep(c, t) \/ Block(c, t) \/ Exit(c, t)
            \/ held'[t] = 0]_vars

(* A sleeping thread whose time has come is made ready, although only a    *)
(* processor that picks a next thread looks at the sleepers.               *)
SleepersWake ==
  \A t \in Thread : wake_tick[t] = "now" ~> state[t] \in {"READY", "RUNNING"}

(* A thread as the callers of the blocking primitives see it. *)
PhaseOf(st, wt) ==
  [t \in Thread |->
     IF st[t] \in {"FREE", "TERMINATED"} THEN "dead"
     ELSE IF st[t] # "BLOCKED" THEN "awake"
     ELSE IF wt[t] = "never" THEN "blocked" ELSE "timed"]

Phase == PhaseOf(state, wake_tick)

SW == INSTANCE SleepWake WITH phase <- Phase, token <- wake_pending

(* The scheduler keeps the promise of its blocking primitives: no wake-up  *)
(* is lost between registering for it and blocking.                        *)
ImplementsSleepWake == SW!SWSpec

=============================================================================
