------------------------------- MODULE Process -------------------------------
(***************************************************************************)
(* The life of processes (kernel/process/process.c and signal.c): fork,    *)
(* exit, wait, waitpid, reaping by PID 1 and signals, over the blocking    *)
(* primitives of SleepWake.                                                *)
(*                                                                         *)
(* A process has one thread, which is named like the process.  The table   *)
(* of processes is guarded by process_mutex, a sleeping lock.  An exit is  *)
(* spread over several steps: the process becomes a zombie, its parent is  *)
(* woken, its thread leaves the scheduler and, later, the processor.  Only *)
(* then may the process, its address space and its stack be freed.         *)
(***************************************************************************)
EXTENDS Integers, FiniteSets

CONSTANTS
  Proc,
  Init1,     \* PID 1
  NoProc,    \* no process, and "any child" for waitpid
  First,     \* the processes the kernel starts, children of PID 1
  Calls,     \* the calls used to wait: "wait" and "waitpid"
  Catchers,  \* processes with a handler for SIGCHLD
  Signalled, \* processes that somebody sends signals to
  MaxCalls   \* bound on the calls to wait, 0 for no bound

ASSUME ProcessAssumption ==
  /\ Init1 \in Proc \ First /\ NoProc \notin Proc /\ First \subseteq Proc
  /\ Catchers \subseteq Proc /\ Signalled \subseteq Proc \ {Init1}
  /\ Calls \subseteq {"wait", "waitpid"} /\ MaxCalls \in Nat

VARIABLES
  state,    \* state of struct process; a pid is not used again
  parent,   \* parent_pid
  waiter,   \* waiter_thread_id
  pending,  \* sig_pending: SIGKILL and signals with a handler
  mutex,    \* owner of process_mutex
  op,       \* the call a thread is in: "none", "start", "wait", "waitpid", "exit"
  at,       \* how far: "user", "lock", "locked", "block", "sleep", "notify", "leave", "left"
  target,   \* the child waited for
  nohang,   \* the call does not block
  notify,   \* the thread an exiting process has still to unblock
  sigwake,  \* threads that signal_send has still to unblock
  stopped,  \* threads that have left the processor for good
  calls,    \* calls to wait so far, when they are bounded
  phase, token  \* SleepWake

SW == INSTANCE SleepWake WITH Thread <- Proc

tableVars == <<state, parent, waiter>>
callVars == <<op, target, nohang>>
vars == <<tableVars, callVars, pending, mutex, at, notify, sigwake, stopped, calls, phase, token>>

Alive(p) == state[p] \in {"ready", "running"}

TypeOK ==
  /\ state \in [Proc -> {"unborn", "ready", "running", "exited", "free"}]
  /\ parent \in [Proc -> Proc \cup {NoProc}] /\ waiter \in [Proc -> Proc \cup {NoProc}]
  /\ pending \in [Proc -> SUBSET {"KILL", "HANDLED"}]
  /\ mutex \in Proc \cup {NoProc}
  /\ op \in [Proc -> {"none", "start", "wait", "waitpid", "exit"}]
  /\ at \in [Proc -> {"user", "lock", "locked", "block", "sleep", "notify", "leave", "left"}]
  /\ target \in [Proc -> Proc \cup {NoProc}]
  /\ nohang \in [Proc -> BOOLEAN]
  /\ notify \in [Proc -> Proc \cup {NoProc}]
  /\ sigwake \in SUBSET Proc /\ stopped \in SUBSET Proc
  /\ calls \in 0 .. MaxCalls
  /\ \A p \in Proc \ {Init1} : parent[p] = NoProc <=> state[p] \in {"unborn", "free"}
  /\ SW!SWTypeOK

Init ==
  LET up == First \cup {Init1}
  IN /\ state = [p \in Proc |-> IF p \in up THEN "running" ELSE "unborn"]
     /\ parent = [p \in Proc |-> IF p \in First THEN Init1 ELSE NoProc]
     /\ waiter = [p \in Proc |-> NoProc]
     /\ pending = [p \in Proc |-> {}]
     /\ mutex = NoProc
     /\ op = [p \in Proc |-> "none"] /\ at = [p \in Proc |-> "user"]
     /\ target = [p \in Proc |-> NoProc] /\ nohang = [p \in Proc |-> FALSE]
     /\ notify = [p \in Proc |-> NoProc]
     /\ sigwake = {} /\ stopped = {} /\ calls = 0
     /\ phase = [p \in Proc |-> IF p \in up THEN "awake" ELSE "dead"]
     /\ token = [p \in Proc |-> FALSE]

-----------------------------------------------------------------------------
(* Starting calls.                                                         *)

Awake(p) == phase[p] = "awake"
InUser(p) == at[p] = "user" /\ Awake(p)

Call(p, o, c, nh) ==
  /\ op' = [op EXCEPT ![p] = o]
  /\ at' = [at EXCEPT ![p] = "lock"]
  /\ target' = [target EXCEPT ![p] = c]
  /\ nohang' = [nohang EXCEPT ![p] = nh]

(* process_fork and process_spawn_elf, in one critical section; the        *)
(* child's thread then takes the mutex to set its own state.               *)
Fork(p, c) ==
  /\ InUser(p) /\ p # Init1
  /\ mutex = NoProc
  /\ state[c] = "unborn"
  /\ state' = [state EXCEPT ![c] = "ready"]
  /\ parent' = [parent EXCEPT ![c] = p]
  /\ Call(c, "start", NoProc, FALSE)
  /\ SW!Spawn(c)
  /\ UNCHANGED <<waiter, pending, mutex, notify, sigwake, stopped, calls>>

Wait(p, o, c, nh) ==
  /\ InUser(p) /\ p # Init1
  /\ MaxCalls > 0 => calls < MaxCalls
  /\ calls' = IF MaxCalls > 0 THEN calls + 1 ELSE 0
  /\ Call(p, o, c, nh)
  /\ UNCHANGED <<tableVars, pending, mutex, notify, sigwake, stopped, phase, token>>

(* Mutant of InitSees: PID 1 looks after the processes it started only. *)
InitSeesFirst(c) == c \in First /\ state[c] = "exited"

(* What the list of processes must say of a child for PID 1 to reap it. *)
InitSees(c) == parent[c] = Init1 /\ state[c] = "exited"

(* The loop of PID 1: wait, without blocking, for each child that the      *)
(* process list shows to have exited.                                      *)
InitReap(c) ==
  /\ InUser(Init1)
  /\ InitSees(c)
  /\ Call(Init1, "wait", c, TRUE)
  /\ UNCHANGED <<tableVars, pending, mutex, notify, sigwake, stopped, phase, token, calls>>

Exit(p) ==
  /\ InUser(p) /\ p # Init1
  /\ Call(p, "exit", NoProc, FALSE)
  /\ UNCHANGED <<tableVars, pending, mutex, notify, sigwake, stopped, phase, token, calls>>

-----------------------------------------------------------------------------
(* Critical sections.                                                      *)

(* mutex_lock: take it, or sleep and try again. *)
Lock(p) ==
  /\ at[p] = "lock"
  /\ \/ /\ mutex = NoProc
        /\ Awake(p)
        /\ mutex' = p
        /\ at' = [at EXCEPT ![p] = "locked"]
        /\ UNCHANGED <<phase, token>>
     \/ /\ mutex # NoProc
        /\ SW!Sleep(p, {})
        /\ UNCHANGED <<mutex, at>>
  /\ UNCHANGED <<tableVars, callVars, pending, notify, sigwake, stopped, calls>>

InSection(p, o) == mutex = p /\ at[p] = "locked" /\ op[p] = o

(* The call leaves its critical section and returns. *)
Return(p) ==
  /\ op' = [op EXCEPT ![p] = "none"]
  /\ at' = [at EXCEPT ![p] = "user"]
  /\ target' = [target EXCEPT ![p] = NoProc]
  /\ nohang' = [nohang EXCEPT ![p] = FALSE]

(* fork_child_entry. *)
StartLocked(p) ==
  /\ InSection(p, "start")
  /\ mutex' = NoProc
  /\ state' = [state EXCEPT ![p] = "running"]
  /\ Return(p)
  /\ UNCHANGED <<parent, waiter, pending, notify, sigwake, stopped, phase, token, calls>>

(* Mutant of Reapable: the thread may still be on its processor. *)
ReapableEarly(c) == state[c] = "exited"

(* A zombie whose thread has left its processor. *)
Reapable(c) == state[c] = "exited" /\ c \in stopped

(* process_reap: the process goes from the table. *)
Reap(c) ==
  /\ state' = [state EXCEPT ![c] = "free"]
  /\ parent' = [parent EXCEPT ![c] = NoProc]
  /\ waiter' = [waiter EXCEPT ![c] = NoProc]

(* Round the loop again: poll while a child is exiting, else block. *)
WaitMore(p, exiting) ==
  /\ at' = [at EXCEPT ![p] = IF exiting THEN "sleep" ELSE "block"]
  /\ UNCHANGED callVars

(* Mutant of Refused: somebody else's child may be waited for. *)
RefusedIfGone(p, c) == state[c] \in {"unborn", "free"}

(* Only the parent may wait, for a process that is in the table. *)
Refused(p, c) == state[c] \in {"unborn", "free"} \/ parent[c] # p

(* process_wait, which waits for one child and ignores signals. *)
WaitLocked(p) ==
  LET c == target[p]
      refused == Refused(p, c)
      blocks == ~refused /\ ~Reapable(c) /\ ~nohang[p] /\ waiter[c] \in {NoProc, p}
  IN /\ InSection(p, "wait")
     /\ mutex' = NoProc
     /\ \/ /\ ~refused /\ Reapable(c)
           /\ Reap(c)
           /\ Return(p)
        \/ /\ refused \/ (~Reapable(c) /\ ~blocks)
           /\ Return(p)
           /\ UNCHANGED tableVars
        \/ /\ blocks
           /\ waiter' = [waiter EXCEPT ![c] = p]
           /\ WaitMore(p, state[c] = "exited")
           /\ UNCHANGED <<state, parent>>
     /\ UNCHANGED <<pending, notify, sigwake, stopped, phase, token, calls>>

Matching(p) ==
  {c \in Proc : state[c] \notin {"unborn", "free"} /\ parent[c] = p /\ target[p] \in {c, NoProc}}

(* Mutant of Interrupted: a pending signal does not end the wait. *)
InterruptedNever(p) == FALSE

(* signal_pending_current. *)
Interrupted(p) == pending[p] # {}

(* process_waitpid, for one child or any. *)
WaitpidLocked(p) ==
  LET children == Matching(p)
      zombies == {c \in children : Reapable(c)}
      returns == children = {} \/ nohang[p] \/ Interrupted(p)
  IN /\ InSection(p, "waitpid")
     /\ mutex' = NoProc
     /\ \/ \E c \in zombies : Reap(c) /\ Return(p)
        \/ /\ zombies = {} /\ returns
           /\ Return(p)
           /\ UNCHANGED tableVars
        \/ /\ zombies = {} /\ ~returns
           /\ WaitMore(p, \E c \in children : state[c] = "exited")
           /\ UNCHANGED tableVars
     /\ UNCHANGED <<pending, notify, sigwake, stopped, phase, token, calls>>

(* Block or sleep, and round the loop again. *)
Pause(p) ==
  /\ \/ at[p] = "block" /\ SW!Block(p, {})
     \/ at[p] = "sleep" /\ SW!Sleep(p, {})
  /\ at' = [at EXCEPT ![p] = "lock"]
  /\ UNCHANGED <<tableVars, callVars, pending, mutex, notify, sigwake, stopped, calls>>

Expire(p) ==
  /\ phase[p] = "timed"
  /\ SW!Expire({p})
  /\ UNCHANGED <<tableVars, callVars, pending, mutex, at, notify, sigwake, stopped, calls>>

-----------------------------------------------------------------------------
(* Exit.                                                                   *)

(* scheduler_unblock, which ignores a thread that is gone or none. *)
UnblockThread(t) ==
  IF t = NoProc \/ t \in stopped THEN UNCHANGED <<phase, token>>
  ELSE IF phase[t] = "dead" THEN UNCHANGED <<phase, token>>
  ELSE SW!Unblock(t)

(* Mutants of Reparented: the children keep their parent, or have none. *)
ReparentedNot(p) == parent
ReparentedToNone(p) == [c \in Proc |-> IF parent[c] = p THEN NoProc ELSE parent[c]]

(* Children of a process that exits become children of PID 1. *)
Reparented(p) ==
  [c \in Proc |-> IF parent[c] = p THEN Init1 ELSE parent[c]]

Unwaited(p) == [c \in Proc |-> IF parent[c] = p THEN NoProc ELSE waiter[c]]

(* Mutant of ParentToWake: the parent's thread is not woken. *)
ParentNotWoken(p) == NoProc

(* The parent, if there is one; its thread is unblocked once the mutex is  *)
(* released.                                                               *)
ParentToWake(p) == parent[p]

(* process_terminate, inside process_mutex. *)
ExitLocked(p) ==
  /\ InSection(p, "exit")
  /\ mutex' = NoProc
  /\ state' = [state EXCEPT ![p] = "exited"]
  /\ parent' = Reparented(p)
  /\ waiter' = Unwaited(p)
  /\ pending' = [q \in Proc |-> IF q = parent[p] /\ q \in Catchers
                                THEN pending[q] \cup {"HANDLED"} ELSE pending[q]]
  /\ notify' = [notify EXCEPT ![p] = ParentToWake(p)]
  /\ UnblockThread(waiter[p])
  /\ at' = [at EXCEPT ![p] = "notify"]
  /\ UNCHANGED <<callVars, sigwake, stopped, calls>>

Notify(p) ==
  /\ at[p] = "notify" /\ Awake(p)
  /\ UnblockThread(notify[p])
  /\ notify' = [notify EXCEPT ![p] = NoProc]
  /\ at' = [at EXCEPT ![p] = "leave"]
  /\ UNCHANGED <<tableVars, callVars, pending, mutex, sigwake, stopped, calls>>

(* scheduler_exit. *)
Leave(p) ==
  /\ at[p] = "leave"
  /\ SW!Die(p, {})
  /\ at' = [at EXCEPT ![p] = "left"]
  /\ UNCHANGED <<tableVars, callVars, pending, mutex, notify, sigwake, stopped, calls>>

(* The processor has switched away from the thread (finish_switch). *)
Stop(p) ==
  /\ at[p] = "left" /\ p \notin stopped
  /\ stopped' = stopped \cup {p}
  /\ UNCHANGED <<tableVars, callVars, pending, mutex, at, notify, sigwake, phase, token, calls>>

-----------------------------------------------------------------------------
(* Signals.                                                                *)

(* signal_send, of SIGKILL or a signal with a handler; the thread is       *)
(* unblocked after the critical section.                                   *)
SignalSend(p, s) ==
  /\ p \in Signalled \ sigwake
  /\ mutex = NoProc
  /\ Alive(p)
  /\ pending' = [pending EXCEPT ![p] = @ \cup {s}]
  /\ sigwake' = sigwake \cup {p}
  /\ UNCHANGED <<tableVars, callVars, mutex, at, notify, stopped, phase, token, calls>>

SignalWake(p) ==
  /\ p \in sigwake
  /\ UnblockThread(p)
  /\ sigwake' = sigwake \ {p}
  /\ UNCHANGED <<tableVars, callVars, pending, mutex, at, notify, stopped, calls>>

(* signal_deliver, on the way back to user code. *)
SignalDeliver(p, s) ==
  /\ InUser(p)
  /\ s \in pending[p]
  /\ pending' = [pending EXCEPT ![p] = @ \ {s}]
  /\ IF s = "KILL" THEN Call(p, "exit", NoProc, FALSE) ELSE UNCHANGED <<callVars, at>>
  /\ UNCHANGED <<tableVars, mutex, notify, sigwake, stopped, phase, token, calls>>

Next ==
  \E p \in Proc :
    \/ Exit(p) \/ Lock(p) \/ StartLocked(p) \/ WaitLocked(p) \/ WaitpidLocked(p)
    \/ Pause(p) \/ Expire(p) \/ ExitLocked(p) \/ Notify(p) \/ Leave(p) \/ Stop(p)
    \/ InitReap(p) \/ SignalWake(p)
    \/ \E c \in Proc : Fork(p, c)
    \/ \E o \in Calls, c \in Proc \cup {NoProc}, nh \in BOOLEAN :
         (o = "wait" => c # NoProc) /\ Wait(p, o, c, nh)
    \/ \E s \in {"KILL", "HANDLED"} : SignalSend(p, s) \/ SignalDeliver(p, s)

Spec == Init /\ [][Next]_vars

(* A thread inside a call keeps running when it can, timeouts run out,     *)
(* processors switch away from threads that have exited, timer interrupts  *)
(* in user code run signal_deliver, and each round of PID 1 looks at all   *)
(* its children.  mutex_lock polls and may lose to others for ever: what   *)
(* needs the mutex is shown for a bounded number of calls.                 *)
Fairness ==
  /\ \A p \in Proc :
       /\ WF_vars(Lock(p))
       /\ WF_vars(StartLocked(p)) /\ WF_vars(WaitLocked(p)) /\ WF_vars(WaitpidLocked(p))
       /\ WF_vars(ExitLocked(p)) /\ WF_vars(Notify(p)) /\ WF_vars(Leave(p)) /\ WF_vars(Stop(p))
       /\ WF_vars(Pause(p)) /\ WF_vars(Expire(p)) /\ WF_vars(SignalWake(p))
       /\ WF_vars(SignalDeliver(p, "KILL")) /\ WF_vars(InitReap(p))

FairSpec == Spec /\ Fairness

-----------------------------------------------------------------------------
(* Properties.                                                             *)

(* Every process in the table has a parent that can still wait for it:     *)
(* process_terminate leaves no child, running or zombie, behind.           *)
ParentCanWait ==
  \A c \in Proc \ {Init1} : state[c] \notin {"unborn", "free"} => Alive(parent[c])

(* process_wait and process_waitpid free a process, with its address space *)
(* and its kernel stack, only when its thread has left its processor.      *)
FreedIsStopped == \A c \in Proc : state[c] = "free" => c \in stopped

(* Only the living parent of a process is registered as its waiter:        *)
(* process_terminate unblocks nobody else, and process_wait turns no new   *)
(* parent away because of a registration the old one left behind.          *)
WaiterIsParent ==
  \A c \in Proc : waiter[c] # NoProc => waiter[c] = parent[c] /\ Alive(waiter[c])

(* No lost wake-up: a process that is blocked with nobody on the way to    *)
(* unblock it has a child it waits for, none of those has exited, and      *)
(* waitpid has no signal to return for.                                    *)
NoLostWakeup ==
  \A p \in Proc :
    phase[p] = "blocked" /\ p \notin sigwake /\ (\A q \in Proc : notify[q] # p) =>
      /\ Matching(p) # {}
      /\ \A c \in Matching(p) : state[c] # "exited"
      /\ op[p] = "waitpid" => pending[p] = {}
      /\ op[p] = "wait" => waiter[target[p]] = p

(* Zombies whose parent never waited for them are reaped by PID 1 once     *)
(* they are its children, also those that were zombies when their parent   *)
(* exited.                                                                 *)
OrphansReaped ==
  \A c \in Proc : state[c] = "exited" /\ parent[c] = Init1 ~> state[c] = "free"

(* SIGKILL ends a process, also one that is blocked in waitpid, but not    *)
(* one in process_wait, which no signal ends.                              *)
KillEnds ==
  \A p \in Proc :
    "KILL" \in pending[p] ~> state[p] \in {"exited", "free"} \/ op[p] = "wait"

=============================================================================
