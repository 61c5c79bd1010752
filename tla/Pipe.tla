-------------------------------- MODULE Pipe --------------------------------
(***************************************************************************)
(* A pipe (kernel/ipc/pipe.c) used by several single-threaded processes,   *)
(* over the blocking primitives that SleepWake specifies and Scheduler     *)
(* implements.                                                             *)
(*                                                                         *)
(* Each call runs its critical section under pipe_mutex, a sleeping lock:  *)
(* a thread that finds it taken calls scheduler_sleep, which forgets a     *)
(* wake-up that has come meanwhile.  The threads to wake are taken off the *)
(* waiter lists inside the critical section and unblocked, one by one,     *)
(* after it.                                                               *)
(*                                                                         *)
(* fds[e] is the set of threads with a descriptor for end e: dup and fork  *)
(* share one open file description, released by the last descriptor.       *)
(***************************************************************************)
EXTENDS Integers, Sequences, FiniteSets

CONSTANTS
  Thread,
  Byte,
  Capacity,   \* PIPE_CAPACITY
  Waiters,    \* PIPE_WAITERS, the length of each waiter list
  MaxCount,   \* bound on the bytes asked for by one call
  Modes,      \* the settings of O_NONBLOCK in use
  Signalled,  \* the threads that somebody sends signals to
  NoThread

ASSUME PipeAssumption ==
  /\ Capacity \in Nat \ {0} /\ Waiters \in Nat \ {0} /\ MaxCount \in Nat \ {0}
  /\ NoThread \notin Thread /\ Signalled \subseteq Thread
  /\ 0 \in Byte /\ Modes \subseteq BOOLEAN

VARIABLES
  used, buffer, head, count,    \* struct pipe
  readers, writers,
  read_waiters, write_waiters,  \* without their empty slots
  mutex,     \* owner of pipe_mutex
  op,        \* the call a thread is in: "none", "read", "write", "release"
  at,        \* how far: "user", "lock", "locked", "wake", "block", "sleep"
  want,      \* bytes a reader still wants
  rest,      \* bytes a writer has still to write
  nonblock,  \* the call's O_NONBLOCK
  end,       \* the end being released
  wake,      \* threads taken off a waiter list and still to be unblocked
  fds,       \* threads with a descriptor for each end
  sig,       \* threads with a deliverable signal pending
  sigwake,   \* threads that signal_send has still to unblock
  last,      \* what the latest successful read returned
  phase, token  \* SleepWake

SW == INSTANCE SleepWake

pipeVars == <<used, buffer, head, count, readers, writers, read_waiters, write_waiters>>
callVars == <<op, want, rest, nonblock, end>>
vars == <<pipeVars, callVars, mutex, at, wake, fds, sig, sigwake, last, phase, token>>

End == {"read", "write"}
Index == 0 .. Capacity - 1

TypeOK ==
  /\ used \in BOOLEAN
  /\ buffer \in [Index -> Byte]
  /\ head \in Index
  /\ count \in 0 .. Capacity
  /\ readers \in {0, 1} /\ writers \in {0, 1}
  /\ read_waiters \in SUBSET Thread /\ write_waiters \in SUBSET Thread
  /\ mutex \in Thread \cup {NoThread}
  /\ op \in [Thread -> {"none", "read", "write", "release"}]
  /\ at \in [Thread -> {"user", "lock", "locked", "wake", "block", "sleep"}]
  /\ want \in [Thread -> 0 .. MaxCount]
  /\ rest \in [Thread -> Seq(Byte)]
  /\ nonblock \in [Thread -> BOOLEAN]
  /\ end \in [Thread -> End]
  /\ wake \in [Thread -> SUBSET Thread]
  /\ fds \in [End -> SUBSET Thread]
  /\ sig \in SUBSET Thread /\ sigwake \in SUBSET Thread
  /\ SW!SWTypeOK

Init ==
  /\ used = FALSE /\ buffer = [i \in Index |-> 0] /\ head = 0 /\ count = 0
  /\ readers = 0 /\ writers = 0 /\ read_waiters = {} /\ write_waiters = {}
  /\ mutex = NoThread
  /\ op = [t \in Thread |-> "none"] /\ at = [t \in Thread |-> "user"]
  /\ want = [t \in Thread |-> 0] /\ rest = [t \in Thread |-> <<>>]
  /\ nonblock = [t \in Thread |-> FALSE] /\ end = [t \in Thread |-> "read"]
  /\ wake = [t \in Thread |-> {}]
  /\ fds = [e \in End |-> {}]
  /\ sig = {} /\ sigwake = {}
  /\ last = <<>>
  /\ phase = [t \in Thread |-> "awake"] /\ token = [t \in Thread |-> FALSE]

-----------------------------------------------------------------------------
(* Descriptors: fd_pipe, fork, close.                                      *)

Awake(t) == phase[t] = "awake"
InUser(t) == at[t] = "user" /\ Awake(t)

(* pipe_create, one critical section that finds a free pipe. *)
Create(t) ==
  /\ InUser(t)
  /\ mutex = NoThread
  /\ ~used
  /\ fds = [e \in End |-> {}]
  /\ used' = TRUE
  /\ buffer' = [i \in Index |-> 0]
  /\ head' = 0 /\ count' = 0
  /\ readers' = 1 /\ writers' = 1
  /\ read_waiters' = {} /\ write_waiters' = {}
  /\ fds' = [e \in End |-> {t}]
  /\ UNCHANGED <<callVars, mutex, at, wake, sig, sigwake, last, phase, token>>

(* process_fork: fd_clone gives the child the descriptors of its parent. *)
Fork(t, child) ==
  /\ InUser(t) /\ InUser(child)
  /\ \A e \in End : child \notin fds[e]
  /\ fds' = [e \in End |-> IF t \in fds[e] THEN fds[e] \cup {child} ELSE fds[e]]
  /\ UNCHANGED <<pipeVars, callVars, mutex, at, wake, sig, sigwake, last, phase, token>>

(* Mutant of LastHolder: every close releases the end. *)
AnyHolder(t, e) == TRUE

LastHolder(t, e) == fds[e] = {t}

(* fd_close and ofd_release: the last descriptor releases the end. *)
Close(t, e) ==
  /\ InUser(t)
  /\ t \in fds[e]
  /\ fds' = [fds EXCEPT ![e] = @ \ {t}]
  /\ IF LastHolder(t, e)
     THEN /\ op' = [op EXCEPT ![t] = "release"]
          /\ at' = [at EXCEPT ![t] = "lock"]
          /\ end' = [end EXCEPT ![t] = e]
          /\ UNCHANGED <<want, rest, nonblock>>
     ELSE UNCHANGED <<callVars, at>>
  /\ UNCHANGED <<pipeVars, mutex, wake, sig, sigwake, last, phase, token>>

Read(t, n, nb) ==
  /\ InUser(t)
  /\ t \in fds["read"]
  /\ op' = [op EXCEPT ![t] = "read"]
  /\ at' = [at EXCEPT ![t] = "lock"]
  /\ want' = [want EXCEPT ![t] = n]
  /\ nonblock' = [nonblock EXCEPT ![t] = nb]
  /\ UNCHANGED <<pipeVars, rest, end, mutex, wake, fds, sig, sigwake, last, phase, token>>

Write(t, bytes, nb) ==
  /\ InUser(t)
  /\ t \in fds["write"]
  /\ op' = [op EXCEPT ![t] = "write"]
  /\ at' = [at EXCEPT ![t] = "lock"]
  /\ rest' = [rest EXCEPT ![t] = bytes]
  /\ nonblock' = [nonblock EXCEPT ![t] = nb]
  /\ UNCHANGED <<pipeVars, want, end, mutex, wake, fds, sig, sigwake, last, phase, token>>

-----------------------------------------------------------------------------
(* The critical sections.                                                  *)

(* mutex_lock: take it, or sleep and try again. *)
Lock(t) ==
  /\ at[t] = "lock"
  /\ \/ /\ mutex = NoThread
        /\ Awake(t)
        /\ mutex' = t
        /\ at' = [at EXCEPT ![t] = "locked"]
        /\ UNCHANGED <<phase, token>>
     \/ /\ mutex # NoThread
        /\ SW!Sleep(t, {})
        /\ UNCHANGED <<mutex, at>>
  /\ UNCHANGED <<pipeVars, callVars, wake, fds, sig, sigwake, last>>

(* The call returns to its caller. *)
Return(t) ==
  /\ op' = [op EXCEPT ![t] = "none"]
  /\ at' = [at EXCEPT ![t] = "user"]
  /\ want' = [want EXCEPT ![t] = 0]
  /\ rest' = [rest EXCEPT ![t] = <<>>]
  /\ nonblock' = [nonblock EXCEPT ![t] = FALSE]
  /\ end' = [end EXCEPT ![t] = "read"]

(* waiters_take: the threads on the lists taken are woken after the        *)
(* critical section.                                                       *)
WakeAfter(t, tids) ==
  /\ wake' = [wake EXCEPT ![t] = tids]
  /\ at' = [at EXCEPT ![t] = "wake"]

InSection(t, o) == mutex = t /\ at[t] = "locked" /\ op[t] = o

Least(m, n) == IF m < n THEN m ELSE n

(* waiters_clear. *)
Cleared(list, t) == list \ {t}

(* waiters_add, on the list from which waiters_clear has removed t: block  *)
(* until woken, or poll when the list is full.                             *)
WaitOn(t, list) ==
  IF Cardinality(list) < Waiters
  THEN <<list \cup {t}, "block">>
  ELSE <<list, "sleep">>

(* Mutant of TakeWriters: a reader that makes room wakes nobody. *)
TakeNobody(t) ==
  /\ WakeAfter(t, {})
  /\ UNCHANGED write_waiters

TakeWriters(t) ==
  /\ WakeAfter(t, write_waiters)
  /\ write_waiters' = {}

(* Mutant of ReadIndex: the ring does not wrap. *)
ReadIndexFlat(i) == Least(head + i, Capacity - 1)

ReadIndex(i) == (head + i) % Capacity

(* Mutant of Advanced: the head does not wrap. *)
AdvancedFlat(amount) == head + amount

Advanced(amount) == (head + amount) % Capacity

(* pipe_read, once it holds the mutex. *)
ReadLocked(t) ==
  LET cleared == Cleared(read_waiters, t)
      amount == Least(want[t], count)
      wait == WaitOn(t, cleared)
  IN /\ InSection(t, "read")
     /\ mutex' = NoThread
     /\ \/ /\ ~used                                   \* -KERR_BADF
           /\ Return(t)
           /\ UNCHANGED <<pipeVars, wake, last>>
        \/ /\ used /\ count > 0
           /\ last' = [i \in 1 .. amount |-> buffer[ReadIndex(i - 1)]]
           /\ head' = Advanced(amount)
           /\ count' = count - amount
           /\ read_waiters' = cleared
           /\ TakeWriters(t)
           /\ UNCHANGED <<used, buffer, readers, writers, callVars>>
        \/ /\ used /\ count = 0
           /\ writers = 0 \/ nonblock[t] \/ t \in sig   \* 0, -KERR_AGAIN, -KERR_INTR
           /\ last' = IF writers = 0 THEN <<>> ELSE last
           /\ read_waiters' = cleared
           /\ Return(t)
           /\ UNCHANGED <<used, buffer, head, count, readers, writers, write_waiters, wake>>
        \/ /\ used /\ count = 0 /\ writers > 0 /\ ~nonblock[t] /\ t \notin sig
           /\ read_waiters' = wait[1]
           /\ at' = [at EXCEPT ![t] = wait[2]]
           /\ UNCHANGED <<used, buffer, head, count, readers, writers, write_waiters,
                          callVars, wake, last>>
     /\ UNCHANGED <<fds, sig, sigwake, phase, token>>

(* pipe_write, once it holds the mutex; SIGPIPE may be ignored. *)
WriteLocked(t) ==
  LET cleared == Cleared(write_waiters, t)
      amount == Least(Len(rest[t]), Capacity - count)
      wait == WaitOn(t, cleared)
  IN /\ InSection(t, "write")
     /\ mutex' = NoThread
     /\ \/ /\ ~used                                   \* -KERR_BADF
           /\ Return(t)
           /\ UNCHANGED <<pipeVars, wake, sig>>
        \/ /\ used /\ readers = 0                      \* -KERR_PIPE
           /\ write_waiters' = cleared
           /\ sig' \in {sig, sig \cup {t}}
           /\ Return(t)
           /\ UNCHANGED <<used, buffer, head, count, readers, writers, read_waiters, wake>>
        \/ /\ used /\ readers > 0 /\ count < Capacity
           /\ buffer' = [i \in Index |->
                           LET k == (i - head - count) % Capacity
                           IN IF k < amount THEN rest[t][k + 1] ELSE buffer[i]]
           /\ count' = count + amount
           /\ rest' = [rest EXCEPT ![t] = SubSeq(@, amount + 1, Len(@))]
           /\ write_waiters' = cleared
           /\ read_waiters' = {}
           /\ WakeAfter(t, read_waiters)
           /\ UNCHANGED <<used, head, readers, writers, op, want, nonblock, end, sig>>
        \/ /\ used /\ readers > 0 /\ count = Capacity
           /\ nonblock[t] \/ t \in sig                   \* -KERR_AGAIN, -KERR_INTR
           /\ write_waiters' = cleared
           /\ Return(t)
           /\ UNCHANGED <<used, buffer, head, count, readers, writers, read_waiters,
                          wake, sig>>
        \/ /\ used /\ readers > 0 /\ count = Capacity
           /\ ~nonblock[t] /\ t \notin sig
           /\ write_waiters' = wait[1]
           /\ at' = [at EXCEPT ![t] = wait[2]]
           /\ UNCHANGED <<used, buffer, head, count, readers, writers, read_waiters,
                          callVars, wake, sig>>
     /\ UNCHANGED <<fds, sigwake, last, phase, token>>

(* Mutant of BothClosed: the pipe is freed with its first end. *)
EitherClosed(r, w) == r = 0 \/ w = 0

BothClosed(r, w) == r = 0 /\ w = 0

(* Mutant of ReleaseWakes: closing an end wakes nobody. *)
ReleaseWakesNone == {}

ReleaseWakes == read_waiters \cup write_waiters

(* pipe_release, once it holds the mutex. *)
ReleaseLocked(t) ==
  LET r == IF end[t] = "read" /\ readers > 0 THEN readers - 1 ELSE readers
      w == IF end[t] = "write" /\ writers > 0 THEN writers - 1 ELSE writers
  IN /\ InSection(t, "release")
     /\ mutex' = NoThread
     /\ IF ~used
        THEN /\ WakeAfter(t, {})
             /\ UNCHANGED pipeVars
        ELSE /\ readers' = r /\ writers' = w
             /\ read_waiters' = {} /\ write_waiters' = {}
             /\ IF BothClosed(r, w)
                THEN /\ used' = FALSE /\ head' = 0 /\ count' = 0
                     /\ buffer' = [i \in Index |-> 0]
                     /\ WakeAfter(t, {})
                ELSE /\ UNCHANGED <<used, buffer, head, count>>
                     /\ WakeAfter(t, ReleaseWakes)
     /\ UNCHANGED <<callVars, fds, sig, sigwake, last, phase, token>>

-----------------------------------------------------------------------------
(* Waking and waiting.                                                     *)

(* wake_all after the critical section; then the call returns, or          *)
(* pipe_write goes on with the rest of its bytes.                          *)
WakeStep(t) ==
  /\ at[t] = "wake" /\ Awake(t)
  /\ IF wake[t] # {}
     THEN /\ \E u \in wake[t] : SW!Unblock(u) /\ wake' = [wake EXCEPT ![t] = @ \ {u}]
          /\ UNCHANGED <<callVars, at>>
     ELSE /\ IF op[t] = "write" /\ rest[t] # <<>>
             THEN at' = [at EXCEPT ![t] = "lock"] /\ UNCHANGED callVars
             ELSE Return(t)
          /\ UNCHANGED <<wake, phase, token>>
  /\ UNCHANGED <<pipeVars, mutex, fds, sig, sigwake, last>>

(* scheduler_block or scheduler_sleep(1), and round the loop again. *)
Wait(t) ==
  /\ \/ at[t] = "block" /\ SW!Block(t, {})
     \/ at[t] = "sleep" /\ SW!Sleep(t, {})
  /\ at' = [at EXCEPT ![t] = "lock"]
  /\ UNCHANGED <<pipeVars, callVars, mutex, wake, fds, sig, sigwake, last>>

(* A timeout runs out. *)
Expire(t) ==
  /\ phase[t] = "timed"
  /\ SW!Expire({t})
  /\ UNCHANGED <<pipeVars, callVars, mutex, at, wake, fds, sig, sigwake, last>>

(* signal_send: the signal becomes pending unless it is ignored, then the  *)
(* thread is unblocked in any case.                                        *)
SignalSend(t) ==
  /\ t \in Signalled \ sigwake
  /\ sig' \in {sig, sig \cup {t}}
  /\ sigwake' = sigwake \cup {t}
  /\ UNCHANGED <<pipeVars, callVars, mutex, at, wake, fds, last, phase, token>>

SignalWake(t) ==
  /\ t \in sigwake
  /\ SW!Unblock(t)
  /\ sigwake' = sigwake \ {t}
  /\ UNCHANGED <<pipeVars, callVars, mutex, at, wake, fds, sig, last>>

(* signal_deliver, on the way back to user code. *)
SignalDeliver(t) ==
  /\ InUser(t)
  /\ t \in sig
  /\ sig' = sig \ {t}
  /\ UNCHANGED <<pipeVars, callVars, mutex, at, wake, fds, sigwake, last, phase, token>>

Next ==
  \E t \in Thread :
    \/ Create(t) \/ Lock(t) \/ ReadLocked(t) \/ WriteLocked(t) \/ ReleaseLocked(t)
    \/ WakeStep(t) \/ Wait(t) \/ Expire(t)
    \/ SignalSend(t) \/ SignalWake(t) \/ SignalDeliver(t)
    \/ \E child \in Thread : Fork(t, child)
    \/ \E e \in End : Close(t, e)
    \/ \E n \in 1 .. MaxCount, nb \in Modes :
         Read(t, n, nb) \/ \E bytes \in [1 .. n -> Byte] : Write(t, bytes, nb)

Spec == Init /\ [][Next]_vars

(* A thread that is inside a call keeps running when it can, timeouts run  *)
(* out, and signal_send gets to its scheduler_unblock.                     *)
Fairness ==
  \A t \in Thread :
    /\ WF_vars(ReadLocked(t)) /\ WF_vars(WriteLocked(t)) /\ WF_vars(ReleaseLocked(t))
    /\ WF_vars(WakeStep(t)) /\ WF_vars(Wait(t)) /\ WF_vars(Expire(t))
    /\ WF_vars(SignalWake(t))

FairSpec == Spec /\ Fairness

-----------------------------------------------------------------------------
(* Properties.                                                             *)

(* A process inside pipe_read or pipe_write still has its descriptor and   *)
(* the pipe has not been freed under it: the -KERR_BADF paths are dead and *)
(* a pipe that is created again is never entered by an old caller.         *)
CallersHoldPipe ==
  \A t \in Thread : op[t] \in End => t \in fds[op[t]] /\ used

(* An end counts as open exactly until its release goes through: it is not *)
(* closed early, which would end the stream for the others, nor left open, *)
(* which would make a reader wait for ever.                                *)
EndCounted ==
  \A e \in End :
    LET n == IF e = "read" THEN readers ELSE writers
    IN n = IF \/ fds[e] # {}
              \/ \E t \in Thread : op[t] = "release" /\ end[t] = e /\ at[t] # "wake"
           THEN 1 ELSE 0

(* No lost wake-up: a thread that is blocked with nobody on the way to     *)
(* unblock it is registered, and what it waits for has not happened.       *)
NoLostWakeup ==
  \A t \in Thread :
    phase[t] = "blocked" /\ t \notin sigwake /\ (\A u \in Thread : t \notin wake[u]) =>
      /\ t \notin sig
      /\ \/ op[t] = "read" /\ t \in read_waiters /\ count = 0 /\ writers > 0
         \/ op[t] = "write" /\ t \in write_waiters /\ count = Capacity /\ readers > 0

(* What pipe_read or pipe_write waits for has happened. *)
Ready(t) ==
  \/ t \in sig
  \/ op[t] = "read" /\ (count > 0 \/ writers = 0)
  \/ op[t] = "write" /\ (count < Capacity \/ readers = 0)

(* A blocked reader gets going again once there is something to read, the  *)
(* stream has ended or a signal has come; a blocked writer once there is   *)
(* room, nobody reads or a signal has come.                                *)
BlockedGetsWoken ==
  \A t \in Thread : phase[t] = "blocked" /\ Ready(t) ~> phase[t] = "awake"

Stream == INSTANCE ByteStream WITH
  queue <- [i \in 1 .. count |-> buffer[(head + i - 1) % Capacity]],
  open <- (IF readers > 0 THEN {"read"} ELSE {}) \cup (IF writers > 0 THEN {"write"} ELSE {}),
  last <- last

(* pipe_read and pipe_write make a bounded first-in first-out byte stream: *)
(* no byte is lost, duplicated, reordered or made up, whatever the ring    *)
(* index, the readers, the writers and the interruptions; end of stream is *)
(* reported only when it has come.                                         *)
ImplementsByteStream == Stream!BSSpec

=============================================================================
