# PureC-OS: TLA+ models and proofs

This directory holds a verification project for PureC-OS, a 64-bit multiprocessor
operating system written in C. It models the concurrent core of the kernel: the
scheduler, processes, pipes, memory, TCP, the locks that file and process calls
share, and the parts of SMP support they rest on. TLC checks the models on small
instances. TLAPS proves the safety properties of every component for any number
of processors, threads, processes, frames or sockets; section 5 names the few
that are only model-checked.

Paths below are relative to the repository (`src/kernel/...` is the kernel).

## 1. The system

### Parts that are modelled

| Part | Code | State | Operations | Talks to |
|---|---|---|---|---|
| Scheduler | `src/kernel/process/scheduler.c` | threads, their states, timeouts, wake tokens, preemption depth; current and previous thread of each processor; `runqueue_lock` | create, yield, sleep, block, unblock, exit, affinity, preempt disable and enable, enter and leave kernel, timer and reschedule interrupts | everything that blocks |
| Pipes | `src/kernel/ipc/pipe.c`, with `ofd.c` and `fdtable.c` | ring, reader and writer counts, waiter lists, `pipe_mutex` | create, read, write, release; clone at fork | scheduler, signals |
| Processes | `src/kernel/process/process.c`, `signal.c`, `src/programs/init/main.c` | process table, parents, waiters, pending signals, `process_mutex` | fork, exit, wait, waitpid, reap, signal send and delivery; the loop of PID 1 | scheduler |
| Virtual memory | `src/mm/vmm.c`, `src/io/swap.c` | page tables, frame contents, swap slots and their counts | map, unmap, fork, copy-on-write fault, swap out and in, mprotect, destroy | frame allocator, shootdown |
| Frame allocator | `src/mm/pmm.c` | bitmap, cursor, free count, reference counts | allocate a page or a run, free, add a reference | virtual memory |
| Shootdown and panic stop | `src/kernel/smp/smp.c`, `src/arch/x86_64/mmio.c` | generation, requests, acknowledgements, NMIs, stop masks | shootdown, NMI handler, stop of the others in a panic | virtual memory, spinlocks |
| TCP | `src/net/transport/tcp.c` | table of sockets with their states, sequence numbers, buffers, windows, timers and accept queues | socket, listen, connect, accept, send, receive, close, abort, release at exit; arrival of a segment, timers | network service, processes |
| Locks of files and processes | `src/kernel/sync/mutex.c`, `src/kernel/syscall/syscall.c`, with the callers in `process.c`, `fdtable.c`, `ofd.c`, `src/fs/vfs.c`, `src/fs/procfs.c`, `tcp.c` | owner and depth of `process_mutex`, `vfs_mutex`, `tcp_lock`; the lock of the file system calls; the state of the installer | lock, unlock, sleep and retry, in the order of exit, path lookup, file calls, installer, network service | scheduler |
| Processor start | `src/kernel/smp/cpu.c`, `smp.c` | state of each processor | start, time out, publish, fail, release | scheduler |

### What is hard about them

- A context switch has two halves, on two stacks. The lock is handed from one
  thread to another in between.
- Waking is decided under one lock and done after it is released. The sleeper
  may be about to block, already awake, or asleep again for another reason.
- `mutex_lock` is itself a sleep with a timeout. It consumes wake-up tokens.
- System calls run on processor 0 only. User code runs anywhere.
- An exit is spread over five steps. Somebody else frees the process.
- Pages are shared by reference counts that can saturate. A fork can fail
  half-way.
- A shootdown waits for processors that may be spinning for a lock the waiter
  holds, with interrupts disabled. Only the NMI gets through, and pending NMIs
  merge.
- A processor may come up at the instant it is given up. Two may panic at once,
  and stop each other half-way through stopping the rest.
- An exit takes three mutexes, and an open under `/proc` two of them in the
  other order.
- Segments are lost, duplicated and reordered, sequence numbers wrap, and slots
  of the table of sockets are used again.

`PROJECT.json` lists each such place under `hazards`, at its line, with the
property that watches it or the reason there is none yet.

### Parts that are not modelled

Not modelled: mailboxes (`ipc.c`), the dispatch and argument checks of system
calls, terminals, memory pressure (`mm/oom`), the block layer, the data of the
virtual filesystem and the filesystems, UDP and the lower layers of the network,
device drivers, the compositor and window manager, program loading, the
libraries and the programs. Section 7 says which are planned. The others are
register access, formats, drawing or sequential code. `PROJECT.json` gives the
reason for each.

The map covers a small part of the repository's lines, about one in a hundred.
Most of the rest is ported software (Lua, MicroPython, Doom, GNU make, SDL),
drivers, and tables. The models cover the parts where interleavings decide
whether the code is right.

## 2. Modules

Abstract specifications say what a component promises. Detailed ones are
translated from the code and shown to implement them by a refinement mapping
(`INSTANCE ... WITH`).

| Abstract | Detailed | Instances | Proofs |
|---|---|---|---|
| `SleepWake`: block, sleep, unblock | `Scheduler` | `MCScheduler` | `SchedulerProofs` |
| `ByteStream`: a bounded FIFO of bytes | `Pipe` | `MCPipe` | `PipeProofs` |
| `PrivateMemory`: one map per process | `Memory` | `MCMemory` | `MemoryProofs` |
| `FrameStore`: frames with owners | `Pmm` | `Pmm` | `PmmProofs` |
| `TcpStream`: bytes in order, once, with an end | `Tcp` | `MCTcp` | `TcpProofs` |
| | `Process` | `MCProcess` | `ProcessProofs` |
| | `CpuStart` | `MCSmp` | `SmpProofs` |
| | `Tlb` | `MCSmp`, `Tlb` | `SmpProofs` |
| | `FileLocks` | `FileLocks` | `FileLocksProofs` |

`Pipe` and `Process` are composed with the scheduler through its abstraction:
their blocking calls are the actions of `SleepWake`, which `Scheduler` is proved
to implement. `Memory` in the same way leaves the choice of a free frame open,
as `FrameStore` does, and `Pmm` implements that. `Pipe` and `Process` allow a
switch between any two critical sections, which is more than the code does on
one processor: what holds for them holds for the code.

### Scheduler

`state`, `running_cpu`, `wake_tick`, `wake_pending`, `kernel_only`, `affinity`
and `preempt_saved` are the fields of `struct thread`. `current`, `previous`,
`preempt_depth`, `reschedule_pending` and `started` are those of
`struct scheduler_cpu`. `runqueue_lock` names the processor that is between the
two halves of a switch; every other use of the lock is one step, because it is
held with interrupts off and released in the same function. `mode` says where a
user thread is with respect to `scheduler_enter_kernel` and
`scheduler_leave_kernel`. `held` is a ghost: the `scheduler_preempt_disable`
calls of a thread not yet undone.

`ScheduleFrom` is `schedule_locked` up to the switch of stacks, with
`wake_sleeping_threads` and `pick_next`. `FinishSwitch` is `finish_switch`.
Each operation that ends in `schedule_locked` includes it. The clock is reduced
to whether a thread's wake-up tick is due (`Elapse`). Which of the selectable
threads `pick_next` prefers is left open, so every property holds for any
policy, the EEVDF one of the code included.

`SleepWake` keeps two facts of a thread: its phase (awake, blocked, blocked with
a timeout, dead) and whether a wake-up is remembered.

### Pipe

The variables of `struct pipe`, and for each thread the call it is in and how
far it is: waiting for `pipe_mutex`, holding it, waking others, about to block.
`ReadLocked`, `WriteLocked` and `ReleaseLocked` are the critical sections of
`pipe_read`, `pipe_write` and `pipe_release` with every early return.
`WakeStep` unblocks the threads that were taken off a waiter list, one at a
time, after the section. The branches for a pipe that is not in use are kept
as in the code; `CallersHoldPipe` shows that they are never taken.

### Process

Each process has one thread. `ExitLocked`, `Notify`, `Leave` and `Stop` are the
steps of an exit: the critical section of `process_terminate`, the wake-up of the
parent after it, `scheduler_exit`, and the end of the context switch.
`WaitLocked` and `WaitpidLocked` are the two ways to wait. `InitReap` is the
loop of PID 1.

### Memory and Pmm

`Memory` has one action per operation of `vmm.c`, each under `vmm_lock`. A page
table is a function from pages to entries with the bits the code tests: writable,
user, copy-on-write, anonymous. `CloneFails` is a fork that fails after copying
some of the pages. `Pmm` is `pmm.c` with its bitmap, cursor and two-pass search.

### Tlb

A processor keeps at most one translation, which the hardware may fill from the
page table at any time. The users of the shootdown change a table under
`vmm_lock` (`Edit`) and then run `smp_tlb_shootdown` (`Shoot`, `Post`, `Finish`)
before frames are freed (`Free`). `Nmi`, `NmiFlush` and `NmiAck` are
`smp_handle_nmi`. A second NMI is lost while one is pending.

A panic goes step by step, since other processors run in between: `Panic` tests
`panic_active`, `Raise` sets it, `StopOthers` sets the bits of `stop_mask`,
`SendStop` sends the NMI to the next processor by number, and `StopsSent` is the
end of the wait. As the flag is not exchanged atomically, two processors can both
pass it; an NMI ends the loop of the one that takes it wherever it is. `Post`
goes by number in the same way. `lapic_send` is taken to succeed: the code
panics when it fails in a shootdown, and ignores it in a panic.

### CpuStart

`smp_start_cpu` on the boot processor, `smp_ap_main` on the others, and the table
of states in `cpu.c` that both change by compare and exchange. The second
exchange of `cpu_fail`, from IDLE, is left out: all its callers come before
`cpu_publish_idle`.

`MCSmp` puts the two one after the other: when processors 1 and 2 have come up
and scheduling has been released, `Tlb` is what the three online processors do.

### Tcp

A socket is a record with the fields of `struct tcp_socket` that decide what
happens; buffers are sequences, the network is a set of segments. Both ends of a
connection are sockets of the same table. `ProcessSegment`, `HandleAck` and
`Output` are `process_segment`, `handle_ack` and `tcp_output`, as functions from
a socket to a socket and the segments it sends. The loop of `tcp_output` is
written out: `SendLength` is how much it sends in all, and `SendData` cuts it
into segments. `MCTcp` has the loop as a recursive operator, and TLC compares
the two for every socket of a small set (`SendDataIsTheLoop`). Sequence numbers
are modulo `SeqMod`, with the signed comparison of the code.

Left open: the congestion window (any from one segment up), when the third
duplicate acknowledgement comes, and when timers run out. A loss, a duplicate, a
timer that runs out while segments are under way, a wait for ARP, an abort and
an exit are faults, of which a behaviour has at most `MaxFaults`. The network
also reorders, which costs nothing. A socket is connected once. The branch for
two sides that open at once is in the model, and not reached by its instance.
Nothing is said of a receiver that waits for a peer that has nothing to send: the
code has no keep-alive.

`TcpStream` counts the bytes sent in each direction and keeps those received.
The bytes of `Tcp` are numbered, so that one taken twice or skipped shows.

### FileLocks

A thread is at a label, named for its call and for what comes next, and takes or
gives back one lock in a step. A system call keeps processor 0 until it returns
or sleeps, because `int 0x80` is an interrupt gate and calls are confined to that
processor (`running`). The installer and the network service are threads of the
kernel, interrupted anywhere. `Sleep` and `Wake` are the polling of `mutex_lock`.

## 3. Runs

Every run checks for deadlock, except where processes are used up, processors
have halted, or the connections of `tcp` are over.
`file_locks` looks for waiting without end by a liveness property instead.

| Run | Checks | Instance | States |
|---|---|---|---|
| `scheduler_safety` | a thread is on one processor; a stopped thread is gone; kernel code on processor 0; depth follows the thread; no stale timeout; preemption respected; implements `SleepWake` | 2 processors, a user and a kernel thread, depth 1 | 337,228 |
| `scheduler_liveness` | a due sleeper is made ready | 1 processor, the same threads | 5,899 |
| `pipe_stream` | implements `ByteStream` | 2 threads, a ring of 2, two byte values, calls of up to 2 bytes | 1,072,875 |
| `pipe_waiting` | no lost wake-up, the pipe is not recycled under a call, ends counted, blocked threads get going | 2 threads, a ring of 1, lists of 1, blocking and not, signals | 116,596 |
| `memory` | counts exact, writable pages private, slots counted, implements `PrivateMemory` | 2 spaces of 2 pages, 4 frames, 1 slot, counts that reach their limits | 59,816 |
| `memory_mprotect` | finds the violation of section 6 | 2 spaces of 1 page, 4 frames | 52, to the violation |
| `frame_allocator` | free count exact, implements `FrameStore` | 6 frames, runs of up to 3, any set of usable frames | 73,555 |
| `process` | parents can wait, nothing freed early, no stale waiter, no lost wake-up, orphans reaped, SIGKILL ends a process | PID 1 and 2 processes, both calls, signals, 2 calls | 85,568 |
| `smp` | start: both sides agree, the system starts; shootdown: no freed translation, coherence, shootdowns end; panic: whoever panics stops all others or is stopped | 3 processors besides the boot one; then 3 online ones of which 2 may panic, 2 spaces, 2 frames, 2 generations | 378,115 |
| `panic_together` | finds the violation of section 6 | 3 processors of which 2 may panic, no shootdown | 816 |
| `tcp` | implements `TcpStream`, nobody waits without a timer, accept queues right | 6 slots, up to 3 clients, a backlog of 2, buffers and segments of 2 bytes, 3 bytes sent, sequence numbers modulo 32 that wrap, 1 fault | 201,527 |
| `file_locks` | finds the violation of section 6 | 2 processes, an installer, the network service | about 2,500, to the violation |

### Why the bounds are enough for what they show

- Two processors and two threads let a thread be picked, preempted, woken and
  migrated while it is between the halves of a switch. More of either is what
  the proofs are for.
- A ring of two bytes with calls of up to two wraps at every offset and cuts
  reads and writes short. A waiter list of one is full as soon as one thread
  waits.
- One reference beyond the first is the limit in the memory runs, so that fork
  meets it. Swap counts saturate at two, so that one fork sticks them.
- Three processes give a parent with a child beside PID 1, or two of its
  children, exiting in any order. The safety properties of this run are proved
  for any number.
- Two generations let an acknowledgement of the first be taken for one of the
  second. Three processors let two that panic stop each other before the third.
- `smp` and `tcp` explore a union of scenarios (`Scenario`, a state constraint),
  since the product of all that can happen is out of reach. `smp`: two changes of
  page tables without a panic, or panics around one change with one space and
  frame. `tcp`: one client that sends three bytes, or two to a server that may
  close as well; or two clients that send nothing, one of which may close; or
  three of them, without faults or a close.
  A step that leaves a scenario is one that no fairness asks for, so the liveness
  properties of `smp` are not affected.
- Three bytes through buffers of two fill a buffer, close a window and open it
  again. The client's sequence numbers start at 30 of 32 and wrap
  within the data. With a backlog of two, two connections wait in the queue at
  once, and a third client is turned away for the backlog while slots are free.
  One fault at any point of a connection is one lost, late or repeated segment; two
  independent faults are not explored.
- `MaxCalls` bounds the calls to `waitpid` in the liveness run, for the reason
  given in section 4. `MaxDepth`, `MaxCount`, `MaxGen`, `MaxRun`, `MaxRefs`,
  `MaxSwapRefs`, `MaxOpened`, `MaxIsn`, `MaxNet`, `MaxFaults` and `MaxBytes` are
  named where they are declared.

## 4. Fairness

- `Scheduler`: a switch that has begun ends (interrupts are off in it). Timer
  interrupts keep arriving and are taken when the processor can take them; that
  needs strong fairness because preemption and system calls disable them again
  and again. Code in the kernel gets to its end.
- `Pipe`, `Process`: weak fairness of the steps of a thread inside a call, of
  timeouts, and of the wake-ups that others have begun. Nothing is assumed of
  user code: it may stop calling.
- `mutex_lock` polls once a tick, so a thread can lose to others for ever. No
  strong fairness is assumed of it. What needs the process table is shown for a
  bounded number of other calls instead.
- `Tlb`: a processor that has something to do goes on unless it is stopped
  (`GoesOn`), and NMIs arrive. That processes make calls, or that a processor
  panics, is not assumed. `CpuStart`: the boot processor and its clock run. A
  processor that is started need never answer.
- `FileLocks`: strong fairness of the steps of a call, and of waking up when the
  lock is free, which is more than the polling guarantees: the counterexample is
  not one of starvation. Loops over files end.
- `Tcp` has no fairness. That nobody waits for ever is the invariant `NoStall`.

## 5. Proofs

### Scheduler

`SchedulerProofs` proves, for every set of processors that contains processor 0,
every set of threads and every bound on the nesting of preemption:

| Theorem | Statement |
|---|---|
| `TypeCorrect` | the type invariant; depths never go below zero |
| `OneCpu` | a thread is current on one processor at most, and no other is still leaving it |
| `Stopped` | when `scheduler_thread_stopped` says so, the thread is on no processor |
| `KernelConfined` | a user thread executes kernel code on processor 0 only |
| `DepthCorrect` | the preemption depth follows the thread |
| `TimeoutsFresh` | only a blocked thread has a timeout armed |
| `NoPreemption` | no step takes the processor from a thread that has disabled preemption |
| `Refinement` | `Scheduler` implements `SleepWake` |

The assumptions are `CpuAssumption`, `ThreadAssumption` and `DepthAssumption`
of `Scheduler`.

None of the safety properties is inductive. That two processors never run one
thread depends on how four pieces of state agree at every step of a switch:
`current` and `previous` of the processors, `running_cpu` of the threads and the
holder of `runqueue_lock`. The inductive invariant `IInv` is the conjunction of

- `TypeOK`;
- `Placement`: a current thread is RUNNING there and the converse; a thread has a
  processor only while that one runs it or is leaving it; a processor is leaving
  a thread exactly while it holds the lock; a terminated thread is being left; a
  free one is nowhere; a processor that has not started idles;
- `Depth`: where each thread's depth is kept, on its processor or in
  `preempt_saved`;
- `Confined`: a user thread in the kernel, or on its way in, is marked
  `kernel_only`, and runs on processor 0 once it is inside;
- `NoStaleTimeout`.

`InitInv` and `StepInv` establish it. `StepInv` has one step per action.
`ScheduleInv`, `YieldInv` and `GiveUpInv` are lemmas on the parts that several
actions share.
`Refinement` uses `IInv` and shows for each action which step of `SleepWake` it
is, or that it is a stutter.

### Processes

For every set of processes and every choice of those that are signalled
(`ProcessAssumption`):

| Theorem | Statement |
|---|---|
| `ParentsCanWait` | every process in the table but PID 1 has a living parent |
| `FreedAreStopped` | a freed process has left its processor |
| `WaitersAreParents` | only the living parent is registered as waiter |
| `WakeupsAreNotLost` | nobody sleeps through an exit or a signal |
| `ProcessTypeCorrect` | the type invariant |

`ProcInv` adds `Lives` to the first three: a process is a zombie exactly from
the end of the critical section of its exit, an unborn one has no thread that
could call, and PID 1 does not exit. `NoLostWakeup` speaks of blocked threads,
and is not inductive: the child may exit, and its wake-up arrive, between the
caller's critical section and its block. `WakeInv` therefore says the same of a
thread that is about to block with no wake-up remembered (`Watching`), and where
in a call a thread can be asleep, gone, or owe a wake-up (`Places`).

### Pipes

For every set of threads and of bytes, every capacity of the ring and every
length of the waiter lists (`PipeAssumption`):

| Theorem | Statement |
|---|---|
| `PipeTypeCorrect` | the type invariant |
| `CallersKeepPipe` | no call finds its pipe freed, or created again for others |
| `EndsAreCounted` | an end is open exactly until its last release has gone through |
| `PipeLosesNoWakeup` | nobody sleeps on a pipe that is ready, unless a wake-up is on the way |
| `PipeRefinement` | `Pipe` implements `ByteStream` |

`PipeInv` says what a thread holds at each point of a call (`InCall`): the mutex
while it is in the section, wake-ups only after it, its descriptor throughout a
read or a write. `Ends` adds that one thread at most is on its way to release an
end, and only when nobody has a descriptor for it. Together they show that the
branches for a pipe not in use are dead code. As for processes, `NoLostWakeup`
holds of a blocked thread because it held when the thread left the section with
no wake-up remembered; `WakeInv` says so. It includes the thread that finds the
waiter list full: it sleeps for a tick and looks again, so it never blocks
without being registered.

The refinement is about the ring. `TakeReads` and `PutWrites` show, for every
head, count and capacity, that advancing the head modulo the capacity takes the
front of the queue, and that writing behind it appends, without touching a byte
that is still to be read. They rest on `Wraps` and `Positions`, which say where
in the ring a place of the queue is. Every other step of a call is a stutter.

### Address spaces

For all finite sets of address spaces and pages, every set of frames and slots
and every limit on references (`MemoryAssumption`):

| Theorem | Statement |
|---|---|
| `MemoryTypeCorrect` | the type invariant |
| `FramesAreCounted` | a frame counts exactly the tables that map it, and the root it is |
| `SlotsAreCounted` | a slot counts exactly its entries, or its count is saturated |
| `WritableArePrivate` | a page writable without a fault has its frame to itself |
| `MemoryRefinement` | `Memory` implements `PrivateMemory` |

The last two assume that `mprotect` gives no right to write (`"write" \notin
Prots`). Without the assumption they are false, as the run `memory_mprotect`
shows (section 6); the first three need no such assumption.

The counts speak of cardinalities, which a step that changes one entry moves by
at most one in each direction: `EntryChanged`, `SpaceChanged` and `RootChanged`
say so once, for one entry, for a page table and for a root. For a count to say
something about an entry, `CountInv` adds that an entry in use belongs to an
address space in use and names a frame or a slot (`Placed`), that no table refers
to a frame or slot twice (`MappedOnce`), and that neither a free frame nor the
frame of a root has a reference left over (`NoStrayReference`). From it follow
the facts that the operations need and no line of the code checks: a free frame
is mapped nowhere (`FreeIsUnused`), and a frame without further references in one
table only (`MappedIsUsed`). `EntryKeeps` reduces an operation on one page to
what it does to the count of each frame and slot. Eviction in the middle of a
swap-in changes two entries and is done in two such steps.

Privacy is by operation. `Kept(s, p)` says that a page has the contents it had,
wherever it is kept before and after, and may be written only where it is alone;
each operation keeps every page but those it is about. `MemoryRefinement` then
names the step of `PrivateMemory` that each operation is. Eviction, swapping in
and resolving a copy-on-write fault are stutters.

### Frame allocator

For every number of frames, limit on references and length of runs
(`PmmAssumption`): `PmmTypeCorrect`; `FreeFramesCounted`, that `free_frames` is
the number of clear bits; and `PmmRefinement`, that `Pmm` implements
`FrameStore`. The refinement includes that a search from the cursor that wraps
round misses no frame (`SearchIsComplete`). `PmmInv` adds that a free frame has
no reference left over, and that the runs given out are in use, unshared and
apart from each other.

### Translations

For every finite set of processors and every set of spaces and frames
(`TlbAssumption`): `TlbTypeCorrect`; `FreedAreForgotten`, that no processor keeps
a translation to a freed frame; and `TranslationsAgree`, that processors see what
their tables say whenever `vmm_lock` is free. Both speak of moments after a
shootdown. What carries them through one is `TakenBack`: a processor that has
acknowledged the generation under way, or has flushed for it and is about to
acknowledge, sees the table as the holder of the lock left it. `InOrder` bounds
the generation by the shootdowns that are still to come, so that the bound
`MaxGen` never stops one that has begun.

`StopsReachAll` is the safety half of `PanicStops`, for any number of processors
that panic together: when one has got through `smp_stop_others`, each other has
stopped, or has its stop bit set and an NMI pending. `StopInv` says the same of
those that the loop has passed. An NMI handler that was entered before the bit
was set returns without stopping; the argument is that the loop's NMI comes after
the bit and is then pending again.

### Start of processors

For every set of processors (`ApAssumption`), `OnlineProcessorsRun` and
`AnswersAreRight`. The invariant `StartInv` adds that a processor is STARTING
only while `smp_start_cpu` waits for it, and that those it has not tried are
parked.

### Locks

For every set of processes, installers and services without `None`
(`LocksAssumption`): `MutexesAreRight` (one thread at a time in a section, and
`mutex_unlock` never panics) and `InstallerIsAlone` (no file system call is under
way while the installer writes, not even one that passed the gate before).
`LocksInv` says how deep a thread is in each mutex at each label, and that the
mutex has just that depth. No run lists these two properties, since the run of
this module shows a violation. TLC finds them to hold for three processes, two
installers and a service.

### TCP

For every finite table of sockets, every backlog, buffer, segment size and even
modulus of more than two buffers (`TcpAssumption`), whatever is lost, duplicated,
reordered, aborted or timed out:

| Theorem | Statement |
|---|---|
| `NeverStalls` | a socket that waits for its peer has a timer running |
| `AcceptQueueHolds` | the accept queue holds each waiting connection once, within the backlog |

Both follow from `TcpInvariant`. `NoStall` is not inductive: the timer is stopped
when everything is acknowledged, so the proof has to know what "everything" is
under modular arithmetic. `Windowed` says that `snd_nxt` lies between `snd_una`
and `snd_max`; `Shaking` and `Attended` say what is under way in a handshake, and
that a socket whose timer is off has nothing unacknowledged and no FIN to send.
`AcceptQueueRight` needs `Family`, that the parent of a child listens for the same
owner, so that closing a listening socket or releasing an owner takes its children
along, and that a slot is cleared of its parent before it is used again. The
lemmas on sequence numbers (`SEQ_LT` and subtraction modulo `SeqMod`) come first;
then what `HandleAck`, `Output` and `ProcessSegment` do to one socket; then the
table, by operation.

### Only model-checked

- Liveness (`SleepersWake`, `BlockedGetsWoken`, `OrphansReaped`, `KillEnds`,
  `ShootdownsEnd`, `PanicStops`, `SystemStarts`), which is outside what the
  prover does.
- That `Tcp` implements `TcpStream`. It does not for arbitrary constants: a
  segment that is delayed until the sequence numbers have come round is taken for
  a new one, as in any TCP.
- That `SendData` is the loop of `tcp_output`, which takes a recursive operator.

## 6. Findings

`memory_mprotect`: `CHANGELOG.md:83` promises a real fork by copy-on-write. A
page that is read-only at fork is shared without a copy-on-write mark
(`vmm.c:207`). `vmm_page_prot_locked` (`vmm.c:673`) later makes a page without
the mark writable in place, although its frame is still shared. After
`mmap(PROT_READ)`, `fork` and `mprotect(PROT_READ|PROT_WRITE)` a store of one
process shows up in the other. The passing memory run therefore calls
`mprotect` with protections that do not allow writing.

`file_locks`: `docs/syscalls-reference.md:234` says that `SYS_EXIT` ends the
process. `process_terminate` closes files, which takes `vfs_mutex`, with
`process_mutex` held (`process.c:1315`, `1338`). An open of a file under `/proc`,
or a stat or listing, takes `vfs_mutex` (`vfs.c:450`) and then `process_mutex`
(`procfs.c:231`, `149`, `process.c:1830`). A read takes it only through a
writable handle, which opens the file again (`vfs.c:508-515`).
On processor 0 the two meet only if the exit sleeps between its mutexes, which it
does in `tcp_release_owner` when the network service was interrupted with
`tcp_lock`. Then each of the two processes waits for the mutex of the other.

`panic_together`: `todo.md:109` lists as done that all processors can be stopped
in a panic. `panic_header` tests and sets `panic_active` in two steps
(`panic.c:74-76`), so two processors can both go on to `smp_stop_others`. Each
sets the stop bits and sends one NMI after another (`smp.c:236-238`). If each is
stopped by the NMI of the other before it has reached the third processor, that
one runs on, and nobody is left to stop it or to report the panic. What does hold
is `PanicStops`: whoever panics is stopped, or stops all the others.

Observations without a property:

- `mprotect` to read-only leaves a copy-on-write mark in place, so that a later
  write fault makes the page writable again (`vmm.c:139`).
- `process_wait` does not look at signals, so SIGKILL does not end a process
  that is blocked there (`process.c:924`). `KillEnds` excepts it.
- A socket that connects a second time keeps the buffers, the retries and the FIN
  of its first connection (`tcp.c:1015`).
- A closed window resets the count of retries, so a peer that vanished with its
  window closed is probed for ever (`tcp.c:846`).
- A child that is reset or times out in the handshake keeps its slot until its
  listening socket is closed (`tcp.c:189`). It no longer counts for the backlog.
- Faults for copy-on-write and stack growth are handled before
  `scheduler_enter_kernel` (`idt.c:229-230`), on whatever processor they occur.
  `KernelOnBootCpu` is about what comes after that call.
- The congestion window grows without a limit (`tcp.c:505-509`). The model takes
  it to be at least one segment.

## 7. Plan

In this order:

1. Descriptors: `ofd.c` and `fdtable.c` whole, with dup, close-on-exec and file
   handles; reference counts exact.
2. Signals: masks, handlers, stop and continue, groups; terminals and their
   foreground group.
3. Mailboxes and the accounting of `mm/oom`.
4. The VFS: handles, mounts and permissions; tmpfs against an abstract map.
5. EEVDF: the choice of `pick_next` as an operator checked against a
   definition, and that no runnable thread starves.
6. UDP, and the caches of ARP and DNS.

## 8. Running

`tlc -config MCScheduler.cfg MCScheduler` checks one run; `PROJECT.json` names
the module and configuration of each. `tlapm SchedulerProofs.tla` checks the
proofs of one module; section 2 names the others. `PipeProofs` takes about six
minutes, `MemoryProofs` and `TcpProofs` about twelve each. `PROJECT.json` also
maps every definition to the lines it models, and lists for every property a
mutation of the model, in the way the code could be wrong, that TLC finds to
violate it.
