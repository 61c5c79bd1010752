----------------------------- MODULE FileLocks -----------------------------
(***************************************************************************)
(* The locks that file operations, process operations, the network service *)
(* and the installer take: process_mutex (kernel/process/process.c),       *)
(* vfs_mutex (fs/vfs.c) and tcp_lock (net/transport/tcp.c), recursive      *)
(* mutexes of kernel/sync/mutex.c, the lock of the file system calls, a    *)
(* test-and-set flag (filesystem_syscall_busy), and the gate that turns    *)
(* these calls away while the installer runs.                              *)
(*                                                                         *)
(* A thread is at a label, named for the call and for what comes next; it  *)
(* takes or gives back one lock in a step.  System calls run on processor  *)
(* 0 with interrupts off, so that one goes on until it returns or has to   *)
(* sleep for a lock; the kernel's own threads are interrupted anywhere.    *)
(* What the calls do under the locks is left out.                          *)
(***************************************************************************)
EXTENDS Integers

CONSTANTS
  Proc,     \* processes, of one thread each
  Worker,   \* threads for install_worker
  Service,  \* net_service_thread
  None

Thread == Proc \cup Worker \cup Service

Mutex == {"process", "vfs", "tcp"}

VARIABLES
  pc,
  running,         \* the process whose system call has processor 0
  owner, depth,    \* mutex_t, for each mutex
  busy,            \* filesystem_syscall_busy
  install_running, \* install_job.state = 1
  panicked         \* mutex_unlock has met "mutex: invalid owner"

lockVars == <<owner, depth, busy, panicked>>
vars == <<pc, running, lockVars, install_running>>

Init ==
  /\ pc = [t \in Thread |-> IF t \in Proc THEN "user" ELSE "idle"]
  /\ running = None
  /\ owner = [m \in Mutex |-> None]
  /\ depth = [m \in Mutex |-> 0]
  /\ busy = FALSE /\ install_running = FALSE /\ panicked = FALSE

(* A system call has the processor from its start to its end. *)
Runs(t, from, to) ==
  \/ t \notin Proc /\ UNCHANGED running
  \/ /\ t \in Proc
     /\ running = IF from = "user" THEN None ELSE t
     /\ running' = IF to \in {"user", "gone"} THEN None ELSE t

Move(t, from, to) ==
  /\ pc[t] = from /\ pc' = [pc EXCEPT ![t] = to]
  /\ Runs(t, from, to)

(* A step between two locks. *)
Go(t, from, to) == Move(t, from, to) /\ UNCHANGED <<lockVars, install_running>>

(* mutex_lock, when it succeeds. *)
Lock(t, m, from, to) ==
  /\ Move(t, from, to)
  /\ owner[m] \in {None, t}
  /\ owner' = [owner EXCEPT ![m] = t]
  /\ depth' = [depth EXCEPT ![m] = @ + 1]
  /\ UNCHANGED <<busy, install_running, panicked>>

(* mutex_unlock. *)
Unlock(t, m, from, to) ==
  /\ Move(t, from, to)
  /\ IF owner[m] # t \/ depth[m] = 0
     THEN panicked' = TRUE /\ UNCHANGED <<owner, depth>>
     ELSE /\ depth' = [depth EXCEPT ![m] = @ - 1]
          /\ owner' = IF depth[m] = 1 THEN [owner EXCEPT ![m] = None] ELSE owner
          /\ UNCHANGED panicked
  /\ UNCHANGED <<busy, install_running>>

(* filesystem_syscall_lock and filesystem_syscall_unlock. *)
SyscallLock(t, from, to) ==
  /\ Move(t, from, to) /\ ~busy /\ busy' = TRUE
  /\ UNCHANGED <<owner, depth, install_running, panicked>>

SyscallUnlock(t, from, to) ==
  /\ Move(t, from, to) /\ busy' = FALSE
  /\ UNCHANGED <<owner, depth, install_running, panicked>>

-----------------------------------------------------------------------------
(* process_terminate, under process_mutex: tcp_release_owner resets the    *)
(* connections of the process, and fd_close_all closes the files that no   *)
(* other process has open.                                                 *)

CallExit(p) == Go(p, "user", "exit: lock")
ExitLock(p) == Lock(p, "process", "exit: lock", "exit: sockets")
ExitSockets(p) == Lock(p, "tcp", "exit: sockets", "exit: reset")
ExitReset(p) == Unlock(p, "tcp", "exit: reset", "exit: close")
ExitClose(p) == Go(p, "exit: close", "exit: file")
ExitNoMore(p) == Go(p, "exit: close", "exit: unlock")
ExitFile(p) == Lock(p, "vfs", "exit: file", "exit: closed")
ExitClosed(p) == Unlock(p, "vfs", "exit: closed", "exit: close")
ExitUnlock(p) == Unlock(p, "process", "exit: unlock", "gone")

(* process_chdir, process_execve and process_spawn_module look files up    *)
(* and read them under process_mutex.  A path of /proc asks for the list   *)
(* of processes, and process_spawn_module calls process_spawn_elf; both    *)
(* take the mutex again.                                                   *)
CallPath(p) == Go(p, "user", "path: lock")
PathLock(p) == Lock(p, "process", "path: lock", "path: look")
PathLook(p) == Lock(p, "vfs", "path: look", "path: in")
PathList(p) == Lock(p, "process", "path: in", "path: listed")
PathListed(p) == Unlock(p, "process", "path: listed", "path: in")
PathFound(p) == Unlock(p, "vfs", "path: in", "path: look")
PathSpawn(p) == Lock(p, "process", "path: look", "path: spawned")
PathSpawned(p) == Unlock(p, "process", "path: spawned", "path: look")
PathUnlock(p) == Unlock(p, "process", "path: look", "user")

(* The file system calls (open, stat, list, ofd_read, ...), with           *)
(* filesystem_syscall_acquire: turned away while the installer runs.       *)
CallFile(p) == Go(p, "user", "file: gate")
FileGate(p) == Go(p, "file: gate", IF install_running THEN "user" ELSE "file: lock")
FileLock(p) == SyscallLock(p, "file: lock", "file: call")
FileCall(p) == Lock(p, "vfs", "file: call", "file: in")

(* Under vfs_mutex: vfs_read of a writable handle opens the file, which    *)
(* takes the mutex again; a path of /proc that names a process is looked   *)
(* up in the list of processes, and a file of /proc is filled at open.     *)
FileNested(p) == Lock(p, "vfs", "file: in", "file: nested")
FileUnnested(p) == Unlock(p, "vfs", "file: nested", "file: in")
FileProc(p) == Go(p, "file: in", "file: list")
FileList(p) == Lock(p, "process", "file: list", "file: listed")
FileListed(p) == Unlock(p, "process", "file: listed", "file: in")
FileOut(p) == Unlock(p, "vfs", "file: in", "file: unlock")
FileUnlock(p) == SyscallUnlock(p, "file: unlock", "user")

-----------------------------------------------------------------------------
(* The installer.                                                          *)

(* SYS_INSTALL_START looks at the state of the job and sets it, without    *)
(* sleeping in between; it may not get a thread.                           *)
CallInstall(p) == ~install_running /\ Go(p, "user", "install: start")
InstallStart(p) ==
  \E w \in Worker :
    /\ pc[p] = "install: start" /\ pc[w] = "idle"
    /\ pc' = [pc EXCEPT ![p] = "user", ![w] = "worker: lock"]
    /\ Runs(p, "install: start", "user")
    /\ install_running' = TRUE
    /\ UNCHANGED lockVars
InstallFails(p) ==
  Move(p, "install: start", "user") /\ install_running' = FALSE /\ UNCHANGED lockVars

(* install_worker, whose vfs calls are under the lock. *)
WorkerLock(w) == SyscallLock(w, "worker: lock", "worker: write")
WorkerCall(w) == Lock(w, "vfs", "worker: write", "worker: in")
WorkerReturn(w) == Unlock(w, "vfs", "worker: in", "worker: write")
WorkerUnlock(w) == SyscallUnlock(w, "worker: write", "worker: end")
WorkerEnd(w) ==
  Move(w, "worker: end", "idle") /\ install_running' = FALSE /\ UNCHANGED lockVars

(* net_service_thread, in tcp_poll and receive_segment. *)
ServiceLock(n) == Lock(n, "tcp", "idle", "service: in")
ServiceUnlock(n) == Unlock(n, "tcp", "service: in", "idle")

-----------------------------------------------------------------------------
(* Waiting.                                                                *)

(* The lock that comes next is somebody else's. *)
Wants(m) ==
  CASE m = "process" -> {"exit: lock", "path: lock", "path: in", "path: look", "file: list"}
    [] m = "vfs" -> {"exit: file", "path: look", "file: call", "file: in"}
    [] m = "tcp" -> {"exit: sockets"}
Waits(p) ==
  \/ \E m \in Mutex : pc[p] \in Wants(m) /\ owner[m] \notin {None, p}
  \/ pc[p] = "file: lock" /\ busy

(* The scheduler_sleep of mutex_lock and filesystem_syscall_lock, and its  *)
(* end, when the caller tries again.                                       *)
Sleep(p) ==
  /\ running = p /\ Waits(p) /\ running' = None
  /\ UNCHANGED <<pc, lockVars, install_running>>
Wake(p) ==
  /\ running = None /\ pc[p] \notin {"user", "gone"} /\ running' = p
  /\ UNCHANGED <<pc, lockVars, install_running>>

-----------------------------------------------------------------------------
Call(p) == CallExit(p) \/ CallPath(p) \/ CallFile(p) \/ CallInstall(p)

ProcStep(p) ==
  \/ ExitLock(p) \/ ExitSockets(p) \/ ExitReset(p) \/ ExitClose(p) \/ ExitFile(p) \/ ExitClosed(p) \/ ExitNoMore(p)
  \/ ExitUnlock(p)
  \/ PathLock(p) \/ PathLook(p) \/ PathList(p) \/ PathListed(p) \/ PathFound(p)
  \/ PathSpawn(p) \/ PathSpawned(p) \/ PathUnlock(p)
  \/ FileGate(p) \/ FileLock(p) \/ FileCall(p) \/ FileNested(p) \/ FileUnnested(p)
  \/ FileProc(p) \/ FileList(p) \/ FileListed(p) \/ FileOut(p) \/ FileUnlock(p)
  \/ InstallStart(p) \/ InstallFails(p)

WorkerStep(w) ==
  WorkerLock(w) \/ WorkerCall(w) \/ WorkerReturn(w) \/ WorkerUnlock(w) \/ WorkerEnd(w)

Next ==
  \/ \E p \in Proc : Call(p) \/ ProcStep(p) \/ Sleep(p) \/ Wake(p)
  \/ \E w \in Worker : WorkerStep(w)
  \/ \E n \in Service : ServiceLock(n) \/ ServiceUnlock(n)

Spec == Init /\ [][Next]_vars

(* A thread in a call goes on, and one that waits for a lock wakes up when *)
(* the lock is free if it is free again and again: it looks at every tick. *)
(* Every loop ends: fd_close_all closes finitely many files, a call makes  *)
(* finitely many calls of the file system.                                 *)
Fairness ==
  /\ \A p \in Proc :
       /\ SF_vars(ProcStep(p)) /\ SF_vars(Sleep(p)) /\ SF_vars(Wake(p) /\ ~Waits(p))
       /\ SF_vars(ExitNoMore(p)) /\ SF_vars(PathFound(p)) /\ SF_vars(PathUnlock(p))
       /\ SF_vars(FileOut(p))
  /\ \A w \in Worker : SF_vars(WorkerStep(w)) /\ SF_vars(WorkerUnlock(w))
  /\ \A n \in Service : SF_vars(ServiceUnlock(n))

FairSpec == Spec /\ Fairness

-----------------------------------------------------------------------------
(* Properties.                                                             *)

(* The labels at which a thread has a lock, and how deep. *)
HasMutex(m) ==
  IF m = "process"
  THEN {"exit: sockets", "exit: reset", "exit: close", "exit: file", "exit: closed", "exit: unlock",
        "path: look", "path: in", "path: listed", "path: spawned", "file: listed"}
  ELSE IF m = "vfs"
  THEN {"exit: closed", "path: in", "path: listed", "file: in", "file: nested", "file: list",
        "file: listed", "worker: in"}
  ELSE {"exit: reset", "service: in"}
HasTwice(m) ==
  IF m = "process" THEN {"path: listed", "path: spawned"}
  ELSE IF m = "vfs" THEN {"file: nested"} ELSE {}

HasSyscallLock ==
  {"file: call", "file: in", "file: nested", "file: list", "file: listed", "file: unlock",
   "worker: write", "worker: in"}

(* Only one thread is in the part of its call that a mutex protects, and   *)
(* mutex_unlock never panics: each lock is given back by the thread that   *)
(* has it and as often as it was taken.                                    *)
MutexesRight ==
  /\ ~panicked
  /\ \A m \in Mutex : \A t, u \in Thread :
       pc[t] \in HasMutex(m) /\ pc[u] \in HasMutex(m) => t = u

(* While install_worker writes, no file system call is under way, not even *)
(* one that passed the gate before the installer started and waited for    *)
(* the lock of the file system calls; nor is a second installer.           *)
InstallerAlone ==
  \A w \in Worker, t \in Thread :
    pc[w] \in {"worker: write", "worker: in"} /\ pc[t] \in HasSyscallLock => t = w

(* docs/syscalls-reference.md:234: SYS_EXIT ends the process. *)
ExitEnds == \A p \in Proc : pc[p] = "exit: lock" ~> pc[p] = "gone"

=============================================================================
