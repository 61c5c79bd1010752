-------------------------- MODULE FileLocksProofs --------------------------
(***************************************************************************)
(* The safety of the locks of FileLocks, for every number of processes,    *)
(* installers and services.  The invariant says how deep a thread is in a  *)
(* mutex at each label (Level) and that the mutex has just that depth.  A  *)
(* step of each kind preserves it when the labels it moves between are in  *)
(* step with what it does to the lock (the lemmas); that the labels of     *)
(* each call are is then a matter of the sets of labels.                   *)
(***************************************************************************)
EXTENDS FileLocks, TLAPS

LocksAssumption == None \notin Thread

Level(m, label) ==
  IF label \in HasTwice(m) THEN 2 ELSE IF label \in HasMutex(m) THEN 1 ELSE 0

LocksTypeOK ==
  /\ pc = [t \in Thread |-> pc[t]]
  /\ owner \in [Mutex -> Thread \cup {None}]
  /\ depth \in [Mutex -> Nat]

LocksInv ==
  /\ LocksTypeOK
  /\ ~panicked
  /\ \A m \in Mutex : owner[m] = None => depth[m] = 0
  /\ \A m \in Mutex : \A t \in Thread :
       owner[m] = t => depth[m] = Level(m, pc[t]) /\ depth[m] # 0
  /\ \A m \in Mutex : \A t \in Thread : Level(m, pc[t]) # 0 => owner[m] = t
  /\ \A t \in Thread : pc[t] \in HasSyscallLock => busy
  /\ \A t, u \in Thread :
       pc[t] \in HasSyscallLock /\ pc[u] \in HasSyscallLock => t = u

(* Two labels are alike for a mutex, or for the lock of the file system    *)
(* calls.                                                                  *)
Same(m, from, to) == Level(m, from) = Level(m, to)
SameSyscall(from, to) == from \in HasSyscallLock <=> to \in HasSyscallLock

(* Labels between which a step of one kind may go: one that takes no lock, *)
(* one that takes or gives back a mutex, one that takes or gives back the  *)
(* lock of the file system calls.                                          *)
Plain(from, to) == (\A m \in Mutex : Same(m, from, to)) /\ SameSyscall(from, to)
Deeper(m, from, to) ==
  /\ Level(m, to) = Level(m, from) + 1
  /\ \A n \in Mutex \ {m} : Same(n, from, to)
  /\ SameSyscall(from, to)
Higher(m, from, to) ==
  /\ Level(m, to) = Level(m, from) - 1
  /\ \A n \in Mutex \ {m} : Same(n, from, to)
  /\ SameSyscall(from, to)
Entry(from, to) == \A m \in Mutex : Same(m, from, to)
Exit(from, to) ==
  /\ \A m \in Mutex : Same(m, from, to)
  /\ from \in HasSyscallLock /\ to \notin HasSyscallLock

(* A level is a number. *)
LEMMA LevelType == \A m, label : Level(m, label) \in Nat
BY Zenon DEF Level

(* A step between labels that are alike keeps the invariant. *)
LEMMA MoveKeeps ==
  ASSUME LocksInv, NEW t \in Thread, NEW from, NEW to,
         Move(t, from, to), UNCHANGED lockVars,
         Plain(from, to)
  PROVE  LocksInv'
<1>1. pc[t] = from /\ pc' = [pc EXCEPT ![t] = to]
  BY Zenon DEF Move
<1>2. UNCHANGED <<owner, depth, busy, panicked>>
  BY Zenon DEF lockVars
<1>3. \A m \in Mutex : \A u \in Thread : Level(m, pc'[u]) = Level(m, pc[u])
  BY <1>1, Zenon DEF Plain, Same, LocksInv, LocksTypeOK
<1>4. \A u \in Thread : pc'[u] \in HasSyscallLock <=> pc[u] \in HasSyscallLock
  BY <1>1, Zenon DEF Plain, SameSyscall, LocksInv, LocksTypeOK
<1>5. LocksTypeOK'
  BY <1>1, <1>2, Zenon DEF LocksInv, LocksTypeOK
<1> QED
  BY <1>2, <1>3, <1>4, <1>5 DEF LocksInv

(* So for a step that takes no lock. *)
LEMMA GoKeeps ==
  ASSUME LocksInv, NEW t \in Thread, NEW from, NEW to,
         Go(t, from, to), Plain(from, to)
  PROVE  LocksInv'
<1>1. Move(t, from, to) /\ UNCHANGED lockVars
  BY Zenon DEF Go, lockVars
<1> QED
  BY <1>1, MoveKeeps, Zenon

(* mutex_lock keeps the invariant when the thread is one level deeper      *)
(* afterwards.                                                             *)
LEMMA LockKeeps ==
  ASSUME LocksAssumption, LocksInv, NEW t \in Thread, NEW m \in Mutex,
         NEW from, NEW to, Lock(t, m, from, to),
         Deeper(m, from, to)
  PROVE  LocksInv'
<1>1. pc[t] = from /\ pc' = [pc EXCEPT ![t] = to]
  BY Zenon DEF Lock, Move
<1>2. /\ owner[m] \in {None, t} /\ owner' = [owner EXCEPT ![m] = t]
      /\ depth' = [depth EXCEPT ![m] = @ + 1] /\ UNCHANGED <<busy, panicked>>
  BY Zenon DEF Lock
<1>3. \A n \in Mutex : \A u \in Thread :
        n # m \/ u # t => Level(n, pc'[u]) = Level(n, pc[u])
  BY <1>1, Zenon DEF Deeper, Same, LocksInv, LocksTypeOK
<1>4. Level(m, pc'[t]) = Level(m, pc[t]) + 1
  BY <1>1, Zenon DEF Deeper, LocksInv, LocksTypeOK
<1>5. \A u \in Thread : pc'[u] \in HasSyscallLock <=> pc[u] \in HasSyscallLock
  BY <1>1, Zenon DEF Deeper, SameSyscall, LocksInv, LocksTypeOK
<1>6. LocksTypeOK'
  <2>1. pc' = [u \in Thread |-> pc'[u]]
    BY <1>1, Zenon DEF LocksInv, LocksTypeOK
  <2>2. owner' \in [Mutex -> Thread \cup {None}]
    BY <1>2, Zenon DEF LocksInv, LocksTypeOK
  <2>3. depth' \in [Mutex -> Nat]
    BY <1>2 DEF LocksInv, LocksTypeOK
  <2> QED
    BY <2>1, <2>2, <2>3, Zenon DEF LocksTypeOK
<1>7. depth[m] = Level(m, pc[t]) /\ (\A u \in Thread : u # t => Level(m, pc[u]) = 0)
  BY <1>2, LevelType, Zenon DEF LocksInv, LocksTypeOK, LocksAssumption
<1>8. /\ owner'[m] = t /\ depth'[m] = Level(m, pc'[t]) /\ depth'[m] # 0
      /\ \A u \in Thread : u # t => Level(m, pc'[u]) = 0
  BY <1>2, <1>3, <1>4, <1>7, LevelType DEF LocksInv, LocksTypeOK
<1>9. \A n \in Mutex \ {m} : owner'[n] = owner[n] /\ depth'[n] = depth[n]
  BY <1>2, Zenon DEF LocksInv, LocksTypeOK
<1> QED
  BY <1>2, <1>3, <1>5, <1>6, <1>8, <1>9 DEF LocksInv, LocksAssumption

(* mutex_unlock keeps the invariant, and does not panic, when the thread   *)
(* is in the mutex and one level less deep afterwards.                     *)
LEMMA UnlockKeeps ==
  ASSUME LocksAssumption, LocksInv, NEW t \in Thread, NEW m \in Mutex,
         NEW from, NEW to, Unlock(t, m, from, to),
         Higher(m, from, to)
  PROVE  LocksInv'
<1>1. pc[t] = from /\ pc' = [pc EXCEPT ![t] = to]
  BY Zenon DEF Unlock, Move
<1>2. owner[m] = t /\ depth[m] = Level(m, from) /\ depth[m] # 0
  <2>1. Level(m, to) \in Nat /\ Level(m, from) \in Nat
    BY LevelType, Zenon
  <2>2. \A i, j \in Nat : j = i - 1 => i # 0
    OBVIOUS
  <2>3. Level(m, from) # 0
    BY <2>1, <2>2, Zenon DEF Higher
  <2> QED
    BY <1>1, <2>3, Zenon DEF LocksInv
<1>3. /\ depth' = [depth EXCEPT ![m] = @ - 1]
      /\ owner' = IF depth[m] = 1 THEN [owner EXCEPT ![m] = None] ELSE owner
      /\ UNCHANGED <<busy, panicked>>
  BY <1>2, Zenon DEF Unlock
<1>4. \A n \in Mutex : \A u \in Thread :
        n # m \/ u # t => Level(n, pc'[u]) = Level(n, pc[u])
  BY <1>1, Zenon DEF Higher, Same, LocksInv, LocksTypeOK
<1>5. Level(m, pc'[t]) = Level(m, to)
  BY <1>1, Zenon DEF LocksInv, LocksTypeOK
<1>6. \A u \in Thread : pc'[u] \in HasSyscallLock <=> pc[u] \in HasSyscallLock
  BY <1>1, Zenon DEF Higher, SameSyscall, LocksInv, LocksTypeOK
<1>7. LocksTypeOK'
  <2>1. pc' = [u \in Thread |-> pc'[u]]
    BY <1>1, Zenon DEF LocksInv, LocksTypeOK
  <2>2. owner' \in [Mutex -> Thread \cup {None}]
    BY <1>3, Zenon DEF LocksInv, LocksTypeOK
  <2>3. depth[m] - 1 \in Nat
    BY <1>2, LevelType, Zenon DEF Higher
  <2>4. depth' \in [Mutex -> Nat]
    BY <1>3, <2>3, Zenon DEF LocksInv, LocksTypeOK
  <2> QED
    BY <2>1, <2>2, <2>4, Zenon DEF LocksTypeOK
<1>8. depth'[m] = Level(m, to) /\ owner'[m] = IF Level(m, to) = 0 THEN None ELSE t
  <2>1. depth[m] \in Nat /\ Level(m, to) = depth[m] - 1
    BY <1>2, Zenon DEF Higher, LocksInv, LocksTypeOK
  <2>2. depth'[m] = Level(m, to)
    BY <1>3, <2>1, Zenon DEF LocksInv, LocksTypeOK
  <2>3. owner'[m] = IF Level(m, to) = 0 THEN None ELSE t
    BY <1>2, <1>3, <2>1 DEF LocksInv, LocksTypeOK
  <2> QED
    BY <2>2, <2>3, Zenon
<1>9. \A u \in Thread : u # t => Level(m, pc'[u]) = 0
  BY <1>2, <1>4, LevelType DEF LocksInv
<1>10. \A n \in Mutex \ {m} : owner'[n] = owner[n] /\ depth'[n] = depth[n]
  BY <1>3, Zenon DEF LocksInv, LocksTypeOK
<1>11. \A n \in Mutex : owner'[n] = None => depth'[n] = 0
  BY <1>8, <1>10 DEF LocksInv, LocksAssumption
<1>12. \A n \in Mutex : \A u \in Thread :
         owner'[n] = u => depth'[n] = Level(n, pc'[u]) /\ depth'[n] # 0
  <2> SUFFICES ASSUME NEW n \in Mutex, NEW u \in Thread, owner'[n] = u
               PROVE  depth'[n] = Level(n, pc'[u]) /\ depth'[n] # 0
    BY Zenon
  <2>1. CASE n = m
    <3>1. u = t /\ Level(m, to) # 0
      BY <1>8, <2>1, Zenon DEF LocksAssumption
    <3> QED
      BY <1>5, <1>8, <2>1, <3>1, Zenon
  <2>2. CASE n # m
    BY <1>4, <1>10, <2>2 DEF LocksInv
  <2> QED
    BY <2>1, <2>2, Zenon
<1>13. \A n \in Mutex : \A u \in Thread : Level(n, pc'[u]) # 0 => owner'[n] = u
  BY <1>4, <1>5, <1>8, <1>9, <1>10 DEF LocksInv
<1> QED
  BY <1>3, <1>6, <1>7, <1>11, <1>12, <1>13, Zenon DEF LocksInv

(* filesystem_syscall_lock lets one thread in. *)
LEMMA SyscallLockKeeps ==
  ASSUME LocksInv, NEW t \in Thread, NEW from, NEW to,
         SyscallLock(t, from, to), Entry(from, to)
  PROVE  LocksInv'
<1>1. pc[t] = from /\ pc' = [pc EXCEPT ![t] = to]
  BY Zenon DEF SyscallLock, Move
<1>2. ~busy /\ busy' /\ UNCHANGED <<owner, depth, panicked>>
  BY Zenon DEF SyscallLock
<1>3. \A m \in Mutex : \A u \in Thread : Level(m, pc'[u]) = Level(m, pc[u])
  BY <1>1, Zenon DEF Entry, Same, LocksInv, LocksTypeOK
<1>4. \A u \in Thread : u # t => pc'[u] \notin HasSyscallLock
  BY <1>1, <1>2, Zenon DEF LocksInv, LocksTypeOK
<1>5. LocksTypeOK'
  BY <1>1, <1>2, Zenon DEF LocksInv, LocksTypeOK
<1> QED
  BY <1>2, <1>3, <1>4, <1>5 DEF LocksInv

(* filesystem_syscall_unlock lets it out. *)
LEMMA SyscallUnlockKeeps ==
  ASSUME LocksInv, NEW t \in Thread, NEW from, NEW to,
         SyscallUnlock(t, from, to), Exit(from, to)
  PROVE  LocksInv'
<1>1. pc[t] = from /\ pc' = [pc EXCEPT ![t] = to]
  BY Zenon DEF SyscallUnlock, Move
<1>2. UNCHANGED <<owner, depth, panicked>>
  BY Zenon DEF SyscallUnlock
<1>3. \A m \in Mutex : \A u \in Thread : Level(m, pc'[u]) = Level(m, pc[u])
  BY <1>1, Zenon DEF Exit, Same, LocksInv, LocksTypeOK
<1>4. \A u \in Thread : pc'[u] \notin HasSyscallLock
  BY <1>1, Zenon DEF Exit, LocksInv, LocksTypeOK
<1>5. LocksTypeOK'
  BY <1>1, <1>2, Zenon DEF LocksInv, LocksTypeOK
<1> QED
  BY <1>2, <1>3, <1>4, <1>5 DEF LocksInv

-----------------------------------------------------------------------------
(* The labels of the calls.                                                *)

(* The steps of the calls that take no lock. *)
LEMMA PlainLabels ==
  /\ Plain("user", "exit: lock")
  /\ Plain("exit: close", "exit: file")
  /\ Plain("exit: close", "exit: unlock")
  /\ Plain("user", "path: lock")
  /\ Plain("user", "file: gate")
  /\ Plain("file: in", "file: list")
  /\ Plain("user", "install: start")
  /\ Plain("file: gate", "user")
  /\ Plain("file: gate", "file: lock")
  /\ Plain("install: start", "user")
  /\ Plain("idle", "worker: lock")
  /\ Plain("worker: end", "idle")
BY DEF Plain, Same, SameSyscall, HasSyscallLock,
       Level, HasMutex, HasTwice, Mutex

(* The steps that take a mutex. *)
LEMMA DeeperLabels ==
  /\ Deeper("process", "exit: lock", "exit: sockets")
  /\ Deeper("tcp", "exit: sockets", "exit: reset")
  /\ Deeper("vfs", "exit: file", "exit: closed")
  /\ Deeper("process", "path: lock", "path: look")
  /\ Deeper("vfs", "path: look", "path: in")
  /\ Deeper("process", "path: in", "path: listed")
  /\ Deeper("process", "path: look", "path: spawned")
  /\ Deeper("vfs", "file: call", "file: in")
  /\ Deeper("vfs", "file: in", "file: nested")
  /\ Deeper("process", "file: list", "file: listed")
  /\ Deeper("vfs", "worker: write", "worker: in")
  /\ Deeper("tcp", "idle", "service: in")
<1>1. /\ Deeper("process", "exit: lock", "exit: sockets")
      /\ Deeper("tcp", "exit: sockets", "exit: reset")
      /\ Deeper("vfs", "exit: file", "exit: closed")
      /\ Deeper("process", "path: lock", "path: look")
  BY DEF Deeper, Same, SameSyscall, HasSyscallLock,
         Level, HasMutex, HasTwice, Mutex
<1>2. /\ Deeper("vfs", "path: look", "path: in")
      /\ Deeper("process", "path: in", "path: listed")
      /\ Deeper("process", "path: look", "path: spawned")
      /\ Deeper("vfs", "file: call", "file: in")
  BY DEF Deeper, Same, SameSyscall, HasSyscallLock,
         Level, HasMutex, HasTwice, Mutex
<1>3. /\ Deeper("vfs", "file: in", "file: nested")
      /\ Deeper("process", "file: list", "file: listed")
      /\ Deeper("vfs", "worker: write", "worker: in")
      /\ Deeper("tcp", "idle", "service: in")
  BY DEF Deeper, Same, SameSyscall, HasSyscallLock,
         Level, HasMutex, HasTwice, Mutex
<1> QED
  BY <1>1, <1>2, <1>3, Zenon

(* The steps that give a mutex back. *)
LEMMA HigherLabels ==
  /\ Higher("tcp", "exit: reset", "exit: close")
  /\ Higher("vfs", "exit: closed", "exit: close")
  /\ Higher("process", "exit: unlock", "gone")
  /\ Higher("process", "path: listed", "path: in")
  /\ Higher("vfs", "path: in", "path: look")
  /\ Higher("process", "path: spawned", "path: look")
  /\ Higher("process", "path: look", "user")
  /\ Higher("vfs", "file: nested", "file: in")
  /\ Higher("process", "file: listed", "file: in")
  /\ Higher("vfs", "file: in", "file: unlock")
  /\ Higher("vfs", "worker: in", "worker: write")
  /\ Higher("tcp", "service: in", "idle")
<1>1. /\ Higher("tcp", "exit: reset", "exit: close")
      /\ Higher("vfs", "exit: closed", "exit: close")
      /\ Higher("process", "exit: unlock", "gone")
      /\ Higher("process", "path: listed", "path: in")
  BY DEF Higher, Same, SameSyscall, HasSyscallLock,
         Level, HasMutex, HasTwice, Mutex
<1>2. /\ Higher("vfs", "path: in", "path: look")
      /\ Higher("process", "path: spawned", "path: look")
      /\ Higher("process", "path: look", "user")
      /\ Higher("vfs", "file: nested", "file: in")
  BY DEF Higher, Same, SameSyscall, HasSyscallLock,
         Level, HasMutex, HasTwice, Mutex
<1>3. /\ Higher("process", "file: listed", "file: in")
      /\ Higher("vfs", "file: in", "file: unlock")
      /\ Higher("vfs", "worker: in", "worker: write")
      /\ Higher("tcp", "service: in", "idle")
  BY DEF Higher, Same, SameSyscall, HasSyscallLock,
         Level, HasMutex, HasTwice, Mutex
<1> QED
  BY <1>1, <1>2, <1>3, Zenon

(* The steps that take the lock of the file system calls or give it back. *)
LEMMA SyscallLabels ==
  /\ Entry("file: lock", "file: call")
  /\ Entry("worker: lock", "worker: write")
  /\ Exit("file: unlock", "user")
  /\ Exit("worker: write", "worker: end")
BY Zenon DEF Entry, Exit, Same, HasSyscallLock, Level, HasMutex, HasTwice, Mutex

-----------------------------------------------------------------------------
(* The invariant.                                                          *)

(* At first no thread has a lock. *)
LEMMA LocksInitially == LocksAssumption /\ Init => LocksInv
<1> SUFFICES ASSUME LocksAssumption, Init PROVE LocksInv
  BY Zenon
<1>1. \A t \in Thread : pc[t] \in {"user", "idle"}
  BY Zenon DEF Init
<1>2. \A m \in Mutex : Level(m, "user") = 0 /\ Level(m, "idle") = 0
  BY Zenon DEF Level, HasMutex, HasTwice, Mutex
<1>3. "user" \notin HasSyscallLock /\ "idle" \notin HasSyscallLock
  BY Zenon DEF HasSyscallLock
<1>4. LocksTypeOK
  BY Zenon DEF Init, LocksTypeOK
<1>5. /\ ~panicked /\ \A m \in Mutex : owner[m] = None /\ depth[m] = 0
  BY Zenon DEF Init
<1>6. \A m \in Mutex : \A t \in Thread : Level(m, pc[t]) = 0
  BY <1>1, <1>2, Zenon
<1>7. \A t \in Thread : pc[t] \notin HasSyscallLock
  BY <1>1, <1>3, Zenon
<1> QED
  BY <1>4, <1>5, <1>6, <1>7, Zenon DEF LocksInv, LocksAssumption

(* The steps of process_terminate keep the invariant. *)
LEMMA ExitKeeps ==
  ASSUME LocksAssumption, LocksInv, NEW p \in Proc,
         \/ CallExit(p) \/ ExitLock(p) \/ ExitSockets(p) \/ ExitReset(p)
         \/ ExitClose(p) \/ ExitNoMore(p) \/ ExitFile(p) \/ ExitClosed(p)
         \/ ExitUnlock(p)
  PROVE  LocksInv'
<1>0. p \in Thread /\ "process" \in Mutex /\ "vfs" \in Mutex /\ "tcp" \in Mutex
  BY Zenon DEF Thread, Mutex
<1>1. CASE CallExit(p)
  BY <1>0, <1>1, GoKeeps, PlainLabels, ZenonT(30) DEF CallExit
<1>2. CASE ExitLock(p)
  BY <1>0, <1>2, LockKeeps, DeeperLabels, ZenonT(30) DEF ExitLock
<1>3. CASE ExitSockets(p)
  BY <1>0, <1>3, LockKeeps, DeeperLabels, ZenonT(30) DEF ExitSockets
<1>4. CASE ExitReset(p)
  BY <1>0, <1>4, UnlockKeeps, HigherLabels, ZenonT(30) DEF ExitReset
<1>5. CASE ExitClose(p)
  BY <1>0, <1>5, GoKeeps, PlainLabels, ZenonT(30) DEF ExitClose
<1>6. CASE ExitNoMore(p)
  BY <1>0, <1>6, GoKeeps, PlainLabels, ZenonT(30) DEF ExitNoMore
<1>7. CASE ExitFile(p)
  BY <1>0, <1>7, LockKeeps, DeeperLabels, ZenonT(30) DEF ExitFile
<1>8. CASE ExitClosed(p)
  BY <1>0, <1>8, UnlockKeeps, HigherLabels, ZenonT(30) DEF ExitClosed
<1>9. CASE ExitUnlock(p)
  BY <1>0, <1>9, UnlockKeeps, HigherLabels, ZenonT(30) DEF ExitUnlock
<1> QED
  BY <1>1, <1>2, <1>3, <1>4, <1>5, <1>6, <1>7, <1>8, <1>9, Zenon

(* So do the steps of the calls that look a file up. *)
LEMMA PathKeeps ==
  ASSUME LocksAssumption, LocksInv, NEW p \in Proc,
         \/ CallPath(p) \/ PathLock(p) \/ PathLook(p) \/ PathList(p)
         \/ PathListed(p) \/ PathFound(p) \/ PathSpawn(p) \/ PathSpawned(p)
         \/ PathUnlock(p)
  PROVE  LocksInv'
<1>0. p \in Thread /\ "process" \in Mutex /\ "vfs" \in Mutex /\ "tcp" \in Mutex
  BY Zenon DEF Thread, Mutex
<1>1. CASE CallPath(p)
  BY <1>0, <1>1, GoKeeps, PlainLabels, ZenonT(30) DEF CallPath
<1>2. CASE PathLock(p)
  BY <1>0, <1>2, LockKeeps, DeeperLabels, ZenonT(30) DEF PathLock
<1>3. CASE PathLook(p)
  BY <1>0, <1>3, LockKeeps, DeeperLabels, ZenonT(30) DEF PathLook
<1>4. CASE PathList(p)
  BY <1>0, <1>4, LockKeeps, DeeperLabels, ZenonT(30) DEF PathList
<1>5. CASE PathListed(p)
  BY <1>0, <1>5, UnlockKeeps, HigherLabels, ZenonT(30) DEF PathListed
<1>6. CASE PathFound(p)
  BY <1>0, <1>6, UnlockKeeps, HigherLabels, ZenonT(30) DEF PathFound
<1>7. CASE PathSpawn(p)
  BY <1>0, <1>7, LockKeeps, DeeperLabels, ZenonT(30) DEF PathSpawn
<1>8. CASE PathSpawned(p)
  BY <1>0, <1>8, UnlockKeeps, HigherLabels, ZenonT(30) DEF PathSpawned
<1>9. CASE PathUnlock(p)
  BY <1>0, <1>9, UnlockKeeps, HigherLabels, ZenonT(30) DEF PathUnlock
<1> QED
  BY <1>1, <1>2, <1>3, <1>4, <1>5, <1>6, <1>7, <1>8, <1>9, Zenon

(* So do the steps of a file system call. *)
LEMMA FileKeeps ==
  ASSUME LocksAssumption, LocksInv, NEW p \in Proc,
         \/ CallFile(p) \/ FileGate(p) \/ FileLock(p) \/ FileCall(p)
         \/ FileNested(p) \/ FileUnnested(p) \/ FileProc(p) \/ FileList(p)
         \/ FileListed(p) \/ FileOut(p) \/ FileUnlock(p)
  PROVE  LocksInv'
<1>0. p \in Thread /\ "process" \in Mutex /\ "vfs" \in Mutex /\ "tcp" \in Mutex
  BY Zenon DEF Thread, Mutex
<1>1. CASE CallFile(p)
  BY <1>0, <1>1, GoKeeps, PlainLabels, ZenonT(30) DEF CallFile
<1>2. CASE FileGate(p)
  <2>1. Go(p, "file: gate", "user") \/ Go(p, "file: gate", "file: lock")
    BY <1>2, Zenon DEF FileGate
  <2> QED
    BY <1>0, <2>1, GoKeeps, PlainLabels, ZenonT(30)
<1>3. CASE FileLock(p)
  BY <1>0, <1>3, SyscallLockKeeps, SyscallLabels, ZenonT(30) DEF FileLock
<1>4. CASE FileCall(p)
  BY <1>0, <1>4, LockKeeps, DeeperLabels, ZenonT(30) DEF FileCall
<1>5. CASE FileNested(p)
  BY <1>0, <1>5, LockKeeps, DeeperLabels, ZenonT(30) DEF FileNested
<1>6. CASE FileUnnested(p)
  BY <1>0, <1>6, UnlockKeeps, HigherLabels, ZenonT(30) DEF FileUnnested
<1>7. CASE FileProc(p)
  BY <1>0, <1>7, GoKeeps, PlainLabels, ZenonT(30) DEF FileProc
<1>8. CASE FileList(p)
  BY <1>0, <1>8, LockKeeps, DeeperLabels, ZenonT(30) DEF FileList
<1>9. CASE FileListed(p)
  BY <1>0, <1>9, UnlockKeeps, HigherLabels, ZenonT(30) DEF FileListed
<1>10. CASE FileOut(p)
  BY <1>0, <1>10, UnlockKeeps, HigherLabels, ZenonT(30) DEF FileOut
<1>11. CASE FileUnlock(p)
  BY <1>0, <1>11, SyscallUnlockKeeps, SyscallLabels, ZenonT(30) DEF FileUnlock
<1> QED
  BY <1>1, <1>2, <1>3, <1>4, <1>5, <1>6, <1>7, <1>8, <1>9, <1>10, <1>11, Zenon

(* So do the steps of install_worker. *)
LEMMA WorkerKeeps ==
  ASSUME LocksAssumption, LocksInv, NEW w \in Worker,
         \/ WorkerLock(w) \/ WorkerCall(w) \/ WorkerReturn(w) \/ WorkerUnlock(w)
         \/ WorkerEnd(w)
  PROVE  LocksInv'
<1>0. w \in Thread /\ "process" \in Mutex /\ "vfs" \in Mutex /\ "tcp" \in Mutex
  BY Zenon DEF Thread, Mutex
<1>1. CASE WorkerLock(w)
  BY <1>0, <1>1, SyscallLockKeeps, SyscallLabels, ZenonT(30) DEF WorkerLock
<1>2. CASE WorkerCall(w)
  BY <1>0, <1>2, LockKeeps, DeeperLabels, ZenonT(30) DEF WorkerCall
<1>3. CASE WorkerReturn(w)
  BY <1>0, <1>3, UnlockKeeps, HigherLabels, ZenonT(30) DEF WorkerReturn
<1>4. CASE WorkerUnlock(w)
  BY <1>0, <1>4, SyscallUnlockKeeps, SyscallLabels, ZenonT(30) DEF WorkerUnlock
<1>5. CASE WorkerEnd(w)
  <2>1. Move(w, "worker: end", "idle") /\ UNCHANGED lockVars
    BY <1>5, Zenon DEF WorkerEnd
  <2> QED
    BY <1>0, <2>1, MoveKeeps, PlainLabels, ZenonT(30)
<1> QED
  BY <1>1, <1>2, <1>3, <1>4, <1>5, Zenon

(* So do the steps of net_service_thread. *)
LEMMA ServiceKeeps ==
  ASSUME LocksAssumption, LocksInv, NEW n \in Service,
         \/ ServiceLock(n) \/ ServiceUnlock(n)
  PROVE  LocksInv'
<1>0. n \in Thread /\ "process" \in Mutex /\ "vfs" \in Mutex /\ "tcp" \in Mutex
  BY Zenon DEF Thread, Mutex
<1>1. CASE ServiceLock(n)
  BY <1>0, <1>1, LockKeeps, DeeperLabels, ZenonT(30) DEF ServiceLock
<1>2. CASE ServiceUnlock(n)
  BY <1>0, <1>2, UnlockKeeps, HigherLabels, ZenonT(30) DEF ServiceUnlock
<1> QED
  BY <1>1, <1>2, Zenon

(* So do those of SYS_INSTALL_START, which moves two threads. *)
LEMMA InstallKeeps ==
  ASSUME LocksAssumption, LocksInv, NEW p \in Proc,
         CallInstall(p) \/ InstallStart(p) \/ InstallFails(p)
  PROVE  LocksInv'
<1>0. p \in Thread
  BY Zenon DEF Thread
<1>1. CASE CallInstall(p)
  BY <1>0, <1>1, GoKeeps, PlainLabels, ZenonT(30) DEF CallInstall
<1>2. CASE InstallStart(p)
  <2>1. PICK w \in Worker :
          /\ pc[p] = "install: start" /\ pc[w] = "idle"
          /\ pc' = [pc EXCEPT ![p] = "user", ![w] = "worker: lock"]
          /\ UNCHANGED <<owner, depth, busy, panicked>>
    BY <1>2, Zenon DEF InstallStart, lockVars
  <2>2. w \in Thread
    BY Zenon DEF Thread
  <2>3. /\ \A m \in Mutex : Level(m, "user") = Level(m, "install: start")
        /\ \A m \in Mutex : Level(m, "worker: lock") = Level(m, "idle")
    BY PlainLabels, Zenon DEF Plain, Same
  <2>4. \A m \in Mutex : \A u \in Thread : Level(m, pc'[u]) = Level(m, pc[u])
    BY <1>0, <2>1, <2>2, <2>3, Zenon DEF LocksInv, LocksTypeOK
  <2>5. \A u \in Thread : pc'[u] \in HasSyscallLock <=> pc[u] \in HasSyscallLock
    BY <1>0, <2>1, <2>2, PlainLabels, ZenonT(60) DEF Plain, SameSyscall, LocksInv, LocksTypeOK
  <2>6. LocksTypeOK'
    BY <2>1, ZenonT(60) DEF LocksInv, LocksTypeOK
  <2>7. UNCHANGED <<owner, depth, busy, panicked>>
    BY <2>1, Zenon
  <2> QED
    BY <2>4, <2>5, <2>6, <2>7 DEF LocksInv
<1>3. CASE InstallFails(p)
  <2>1. Move(p, "install: start", "user") /\ UNCHANGED lockVars
    BY <1>3, Zenon DEF InstallFails
  <2> QED
    BY <1>0, <2>1, MoveKeeps, PlainLabels, ZenonT(30)
<1> QED
  BY <1>1, <1>2, <1>3, Zenon

(* The invariant holds of every state: a thread is as deep in a mutex as   *)
(* its place in its call says, and the mutex knows it.                     *)
THEOREM LocksInvariant == ASSUME LocksAssumption PROVE Spec => []LocksInv
<1>1. Init => LocksInv
  BY LocksInitially, Zenon
<1>2. LocksInv /\ [Next]_vars => LocksInv'
  <2> SUFFICES ASSUME LocksInv, [Next]_vars PROVE LocksInv'
    BY Zenon
  <2>1. CASE UNCHANGED <<pc, lockVars>>
    <3>1. pc' = pc /\ UNCHANGED <<owner, depth, busy, panicked>>
      BY <2>1, Zenon DEF lockVars
    <3>2. LocksTypeOK'
      BY <3>1, Zenon DEF LocksInv, LocksTypeOK
    <3> QED
      BY <3>1, <3>2, Zenon DEF LocksInv
  <2>2. ASSUME NEW p \in Proc, Call(p) PROVE LocksInv'
    BY <2>2, ExitKeeps, PathKeeps, FileKeeps, InstallKeeps, ZenonT(30) DEF Call
  <2>3. ASSUME NEW p \in Proc, ProcStep(p) PROVE LocksInv'
    BY <2>3, ExitKeeps, PathKeeps, FileKeeps, InstallKeeps, ZenonT(30) DEF ProcStep
  <2>4. ASSUME NEW w \in Worker, WorkerStep(w) PROVE LocksInv'
    BY <2>4, WorkerKeeps, ZenonT(30) DEF WorkerStep
  <2>5. ASSUME NEW n \in Service, ServiceLock(n) \/ ServiceUnlock(n) PROVE LocksInv'
    BY <2>5, ServiceKeeps, ZenonT(30)
  <2>6. ASSUME NEW p \in Proc, Sleep(p) \/ Wake(p) PROVE LocksInv'
    BY <2>1, <2>6, Zenon DEF Sleep, Wake
  <2>7. UNCHANGED vars => UNCHANGED <<pc, lockVars>>
    BY Zenon DEF vars
  <2> QED
    BY <2>1, <2>2, <2>3, <2>4, <2>5, <2>6, <2>7, Zenon DEF Next
<1> QED
  BY <1>1, <1>2, PTL DEF Spec

(* Two threads are never in the part of a call that one mutex protects,    *)
(* and mutex_unlock never panics, for every number of processes and        *)
(* installers.                                                             *)
THEOREM MutexesAreRight == ASSUME LocksAssumption PROVE Spec => []MutexesRight
<1>1. LocksInv => MutexesRight
  <2> SUFFICES ASSUME LocksInv, NEW m \in Mutex, NEW t \in Thread, NEW u \in Thread,
                      pc[t] \in HasMutex(m), pc[u] \in HasMutex(m)
               PROVE  t = u
    BY Zenon DEF MutexesRight, LocksInv
  <2>1. Level(m, pc[t]) # 0 /\ Level(m, pc[u]) # 0
    BY DEF Level
  <2> QED
    BY <2>1 DEF LocksInv
<1> QED
  BY <1>1, LocksInvariant, PTL

(* The installer writes alone: filesystem_syscall_lock keeps out the calls *)
(* that passed the gate before it started, and a second installer.         *)
THEOREM InstallerIsAlone == ASSUME LocksAssumption PROVE Spec => []InstallerAlone
<1>1. LocksInv => InstallerAlone
  <2> SUFFICES ASSUME LocksInv, NEW w \in Worker, NEW t \in Thread,
                      pc[w] \in {"worker: write", "worker: in"}, pc[t] \in HasSyscallLock
               PROVE  t = w
    BY Zenon DEF InstallerAlone
  <2>1. w \in Thread /\ pc[w] \in HasSyscallLock
    BY Zenon DEF Thread, HasSyscallLock
  <2> QED
    BY <2>1, Zenon DEF LocksInv
<1> QED
  BY <1>1, LocksInvariant, PTL

=============================================================================
