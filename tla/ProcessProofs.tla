---------------------------- MODULE ProcessProofs ----------------------------
(***************************************************************************)
(* The safety of the table of processes, for every number of processes and *)
(* every choice of the signals that are sent: no process is orphaned for   *)
(* good, none is freed on its processor, only a living parent is           *)
(* registered as waiter, and no wake-up is lost.                           *)
(*                                                                         *)
(* The first three need that a process is a zombie from the moment its     *)
(* thread is past process_terminate's critical section, that an unborn one *)
(* has no thread that could call, and that PID 1 does not exit (ProcInv).  *)
(*                                                                         *)
(* NoLostWakeup speaks of threads that are blocked.  What makes it         *)
(* inductive is that the same holds from the moment the caller has left    *)
(* the critical section and has no wake-up remembered (WakeInv): between   *)
(* the two, the child may exit and its wake-up may arrive.                 *)
(***************************************************************************)
EXTENDS Process, TLAPS

Ended == {"notify", "leave", "left"}

Lives ==
  /\ \A p \in Proc : at[p] \in Ended <=> state[p] \in {"exited", "free"}
  /\ \A p \in Proc : state[p] = "unborn" => at[p] = "user" /\ phase[p] = "dead"
  /\ \A p \in Proc : op[p] = "wait" => target[p] \in Proc
  /\ state[Init1] = "running" /\ parent[Init1] = NoProc
  /\ op[Init1] # "exit" /\ "KILL" \notin pending[Init1]

TableInv == ParentCanWait /\ FreedIsStopped /\ WaiterIsParent

ProcInv == TypeOK /\ Lives /\ TableInv

(* At first PID 1 has no children but those the kernel starts. *)
LEMMA ProcInitially == Init => ProcInv
<1> SUFFICES ASSUME Init PROVE ProcInv
  BY Zenon
<1> USE ProcessAssumption DEF Init
<1>1. TypeOK
  BY DEF TypeOK, SW!SWTypeOK
<1>2. Lives
  BY Zenon DEF Lives, Ended
<1>3. TableInv
  BY Zenon DEF TableInv, ParentCanWait, FreedIsStopped, WaiterIsParent, Alive
<1> QED
  BY <1>1, <1>2, <1>3, Zenon DEF ProcInv

(* What a step keeps that does not touch the table. *)
LEMMA TableKept ==
  ASSUME TableInv, UNCHANGED <<state, parent, waiter, stopped>>
  PROVE  TableInv'
BY Zenon DEF TableInv, ParentCanWait, FreedIsStopped, WaiterIsParent, Alive

(* The blocking primitives wake no thread that is dead. *)
LEMMA PhaseKept ==
  ASSUME SW!SWTypeOK, NEW p \in Proc, NEW t \in Proc \cup {NoProc},
         \/ SW!Block(p, {}) \/ SW!Sleep(p, {}) \/ SW!Die(p, {}) \/ SW!Expire({p})
         \/ UnblockThread(t) \/ UNCHANGED <<phase, token>>
  PROVE  /\ SW!SWTypeOK'
         /\ \A q \in Proc : phase[q] = "dead" => phase'[q] = "dead"
<1> USE DEF SW!SWTypeOK, SW!Expired
<1>1. CASE SW!Block(p, {})
  BY <1>1, Zenon DEF SW!Block
<1>2. CASE SW!Sleep(p, {})
  BY <1>2, Zenon DEF SW!Sleep
<1>3. CASE SW!Die(p, {})
  BY <1>3, Zenon DEF SW!Die
<1>4. CASE SW!Expire({p})
  BY <1>4, Zenon DEF SW!Expire
<1>5. CASE UnblockThread(t)
  BY <1>5, Zenon DEF UnblockThread, SW!Unblock, SW!Asleep
<1>6. CASE UNCHANGED <<phase, token>>
  BY <1>6, Zenon
<1> QED
  BY <1>1, <1>2, <1>3, <1>4, <1>5, <1>6, Zenon

-----------------------------------------------------------------------------
(* Starting calls.                                                         *)

(* A process that calls is alive. *)
LEMMA CallerLives ==
  ASSUME ProcInv, NEW p \in Proc, at[p] \notin Ended, at[p] # "user" \/ Awake(p)
  PROVE  Alive(p)
BY DEF ProcInv, TypeOK, Lives, Alive, Awake

(* fork keeps the invariant. *)
LEMMA ForkKeeps ==
  ASSUME ProcInv, NEW p \in Proc, NEW c \in Proc, Fork(p, c)
  PROVE  ProcInv'
<1> USE ProcessAssumption
<1>0. Alive(p) /\ p # c
  <2>1. Alive(p)
    BY CallerLives, Zenon DEF Fork, InUser, Ended
  <2> QED
    BY <2>1, Zenon DEF Fork, Alive
<1>1. TypeOK'
  BY <1>0 DEF Fork, Call, SW!Spawn, ProcInv, TypeOK, Lives, SW!SWTypeOK
<1>2. Lives'
  BY <1>0 DEF Fork, Call, SW!Spawn, ProcInv, TypeOK, Lives, Ended, SW!SWTypeOK
<1>3. TableInv'
  BY <1>0 DEF Fork, ProcInv, TypeOK, Lives, TableInv, ParentCanWait, FreedIsStopped,
              WaiterIsParent, Alive
<1> QED
  BY <1>1, <1>2, <1>3, Zenon DEF ProcInv

(* So do the other calls up to their critical section, and the delivery of *)
(* a signal.                                                               *)
LEMMA CallKeeps ==
  ASSUME ProcInv, NEW p \in Proc,
         \/ Exit(p) \/ InitReap(p)
         \/ \E o \in Calls, c \in Proc \cup {NoProc}, nh \in BOOLEAN :
              (o = "wait" => c # NoProc) /\ Wait(p, o, c, nh)
         \/ \E s \in {"KILL", "HANDLED"} : SignalSend(p, s) \/ SignalDeliver(p, s)
  PROVE  ProcInv'
<1> USE ProcessAssumption
<1>1. CASE Exit(p)
  <2>1. TypeOK'
    BY <1>1, Zenon DEF Exit, Call, tableVars, ProcInv, TypeOK, SW!SWTypeOK
  <2>2. Lives'
    BY <1>1, CallerLives DEF Exit, InUser, Alive, Call, tableVars, ProcInv, TypeOK, Lives, Ended
  <2>3. TableInv'
    BY <1>1, TableKept, Zenon DEF Exit, tableVars, ProcInv
  <2> QED
    BY <2>1, <2>2, <2>3, Zenon DEF ProcInv
<1>2. CASE InitReap(p)
  <2>1. TypeOK'
    BY <1>2, Zenon DEF InitReap, Call, tableVars, ProcInv, TypeOK, SW!SWTypeOK
  <2>2. Lives'
    BY <1>2 DEF InitReap, InUser, Call, tableVars, ProcInv, TypeOK, Lives, Ended
  <2>3. TableInv'
    BY <1>2, TableKept, Zenon DEF InitReap, tableVars, ProcInv
  <2> QED
    BY <2>1, <2>2, <2>3, Zenon DEF ProcInv
<1>3. ASSUME NEW o \in Calls, NEW c \in Proc \cup {NoProc}, NEW nh \in BOOLEAN,
             o = "wait" => c # NoProc, Wait(p, o, c, nh)
      PROVE  ProcInv'
  <2>1. TypeOK'
    BY <1>3 DEF Wait, Call, tableVars, ProcInv, TypeOK, SW!SWTypeOK
  <2>2. Lives'
    BY <1>3, CallerLives DEF Wait, InUser, Alive, Call, tableVars, ProcInv, TypeOK, Lives, Ended
  <2>3. TableInv'
    BY <1>3, TableKept, Zenon DEF Wait, tableVars, ProcInv
  <2> QED
    BY <2>1, <2>2, <2>3, Zenon DEF ProcInv
<1>4. ASSUME NEW s \in {"KILL", "HANDLED"}, SignalSend(p, s)
      PROVE  ProcInv'
  <2>1. TypeOK'
    BY <1>4 DEF SignalSend, callVars, tableVars, ProcInv, TypeOK, SW!SWTypeOK
  <2>2. Lives'
    BY <1>4 DEF SignalSend, callVars, tableVars, ProcInv, TypeOK, Lives, Ended
  <2>3. TableInv'
    BY <1>4, TableKept, Zenon DEF SignalSend, tableVars, ProcInv
  <2> QED
    BY <2>1, <2>2, <2>3, Zenon DEF ProcInv
<1>5. ASSUME NEW s \in {"KILL", "HANDLED"}, SignalDeliver(p, s)
      PROVE  ProcInv'
  <2>1. TypeOK'
    <3>1. pending' \in [Proc -> SUBSET {"KILL", "HANDLED"}]
      BY <1>5, ZenonT(60) DEF SignalDeliver, ProcInv, TypeOK
    <3>2. UNCHANGED <<op, at, target, nohang>> \/ Call(p, "exit", NoProc, FALSE)
      BY <1>5, Zenon DEF SignalDeliver, callVars
    <3>3. /\ op' \in [Proc -> {"none", "start", "wait", "waitpid", "exit"}]
          /\ at' \in [Proc -> {"user", "lock", "locked", "block", "sleep", "notify", "leave", "left"}]
          /\ target' \in [Proc -> Proc \cup {NoProc}] /\ nohang' \in [Proc -> BOOLEAN]
      <4>1. CASE UNCHANGED <<op, at, target, nohang>>
        BY <4>1, Zenon DEF ProcInv, TypeOK
      <4>2. CASE Call(p, "exit", NoProc, FALSE)
        BY <4>2, Zenon DEF Call, ProcInv, TypeOK
      <4> QED
        BY <3>2, <4>1, <4>2, Zenon
    <3> QED
      BY <1>5, <3>1, <3>3, Zenon DEF SignalDeliver, tableVars, ProcInv, TypeOK, SW!SWTypeOK
  <2>2. Lives'
    BY <1>5, CallerLives DEF SignalDeliver, InUser, Alive, Call, callVars, tableVars, ProcInv,
                             TypeOK, Lives, Ended
  <2>3. TableInv'
    BY <1>5, TableKept, Zenon DEF SignalDeliver, tableVars, ProcInv
  <2> QED
    BY <2>1, <2>2, <2>3, Zenon DEF ProcInv
<1> QED
  BY <1>1, <1>2, <1>3, <1>4, <1>5, Zenon

-----------------------------------------------------------------------------
(* Critical sections.                                                      *)

(* mutex_lock, and blocking or sleeping between two rounds of a wait.      *)
LEMMA PauseKeeps ==
  ASSUME ProcInv, NEW p \in Proc, Lock(p) \/ Pause(p) \/ Expire(p)
  PROVE  ProcInv'
<1> USE ProcessAssumption
<1>1. SW!SWTypeOK /\ NoProc \in Proc \cup {NoProc}
  BY Zenon DEF ProcInv, TypeOK
<1>2. /\ SW!SWTypeOK'
      /\ \A q \in Proc : phase[q] = "dead" => phase'[q] = "dead"
  BY <1>1, PhaseKept, Zenon DEF Lock, Pause, Expire
<1>3. /\ UNCHANGED <<state, parent, waiter, stopped, op, target, nohang, pending, notify, sigwake, calls>>
      /\ mutex' \in {mutex, p}
      /\ at' = at \/ (at' \in {[at EXCEPT ![p] = "locked"], [at EXCEPT ![p] = "lock"]}
                       /\ at[p] \in {"lock", "block", "sleep"})
  BY Zenon DEF Lock, Pause, Expire, tableVars, callVars
<1>4. TypeOK'
  BY <1>2, <1>3 DEF ProcInv, TypeOK
<1>5. Lives'
  BY <1>2, <1>3 DEF ProcInv, TypeOK, Lives, Ended
<1>6. TableInv'
  BY <1>3, TableKept, Zenon DEF ProcInv
<1> QED
  BY <1>4, <1>5, <1>6, Zenon DEF ProcInv

(* fork_child_entry. *)
LEMMA StartKeeps ==
  ASSUME ProcInv, NEW p \in Proc, StartLocked(p)
  PROVE  ProcInv'
<1> USE ProcessAssumption
<1>0. Alive(p)
  BY CallerLives, Zenon DEF StartLocked, InSection, Ended
<1>1. TypeOK'
  BY <1>0 DEF StartLocked, Return, Alive, ProcInv, TypeOK, SW!SWTypeOK
<1>2. Lives'
  BY <1>0 DEF StartLocked, InSection, Return, Alive, ProcInv, TypeOK, Lives, Ended
<1>3. TableInv'
  BY <1>0 DEF StartLocked, ProcInv, TypeOK, TableInv, ParentCanWait, FreedIsStopped,
              WaiterIsParent, Alive
<1> QED
  BY <1>1, <1>2, <1>3, Zenon DEF ProcInv

(* A zombie has no children: it may be freed. *)
LEMMA ReapKeeps ==
  ASSUME ProcInv, NEW p \in Proc, NEW c \in Proc, at[p] = "locked", Reapable(c), Reap(c), Return(p),
         mutex' = NoProc, UNCHANGED <<pending, notify, sigwake, stopped, phase, token, calls>>
  PROVE  ProcInv'
<1> USE ProcessAssumption
<1>0. c # Init1 /\ c # p
  BY Zenon DEF Reapable, ProcInv, Lives, Ended
<1>1. TypeOK'
  BY <1>0 DEF Reapable, Reap, Return, ProcInv, TypeOK, SW!SWTypeOK
<1>2. Lives'
  BY <1>0 DEF Reapable, Reap, Return, ProcInv, TypeOK, Lives, Ended
<1>3. TableInv'
  BY <1>0 DEF Reapable, Reap, ProcInv, TypeOK, TableInv, ParentCanWait, FreedIsStopped,
              WaiterIsParent, Alive
<1> QED
  BY <1>1, <1>2, <1>3, Zenon DEF ProcInv

(* A wait that returns without a child, or goes round again. *)
LEMMA RoundKeeps ==
  ASSUME ProcInv, NEW p \in Proc, NEW e \in BOOLEAN, at[p] = "locked",
         Return(p) \/ WaitMore(p, e), UNCHANGED <<state, parent>>,
         mutex' = NoProc, UNCHANGED <<pending, notify, sigwake, stopped, phase, token, calls>>,
         waiter' \in [Proc -> Proc \cup {NoProc}], WaiterIsParent'
  PROVE  ProcInv'
<1> USE ProcessAssumption
<1>1. CASE Return(p)
  <2>1. TypeOK'
    BY <1>1, Zenon DEF Return, ProcInv, TypeOK, SW!SWTypeOK
  <2>2. Lives'
    BY <1>1 DEF Return, ProcInv, TypeOK, Lives, Ended
  <2> QED
    BY <2>1, <2>2, Zenon DEF ProcInv, TableInv, ParentCanWait, FreedIsStopped, Alive
<1>2. CASE WaitMore(p, e)
  <2>1. TypeOK'
    BY <1>2, Zenon DEF WaitMore, callVars, ProcInv, TypeOK, SW!SWTypeOK
  <2>2. Lives'
    BY <1>2 DEF WaitMore, callVars, ProcInv, TypeOK, Lives, Ended
  <2> QED
    BY <2>1, <2>2, Zenon DEF ProcInv, TableInv, ParentCanWait, FreedIsStopped, Alive
<1> QED
  BY <1>1, <1>2, Zenon

(* process_wait registers the caller only for its own child. *)
LEMMA WaitKeeps ==
  ASSUME ProcInv, NEW p \in Proc, WaitLocked(p)
  PROVE  ProcInv'
<1> USE ProcessAssumption
<1> DEFINE c == target[p]
<1>1. c \in Proc /\ at[p] = "locked" /\ mutex' = NoProc
      /\ UNCHANGED <<pending, notify, sigwake, stopped, phase, token, calls>>
  BY Zenon DEF WaitLocked, InSection, ProcInv, Lives
<1>2. waiter \in [Proc -> Proc \cup {NoProc}] /\ WaiterIsParent
  BY Zenon DEF ProcInv, TypeOK, TableInv
<1>3. CASE Reapable(c) /\ Reap(c) /\ Return(p)
  BY <1>1, <1>3, ReapKeeps, Zenon
<1>4. CASE Return(p) /\ UNCHANGED tableVars
  <2>1. WaiterIsParent' /\ waiter' = waiter /\ UNCHANGED <<state, parent>>
    BY <1>2, <1>4, Zenon DEF tableVars, WaiterIsParent, Alive
  <2> QED
    BY <1>1, <1>2, <1>4, <2>1, RoundKeeps, Zenon
<1>5. CASE /\ ~Refused(p, c) /\ waiter' = [waiter EXCEPT ![c] = p]
           /\ WaitMore(p, state[c] = "exited") /\ UNCHANGED <<state, parent>>
  <2>1. Alive(p)
    BY <1>1, CallerLives, Zenon DEF Ended
  <2>2. WaiterIsParent' /\ waiter' \in [Proc -> Proc \cup {NoProc}]
    BY <1>1, <1>2, <1>5, <2>1 DEF WaiterIsParent, Refused, Alive
  <2> QED
    BY <1>1, <1>5, <2>2, RoundKeeps, Zenon
<1> QED
  BY <1>3, <1>4, <1>5, Zenon DEF WaitLocked

(* process_waitpid registers nobody. *)
LEMMA WaitpidKeeps ==
  ASSUME ProcInv, NEW p \in Proc, WaitpidLocked(p)
  PROVE  ProcInv'
<1> USE ProcessAssumption
<1>1. at[p] = "locked" /\ mutex' = NoProc
      /\ UNCHANGED <<pending, notify, sigwake, stopped, phase, token, calls>>
  BY Zenon DEF WaitpidLocked, InSection
<1>2. CASE \E c \in Proc : Reapable(c) /\ Reap(c) /\ Return(p)
  BY <1>1, <1>2, ReapKeeps, Zenon
<1>3. CASE \E e \in BOOLEAN : (Return(p) \/ WaitMore(p, e)) /\ UNCHANGED tableVars
  <2>1. UNCHANGED <<state, parent, waiter>>
    BY <1>3, Zenon DEF tableVars
  <2>2. WaiterIsParent' /\ waiter' \in [Proc -> Proc \cup {NoProc}]
    BY <2>1, Zenon DEF WaiterIsParent, Alive, ProcInv, TypeOK, TableInv
  <2> QED
    BY <1>1, <1>3, <2>1, <2>2, RoundKeeps, Zenon
<1> QED
  BY <1>2, <1>3, Zenon DEF WaitpidLocked, Matching

-----------------------------------------------------------------------------
(* Exit.                                                                   *)

(* process_terminate: the children go to PID 1, which is alive, and nobody *)
(* stays registered for them.                                              *)
LEMMA ExitKeeps ==
  ASSUME ProcInv, NEW p \in Proc, ExitLocked(p)
  PROVE  ProcInv'
<1> USE ProcessAssumption
<1>0. Alive(p) /\ p # Init1
  <2>1. Alive(p)
    BY CallerLives, Zenon DEF ExitLocked, InSection, Ended
  <2> QED
    BY <2>1, Zenon DEF ExitLocked, InSection, ProcInv, Lives
<1>1. /\ SW!SWTypeOK'
      /\ \A q \in Proc : phase[q] = "dead" => phase'[q] = "dead"
  <2>1. SW!SWTypeOK /\ waiter[p] \in Proc \cup {NoProc} /\ UnblockThread(waiter[p])
    BY Zenon DEF ExitLocked, ProcInv, TypeOK
  <2> QED
    BY <2>1, PhaseKept, Zenon
<1>2. /\ state' = [state EXCEPT ![p] = "exited"]
      /\ parent' = Reparented(p) /\ waiter' = Unwaited(p)
      /\ at' = [at EXCEPT ![p] = "notify"] /\ mutex' = NoProc
      /\ notify' = [notify EXCEPT ![p] = parent[p]]
      /\ UNCHANGED <<op, target, nohang, sigwake, stopped, calls>>
  BY Zenon DEF ExitLocked, ParentToWake, callVars
<1>3. /\ pending' \in [Proc -> SUBSET {"KILL", "HANDLED"}]
      /\ "KILL" \notin pending'[Init1]
  BY Zenon DEF ExitLocked, ProcInv, TypeOK, Lives
<1>4. TypeOK'
  <2>1. /\ parent' \in [Proc -> Proc \cup {NoProc}] /\ waiter' \in [Proc -> Proc \cup {NoProc}]
        /\ state' \in [Proc -> {"unborn", "ready", "running", "exited", "free"}]
    BY <1>2, Zenon DEF Reparented, Unwaited, ProcInv, TypeOK
  <2>2. \A q \in Proc \ {Init1} : parent'[q] = NoProc <=> state'[q] \in {"unborn", "free"}
    BY <1>0, <1>2, ZenonT(60) DEF Reparented, Alive, ProcInv, TypeOK
  <2> QED
    BY <1>1, <1>2, <1>3, <2>1, <2>2, ZenonT(60) DEF ProcInv, TypeOK
<1>5. Lives'
  <2>0. /\ at'[p] = "notify" /\ state'[p] = "exited"
        /\ \A q \in Proc \ {p} : at'[q] = at[q] /\ state'[q] = state[q]
    BY <1>2 DEF ProcInv, TypeOK
  <2>1. \A q \in Proc : at'[q] \in Ended <=> state'[q] \in {"exited", "free"}
    BY <2>0, ZenonT(60) DEF ProcInv, Lives, Ended
  <2>2. \A q \in Proc : state'[q] = "unborn" => at'[q] = "user" /\ phase'[q] = "dead"
    BY <1>1, <2>0 DEF ProcInv, Lives
  <2>3. /\ state'[Init1] = "running" /\ parent'[Init1] = NoProc
        /\ op'[Init1] # "exit" /\ "KILL" \notin pending'[Init1]
    <3>1. state'[Init1] = state[Init1]
      BY <1>0, <1>2, Zenon DEF ProcInv, TypeOK
    <3>2. parent[Init1] = NoProc /\ parent'[Init1] = NoProc
      BY <1>2, Zenon DEF Reparented, ProcInv, Lives
    <3> QED
      BY <1>2, <1>3, <3>1, <3>2, Zenon DEF ProcInv, Lives
  <2>4. \A q \in Proc : op'[q] = "wait" => target'[q] \in Proc
    BY <1>2, Zenon DEF ProcInv, Lives
  <2> QED
    BY <2>1, <2>2, <2>3, <2>4, Zenon DEF Lives
<1>6. TableInv'
  <2>1. ParentCanWait'
    BY <1>0, <1>2 DEF Reparented, Alive, ProcInv, TypeOK, Lives, TableInv, ParentCanWait
  <2>2. FreedIsStopped'
    BY <1>0, <1>2, ZenonT(60) DEF ProcInv, TypeOK, TableInv, FreedIsStopped
  <2>3. WaiterIsParent'
    BY <1>0, <1>2 DEF Reparented, Unwaited, Alive, ProcInv, TypeOK, TableInv, WaiterIsParent
  <2> QED
    BY <2>1, <2>2, <2>3, Zenon DEF TableInv
<1> QED
  BY <1>4, <1>5, <1>6, Zenon DEF ProcInv

(* The rest of an exit, and the wake-up of a signalled process. *)
LEMMA LeaveKeeps ==
  ASSUME ProcInv, NEW p \in Proc, Notify(p) \/ Leave(p) \/ SignalWake(p)
  PROVE  ProcInv'
<1> USE ProcessAssumption
<1>1. SW!SWTypeOK /\ notify[p] \in Proc \cup {NoProc} /\ p \in Proc \cup {NoProc}
  BY Zenon DEF ProcInv, TypeOK
<1>2. /\ SW!SWTypeOK'
      /\ \A q \in Proc : phase[q] = "dead" => phase'[q] = "dead"
  BY <1>1, PhaseKept, Zenon DEF Notify, Leave, SignalWake
<1>3. /\ UNCHANGED <<state, parent, waiter, stopped, op, target, nohang, pending, mutex, calls>>
      /\ sigwake' \in SUBSET sigwake
      /\ notify' \in {notify, [notify EXCEPT ![p] = NoProc]}
      /\ at' = at \/ (at' \in {[at EXCEPT ![p] = "leave"], [at EXCEPT ![p] = "left"]}
                       /\ at[p] \in {"notify", "leave"})
  BY Zenon DEF Notify, Leave, SignalWake, tableVars, callVars
<1>4. TypeOK'
  <2>1. at' \in [Proc -> {"user", "lock", "locked", "block", "sleep", "notify", "leave", "left"}]
    BY <1>3 DEF ProcInv, TypeOK
  <2>2. notify' \in [Proc -> Proc \cup {NoProc}] /\ sigwake' \in SUBSET Proc
    BY <1>3 DEF ProcInv, TypeOK
  <2> QED
    BY <1>2, <1>3, <2>1, <2>2, Zenon DEF ProcInv, TypeOK
<1>5. Lives'
  BY <1>2, <1>3 DEF ProcInv, TypeOK, Lives, Ended
<1>6. TableInv'
  BY <1>3, TableKept, Zenon DEF ProcInv
<1> QED
  BY <1>4, <1>5, <1>6, Zenon DEF ProcInv

(* A processor switches away from a thread that has exited. *)
LEMMA StopKeeps ==
  ASSUME ProcInv, NEW p \in Proc, Stop(p)
  PROVE  ProcInv'
<1>1. TypeOK'
  BY Zenon DEF Stop, tableVars, callVars, ProcInv, TypeOK, SW!SWTypeOK
<1>2. Lives'
  BY Zenon DEF Stop, tableVars, callVars, ProcInv, Lives
<1>3. TableInv'
  BY Zenon DEF Stop, tableVars, ProcInv, TableInv, ParentCanWait, FreedIsStopped, WaiterIsParent, Alive
<1> QED
  BY <1>1, <1>2, <1>3, Zenon DEF ProcInv

-----------------------------------------------------------------------------
(* The theorems.                                                           *)

(* Every step keeps the invariant. *)
LEMMA ProcStep == ProcInv /\ [Next]_vars => ProcInv'
<1> SUFFICES ASSUME ProcInv, [Next]_vars PROVE ProcInv'
  BY Zenon
<1>1. CASE Next
  BY <1>1, ForkKeeps, CallKeeps, PauseKeeps, StartKeeps, WaitKeeps, WaitpidKeeps, ExitKeeps,
     LeaveKeeps, StopKeeps, ZenonT(60) DEF Next
<1>2. CASE UNCHANGED vars
  <2>1. TypeOK' /\ Lives'
    BY <1>2, Zenon DEF vars, tableVars, callVars, ProcInv, TypeOK, SW!SWTypeOK, Lives
  <2>2. TableInv'
    BY <1>2, TableKept, Zenon DEF vars, tableVars, ProcInv
  <2> QED
    BY <2>1, <2>2, Zenon DEF ProcInv
<1> QED
  BY <1>1, <1>2, Zenon

(* The table of processes satisfies its invariant for ever. *)
THEOREM ProcInvariant == Spec => []ProcInv
BY ProcInitially, ProcStep, PTL DEF Spec

(* A process in the table always has a living parent, whichever processes  *)
(* exit and in whichever order: process_terminate hands its children to    *)
(* PID 1 in the critical section in which it becomes a zombie.             *)
THEOREM ParentsCanWait == Spec => []ParentCanWait
<1>1. ProcInv => ParentCanWait
  BY Zenon DEF ProcInv, TableInv
<1> QED
  BY <1>1, ProcInvariant, PTL

(* No process is freed, with its address space and its stack, while its    *)
(* thread is on a processor.                                               *)
THEOREM FreedAreStopped == Spec => []FreedIsStopped
<1>1. ProcInv => FreedIsStopped
  BY Zenon DEF ProcInv, TableInv
<1> QED
  BY <1>1, ProcInvariant, PTL

(* Only a living parent is ever registered as the waiter of a process.     *)
THEOREM WaitersAreParents == Spec => []WaiterIsParent
<1>1. ProcInv => WaiterIsParent
  BY Zenon DEF ProcInv, TableInv
<1> QED
  BY <1>1, ProcInvariant, PTL

(* The type invariant of Process is one. *)
THEOREM ProcessTypeCorrect == Spec => []TypeOK
BY ProcInvariant, PTL DEF ProcInv

-----------------------------------------------------------------------------

(* p is blocked, or about to block with no wake-up remembered. *)
Watching(p) == phase[p] = "blocked" \/ (at[p] = "block" /\ ~token[p])

(* ... and nobody is on the way to unblock it. *)
Quiet(p) == Watching(p) /\ p \notin sigwake /\ \A q \in Proc : notify[q] # p

Child(c, p) == state[c] \notin {"unborn", "free"} /\ parent[c] = p

(* What it waits for has not happened. *)
Waits(p) ==
  /\ Matching(p) # {}
  /\ \A c \in Matching(p) : state[c] # "exited"
  /\ op[p] = "waitpid" => pending[p] = {}
  /\ op[p] = "wait" => waiter[target[p]] = p

(* Where in a call a thread can be asleep, gone, or owe a wake-up, and     *)
(* that PID 1, which never blocks, is not among the waiting.               *)
Place(p) ==
  /\ phase[p] = "dead" => at[p] \in {"user", "left"}
  /\ phase[p] \in {"blocked", "timed"} => at[p] = "lock"
  /\ at[p] # "notify" => notify[p] = NoProc
  /\ p \in stopped => at[p] = "left"

InitPlace ==
  /\ phase[Init1] # "blocked" /\ at[Init1] # "block"
  /\ op[Init1] \in {"none", "wait"} /\ (op[Init1] = "wait" => nohang[Init1])

Places == InitPlace /\ \A p \in Proc : Place(p)

WakeInv == ProcInv /\ Places /\ \A p \in Proc : Quiet(p) => Waits(p)

(* At first nobody waits. *)
LEMMA WakeInitially == Init => WakeInv
<1> SUFFICES ASSUME Init PROVE WakeInv
  BY Zenon
<1>1. ProcInv
  BY ProcInitially, Zenon
<1>2. Places
  BY ProcessAssumption, Zenon DEF Init, Places, Place, InitPlace
<1>3. \A p \in Proc : ~Watching(p)
  BY Zenon DEF Init, Watching
<1> QED
  BY <1>1, <1>2, <1>3, Zenon DEF WakeInv, Quiet

(* A step that neither changes what p waits for nor ends its wait. *)
LEMMA WaitsKept ==
  ASSUME WakeInv, NEW p \in Proc, Quiet(p),
         op'[p] = op[p], target'[p] = target[p], pending'[p] = pending[p],
         \A c \in Proc : Child(c, p) <=> Child(c, p)',
         \A c \in Proc : Child(c, p) => /\ waiter'[c] = waiter[c]
                                        /\ state'[c] = "exited" => state[c] = "exited"
  PROVE  Waits(p)'
<1>1. Waits(p)
  BY Zenon DEF WakeInv
<1>2. Matching(p)' = Matching(p)
  BY Zenon DEF Matching, Child
<1>3. op[p] = "wait" => target[p] \in Proc /\ Child(target[p], p)
  BY <1>1, ProcessAssumption DEF Waits, Matching, Child, WakeInv, ProcInv, Lives
<1>4. (op[p] = "wait" => waiter[target[p]] = p)'
  BY <1>1, <1>3, Zenon DEF Waits
<1>5. \A c \in Matching(p) : state'[c] # "exited"
  BY <1>1, Zenon DEF Waits, Matching, Child
<1> QED
  BY <1>1, <1>2, <1>4, <1>5, Zenon DEF Waits

(* After scheduler_unblock a thread is awake or remembers the wake-up. *)
LEMMA UnblockEnds ==
  ASSUME WakeInv, NEW t \in Proc, UnblockThread(t), at'[t] = "block" => at[t] = "block"
  PROVE  ~Watching(t)'
<1>1. phase \in [Proc -> {"dead", "awake", "blocked", "timed"}] /\ token \in [Proc -> BOOLEAN]
  BY Zenon DEF WakeInv, ProcInv, TypeOK, SW!SWTypeOK
<1>2. CASE t \in stopped \/ phase[t] = "dead"
  BY <1>1, <1>2, ProcessAssumption, Zenon DEF UnblockThread, WakeInv, Places, Place, InitPlace, Watching
<1>3. CASE ~(t \in stopped \/ phase[t] = "dead")
  BY <1>1, <1>3, ProcessAssumption, ZenonT(60) DEF UnblockThread, SW!Unblock, SW!Asleep, WakeInv, Places, Place, InitPlace, Watching
<1> QED
  BY <1>2, <1>3, Zenon

(* ... and no other thread changes. *)
LEMMA UnblockOthers ==
  ASSUME WakeInv, NEW t \in Proc \cup {NoProc}, UnblockThread(t), NEW p \in Proc
  PROVE  /\ phase'[p] \in {phase[p], "awake"}
         /\ phase[p] = "dead" => phase'[p] = "dead"
         /\ token[p] => token'[p]
<1>1. phase \in [Proc -> {"dead", "awake", "blocked", "timed"}] /\ token \in [Proc -> BOOLEAN]
  BY Zenon DEF WakeInv, ProcInv, TypeOK, SW!SWTypeOK
<1> QED
  BY <1>1, ProcessAssumption, Zenon DEF UnblockThread, SW!Unblock, SW!Asleep

-----------------------------------------------------------------------------
(* Calls up to their critical section, and signals.                        *)

(* A call that starts is not waiting yet, and leaves the others alone. *)
LEMMA CallWakes ==
  ASSUME WakeInv, NEW p \in Proc,
         \/ Exit(p) \/ (p = Init1 /\ \E c \in Proc : InitReap(c))
         \/ \E o \in Calls, c \in Proc \cup {NoProc}, nh \in BOOLEAN : Wait(p, o, c, nh)
         \/ \E s \in {"KILL", "HANDLED"} : SignalDeliver(p, s)
  PROVE  Places' /\ \A r \in Proc : Quiet(r)' => Waits(r)'
<1> USE ProcessAssumption
<1>1. /\ UNCHANGED <<state, parent, waiter, notify, sigwake, stopped, phase, token>>
      /\ phase[p] = "awake" /\ at[p] = "user"
      /\ \A r \in Proc \ {p} : pending'[r] = pending[r]
  <2>1. pending \in [Proc -> SUBSET {"KILL", "HANDLED"}]
    BY Zenon DEF WakeInv, ProcInv, TypeOK
  <2> QED
    BY <2>1, Zenon DEF Exit, InitReap, Wait, SignalDeliver, InUser, Awake, tableVars
<1>2. \/ UNCHANGED <<op, at, target, nohang>>
      \/ \E o \in {"wait", "waitpid", "exit"}, c \in Proc \cup {NoProc}, nh \in BOOLEAN :
           /\ Call(p, o, c, nh)
           /\ p = Init1 => o = "wait" /\ nh
  <2>1. "KILL" \notin pending[Init1]
    BY Zenon DEF WakeInv, ProcInv, Lives
  <2>2. CASE Exit(p)
    BY <2>2, Zenon DEF Exit
  <2>3. CASE p = Init1 /\ \E c \in Proc : InitReap(c)
    BY <2>3, Zenon DEF InitReap
  <2>4. CASE \E o \in Calls, c \in Proc \cup {NoProc}, nh \in BOOLEAN : Wait(p, o, c, nh)
    BY <2>4, Zenon DEF Wait
  <2>5. CASE \E s \in {"KILL", "HANDLED"} : SignalDeliver(p, s)
    BY <2>1, <2>5, Zenon DEF SignalDeliver, callVars
  <2> QED
    BY <2>2, <2>3, <2>4, <2>5, Zenon
<1>3. /\ \A r \in Proc \ {p} : at'[r] = at[r] /\ op'[r] = op[r] /\ target'[r] = target[r]
                               /\ nohang'[r] = nohang[r]
      /\ at'[p] \in {"user", "lock"}
      /\ p = Init1 => (op'[p] \in {"none", "wait"} /\ (op'[p] = "wait" => nohang'[p]))
  <2>1. /\ op \in [Proc -> {"none", "start", "wait", "waitpid", "exit"}] /\ nohang \in [Proc -> BOOLEAN]
        /\ DOMAIN at = Proc /\ DOMAIN target = Proc
    BY Zenon DEF WakeInv, ProcInv, TypeOK
  <2>2. op[Init1] \in {"none", "wait"} /\ (op[Init1] = "wait" => nohang[Init1])
    BY Zenon DEF WakeInv, Places, InitPlace
  <2>3. CASE UNCHANGED <<op, at, target, nohang>>
    BY <1>1, <2>2, <2>3, Zenon
  <2>4. ASSUME NEW o \in {"wait", "waitpid", "exit"}, NEW c \in Proc \cup {NoProc}, NEW nh \in BOOLEAN,
               Call(p, o, c, nh), p = Init1 => o = "wait" /\ nh
        PROVE  <1>3!:
    BY <2>1, <2>4, Zenon DEF Call
  <2> QED
    BY <1>2, <2>3, <2>4, Zenon
<1>4. Places'
  <2>1. ASSUME NEW r \in Proc PROVE Place(r)'
    <3>1. Place(r)
      BY Zenon DEF WakeInv, Places
    <3>2. CASE r = p
      BY <1>1, <1>3, <3>1, <3>2, Zenon DEF Place
    <3>3. CASE r # p
      BY <1>1, <1>3, <3>1, <3>3, Zenon DEF Place
    <3> QED
      BY <3>2, <3>3, Zenon
  <2>2. InitPlace'
    BY <1>1, <1>3, Zenon DEF WakeInv, Places, InitPlace
  <2> QED
    BY <2>1, <2>2, Zenon DEF Places
<1>5. ASSUME NEW r \in Proc, Quiet(r)' PROVE Waits(r)'
  <2>1. r # p /\ Quiet(r)
    BY <1>1, <1>3, <1>5, Zenon DEF Quiet, Watching
  <2>2. \A c \in Proc : Child(c, r) <=> Child(c, r)'
    BY <1>1, Zenon DEF Child
  <2> QED
    BY <1>1, <1>3, <2>1, <2>2, WaitsKept, Zenon
<1> QED
  BY <1>4, <1>5, Zenon

(* A new child is the child of a process that is not waiting. *)
LEMMA ForkWakes ==
  ASSUME WakeInv, NEW p \in Proc, NEW c \in Proc, Fork(p, c)
  PROVE  Places' /\ \A r \in Proc : Quiet(r)' => Waits(r)'
<1> USE ProcessAssumption
<1>1. /\ UNCHANGED <<waiter, pending, notify, sigwake, stopped>>
      /\ phase[p] = "awake" /\ at[p] = "user"
      /\ state[c] = "unborn" /\ c # Init1
      /\ state' = [state EXCEPT ![c] = "ready"] /\ parent' = [parent EXCEPT ![c] = p]
      /\ phase' = [phase EXCEPT ![c] = "awake"]
      /\ at' = [at EXCEPT ![c] = "lock"]
  BY Zenon DEF Fork, InUser, Awake, Call, SW!Spawn, WakeInv, ProcInv, Lives
<1>2. \A r \in Proc \ {c} : op'[r] = op[r] /\ target'[r] = target[r] /\ nohang'[r] = nohang[r]
                             /\ token'[r] = token[r] /\ phase'[r] = phase[r] /\ at'[r] = at[r]
  BY <1>1 DEF Fork, Call, SW!Spawn, WakeInv, ProcInv, TypeOK, SW!SWTypeOK
<1>3. at'[c] = "lock" /\ phase'[c] = "awake" /\ at[c] = "user" /\ c \notin stopped
  BY <1>1 DEF WakeInv, ProcInv, TypeOK, SW!SWTypeOK, Lives, Places, Place, InitPlace
<1>4. Places'
  <2>1. ASSUME NEW r \in Proc PROVE Place(r)'
    <3>1. Place(r)
      BY Zenon DEF WakeInv, Places
    <3>2. CASE r = p
      BY <1>1, <1>2, <1>3, <3>1, <3>2 DEF Place
    <3>3. CASE r # p
      BY <1>1, <1>2, <1>3, <3>1, <3>3, Zenon DEF Place
    <3> QED
      BY <3>2, <3>3, Zenon
  <2>2. InitPlace'
    BY <1>1, <1>2, <1>3, Zenon DEF WakeInv, Places, InitPlace
  <2> QED
    BY <2>1, <2>2, Zenon DEF Places
<1>5. ASSUME NEW r \in Proc, Quiet(r)' PROVE Waits(r)'
  <2>1. r # c /\ r # p /\ Quiet(r)
    BY <1>1, <1>2, <1>3, <1>5, ZenonT(60) DEF Quiet, Watching
  <2>2. state \in [Proc -> {"unborn", "ready", "running", "exited", "free"}]
        /\ parent \in [Proc -> Proc \cup {NoProc}]
    BY Zenon DEF WakeInv, ProcInv, TypeOK
  <2>3. \A d \in Proc : Child(d, r) <=> Child(d, r)'
    BY <1>1, <2>1, <2>2, Zenon DEF Child
  <2>4. \A d \in Proc : Child(d, r) => /\ waiter'[d] = waiter[d]
                                       /\ state'[d] = "exited" => state[d] = "exited"
    BY <1>1, <2>2, Zenon
  <2> QED
    BY <1>1, <1>2, <2>1, <2>3, <2>4, WaitsKept, Zenon
<1> QED
  BY <1>4, <1>5, Zenon

(* signal_send: whoever is sent a signal has a wake-up on the way. *)
LEMMA SendWakes ==
  ASSUME WakeInv, NEW p \in Proc, NEW s \in {"KILL", "HANDLED"}, SignalSend(p, s)
  PROVE  Places' /\ \A r \in Proc : Quiet(r)' => Waits(r)'
<1>1. /\ UNCHANGED <<state, parent, waiter, op, target, nohang, at, notify, stopped, phase, token>>
      /\ p \in sigwake' /\ sigwake \subseteq sigwake'
      /\ \A r \in Proc \ {p} : pending'[r] = pending[r]
  BY Zenon DEF SignalSend, tableVars, callVars, WakeInv, ProcInv, TypeOK
<1>2. Places'
  <2>1. ASSUME NEW r \in Proc PROVE Place(r)'
    <3>1. Place(r)
      BY Zenon DEF WakeInv, Places
    <3>2. CASE r = p
      BY <1>1, <3>1, <3>2, Zenon DEF Place
    <3>3. CASE r # p
      BY <1>1, <3>1, <3>3, Zenon DEF Place
    <3> QED
      BY <3>2, <3>3, Zenon
  <2>2. InitPlace'
    BY <1>1, Zenon DEF WakeInv, Places, InitPlace
  <2> QED
    BY <2>1, <2>2, Zenon DEF Places
<1>3. ASSUME NEW r \in Proc, Quiet(r)' PROVE Waits(r)'
  <2>1. r # p /\ Quiet(r)
    BY <1>1, <1>3, Zenon DEF Quiet, Watching
  <2>2. \A c \in Proc : Child(c, r) <=> Child(c, r)'
    BY <1>1, Zenon DEF Child
  <2> QED
    BY <1>1, <2>1, <2>2, WaitsKept, Zenon
<1> QED
  BY <1>2, <1>3, Zenon

-----------------------------------------------------------------------------
(* Blocking.                                                               *)

(* A thread that blocks had no wake-up remembered: it waited already. *)
LEMMA PauseWakes ==
  ASSUME WakeInv, NEW p \in Proc, Lock(p) \/ Pause(p) \/ Expire(p)
  PROVE  Places' /\ \A r \in Proc : Quiet(r)' => Waits(r)'
<1> USE ProcessAssumption
<1>1. /\ UNCHANGED <<state, parent, waiter, op, target, nohang, pending, notify, sigwake, stopped>>
      /\ \A r \in Proc \ {p} : phase'[r] = phase[r] /\ token'[r] = token[r] /\ at'[r] = at[r]
      /\ at'[p] \in {"lock", "locked"} /\ at[p] \in {"lock", "block", "sleep"}
      /\ phase'[p] # "dead" /\ (phase'[p] # "awake" => at'[p] = "lock")
      /\ phase'[p] = "blocked" => at[p] = "block" /\ ~token[p]
  <2>1. /\ phase \in [Proc -> {"dead", "awake", "blocked", "timed"}]
        /\ token \in [Proc -> BOOLEAN] /\ at \in [Proc -> {"user", "lock", "locked", "block", "sleep",
                                                          "notify", "leave", "left"}]
        /\ (phase[p] \in {"blocked", "timed"} => at[p] = "lock")
        /\ (phase[p] = "dead" => at[p] \in {"user", "left"})
    BY Zenon DEF WakeInv, ProcInv, TypeOK, SW!SWTypeOK, Places, Place, InitPlace
  <2>2. CASE Lock(p)
    BY <2>1, <2>2 DEF Lock, Awake, SW!Sleep, SW!Expired, tableVars, callVars
  <2>3. CASE Pause(p)
    BY <2>1, <2>3 DEF Pause, SW!Block, SW!Sleep, SW!Expired, tableVars, callVars
  <2>4. CASE Expire(p)
    BY <2>1, <2>4, Zenon DEF Expire, SW!Expire, SW!Expired, tableVars, callVars
  <2> QED
    BY <2>2, <2>3, <2>4, Zenon
<1>2. Places'
  <2>1. ASSUME NEW r \in Proc PROVE Place(r)'
    <3>1. Place(r)
      BY Zenon DEF WakeInv, Places
    <3>2. CASE r = p
      BY <1>1, <3>1, <3>2, Zenon DEF Place
    <3>3. CASE r # p
      BY <1>1, <3>1, <3>3, Zenon DEF Place
    <3> QED
      BY <3>2, <3>3, Zenon
  <2>2. InitPlace'
    BY <1>1, ZenonT(30) DEF WakeInv, Places, InitPlace
  <2> QED
    BY <2>1, <2>2, Zenon DEF Places
<1>3. ASSUME NEW r \in Proc, Quiet(r)' PROVE Waits(r)'
  <2>1. Quiet(r)
    BY <1>1, <1>3, Zenon DEF Quiet, Watching
  <2>2. \A c \in Proc : Child(c, r) <=> Child(c, r)'
    BY <1>1, Zenon DEF Child
  <2> QED
    BY <1>1, <2>1, <2>2, WaitsKept, Zenon
<1> QED
  BY <1>2, <1>3, Zenon


(* A thread in its critical section is awake. *)
LEMMA SectionAwake ==
  ASSUME WakeInv, NEW p \in Proc, at[p] = "locked"
  PROVE  phase[p] = "awake"
BY Zenon DEF WakeInv, ProcInv, TypeOK, SW!SWTypeOK, Places, Place, InitPlace

(* fork_child_entry. *)
LEMMA StartWakes ==
  ASSUME WakeInv, NEW p \in Proc, StartLocked(p)
  PROVE  Places' /\ \A r \in Proc : Quiet(r)' => Waits(r)'
<1>1. /\ UNCHANGED <<parent, waiter, pending, notify, sigwake, stopped, phase, token>>
      /\ at[p] = "locked" /\ op[p] = "start"
      /\ state' = [state EXCEPT ![p] = "running"]
      /\ at' = [at EXCEPT ![p] = "user"] /\ op' = [op EXCEPT ![p] = "none"]
      /\ \A r \in Proc \ {p} : target'[r] = target[r] /\ nohang'[r] = nohang[r]
  BY Zenon DEF StartLocked, InSection, Return, WakeInv, ProcInv, TypeOK
<1>2. Alive(p) /\ phase[p] = "awake"
  BY <1>1, CallerLives, SectionAwake, Zenon DEF Ended, WakeInv
<1>3. Places'
  <2>1. ASSUME NEW r \in Proc PROVE Place(r)'
    <3>1. Place(r)
      BY Zenon DEF WakeInv, Places
    <3>2. CASE r = p
      BY <1>1, <1>2, <3>1, <3>2, Zenon DEF Place
    <3>3. CASE r # p
      BY <1>1, <1>2, <3>1, <3>3 DEF Place
    <3> QED
      BY <3>2, <3>3, Zenon
  <2>2. InitPlace'
    <3>1. InitPlace /\ Init1 # p
      BY <1>1, Zenon DEF WakeInv, Places, InitPlace
    <3>2. op'[Init1] = op[Init1] /\ at'[Init1] = at[Init1] /\ nohang'[Init1] = nohang[Init1]
      BY <1>1, <3>1, ProcessAssumption, ZenonT(60) DEF WakeInv, ProcInv, TypeOK
    <3> QED
      BY <1>1, <3>1, <3>2, Zenon DEF InitPlace
  <2> QED
    BY <2>1, <2>2, Zenon DEF Places
<1>4. ASSUME NEW r \in Proc, Quiet(r)' PROVE Waits(r)'
  <2>1. r # p /\ Quiet(r)
    BY <1>1, <1>2, <1>4, Zenon DEF Quiet, Watching, WakeInv, ProcInv, TypeOK
  <2>2. state \in [Proc -> {"unborn", "ready", "running", "exited", "free"}]
        /\ op \in [Proc -> {"none", "start", "wait", "waitpid", "exit"}]
    BY Zenon DEF WakeInv, ProcInv, TypeOK
  <2>3. \A c \in Proc : Child(c, r) <=> Child(c, r)'
    BY <1>1, <1>2, <2>2, Zenon DEF Child, Alive
  <2>4. \A c \in Proc : Child(c, r) => /\ waiter'[c] = waiter[c]
                                       /\ state'[c] = "exited" => state[c] = "exited"
    BY <1>1, <2>2, Zenon
  <2>5. op'[r] = op[r] /\ target'[r] = target[r] /\ pending'[r] = pending[r]
    BY <1>1, <2>1, <2>2, ZenonT(30)
  <2> QED
    BY <2>1, <2>3, <2>4, <2>5, WaitsKept, Zenon
<1> QED
  BY <1>3, <1>4, Zenon

(* One round of process_wait or process_waitpid touches children of the    *)
(* caller only, so no other thread's wait.                                 *)
LEMMA RoundWakes ==
  ASSUME WakeInv, NEW p \in Proc, at[p] = "locked",
         UNCHANGED <<pending, notify, sigwake, stopped, phase, token>>,
         Return(p) \/ (p # Init1 /\ \E e \in BOOLEAN : WaitMore(p, e)),
         \/ UNCHANGED <<state, parent, waiter>>
         \/ \E c \in Proc : parent[c] = p /\ Reapable(c) /\ Reap(c)
         \/ /\ UNCHANGED <<state, parent>>
            /\ \E c \in Proc : parent[c] = p /\ waiter' = [waiter EXCEPT ![c] = p]
  PROVE  Places' /\ \A r \in Proc \ {p} : Quiet(r)' => Waits(r)'
<1> USE ProcessAssumption
<1>1. phase[p] = "awake"
  BY SectionAwake, Zenon
<1>2. /\ \A r \in Proc \ {p} : at'[r] = at[r] /\ op'[r] = op[r] /\ target'[r] = target[r]
                               /\ nohang'[r] = nohang[r]
      /\ at'[p] \in {"user", "sleep", "block"}
      /\ p = Init1 => at'[p] = "user" /\ op'[p] = "none"
  <2>1. CASE Return(p)
    BY <2>1 DEF Return, WakeInv, ProcInv, TypeOK
  <2>2. CASE p # Init1 /\ \E e \in BOOLEAN : WaitMore(p, e)
    BY <2>2 DEF WaitMore, callVars, WakeInv, ProcInv, TypeOK
  <2> QED
    BY <2>1, <2>2, Zenon
<1>3. Places'
  <2>1. ASSUME NEW r \in Proc PROVE Place(r)'
    <3>1. Place(r)
      BY Zenon DEF WakeInv, Places
    <3>2. CASE r = p
      BY <1>1, <1>2, <3>1, <3>2, Zenon DEF Place
    <3>3. CASE r # p
      BY <1>1, <1>2, <3>1, <3>3, Zenon DEF Place
    <3> QED
      BY <3>2, <3>3, Zenon
  <2>2. InitPlace'
    <3>1. InitPlace
      BY Zenon DEF WakeInv, Places
    <3>2. CASE p = Init1
      BY <1>1, <1>2, <3>1, <3>2, Zenon DEF InitPlace
    <3>3. CASE p # Init1
      BY <1>2, <3>1, <3>3, Zenon DEF InitPlace
    <3> QED
      BY <3>2, <3>3, ZenonT(30)
  <2> QED
    BY <2>1, <2>2, Zenon DEF Places
<1>4. ASSUME NEW r \in Proc \ {p}, Quiet(r)' PROVE Waits(r)'
  <2>1. Quiet(r)
    BY <1>2, <1>4, Zenon DEF Quiet, Watching
  <2>2. /\ state \in [Proc -> {"unborn", "ready", "running", "exited", "free"}]
        /\ parent \in [Proc -> Proc \cup {NoProc}] /\ waiter \in [Proc -> Proc \cup {NoProc}]
    BY Zenon DEF WakeInv, ProcInv, TypeOK
  <2>3. \A c \in Proc : (Child(c, r) <=> Child(c, r)') /\ (parent[c] # p => state'[c] = state[c] /\ waiter'[c] = waiter[c])
    BY <2>2, ZenonT(60) DEF Child, Reapable, Reap
  <2>4. \A c \in Proc : Child(c, r) => /\ waiter'[c] = waiter[c]
                                       /\ state'[c] = "exited" => state[c] = "exited"
    BY <2>3, Zenon DEF Child
  <2> QED
    BY <1>2, <2>1, <2>3, <2>4, WaitsKept, Zenon
<1> QED
  BY <1>3, <1>4, Zenon

(* A call that returns waits no longer. *)
LEMMA ReturnEnds ==
  ASSUME WakeInv, NEW p \in Proc, at[p] = "locked", Return(p), UNCHANGED phase
  PROVE  ~Watching(p)'
<1>1. at'[p] = "user"
  BY Zenon DEF Return, WakeInv, ProcInv, TypeOK
<1>2. phase'[p] = "awake"
  BY SectionAwake, Zenon
<1> QED
  BY <1>1, <1>2, Zenon DEF Watching

(* process_wait: who goes on to block is registered with a child that has  *)
(* not exited.                                                             *)
LEMMA WaitWakes ==
  ASSUME WakeInv, NEW p \in Proc, WaitLocked(p)
  PROVE  Places' /\ \A r \in Proc : Quiet(r)' => Waits(r)'
<1> USE ProcessAssumption
<1> DEFINE c == target[p]
<1>1. /\ c \in Proc /\ at[p] = "locked" /\ op[p] = "wait"
      /\ UNCHANGED <<pending, notify, sigwake, stopped, phase, token>>
  BY Zenon DEF WaitLocked, InSection, WakeInv, ProcInv, Lives
<1>2. CASE ~Refused(p, c) /\ Reapable(c) /\ Reap(c) /\ Return(p)
  <2>1. Places' /\ \A r \in Proc \ {p} : Quiet(r)' => Waits(r)'
    BY <1>1, <1>2, RoundWakes, Zenon DEF Refused
  <2>2. ~Watching(p)'
    BY <1>1, <1>2, ReturnEnds, Zenon
  <2> QED
    BY <2>1, <2>2, Zenon DEF Quiet
<1>3. CASE Return(p) /\ UNCHANGED tableVars
  <2>1. Places' /\ \A r \in Proc \ {p} : Quiet(r)' => Waits(r)'
    BY <1>1, <1>3, RoundWakes, Zenon DEF tableVars
  <2>2. ~Watching(p)'
    BY <1>1, <1>3, ReturnEnds, Zenon
  <2> QED
    BY <2>1, <2>2, Zenon DEF Quiet
<1>4. CASE /\ ~Refused(p, c) /\ ~nohang[p] /\ waiter' = [waiter EXCEPT ![c] = p]
           /\ WaitMore(p, state[c] = "exited") /\ UNCHANGED <<state, parent>>
  <2>1. p # Init1 /\ parent[c] = p /\ (state[c] = "exited") \in BOOLEAN
    BY <1>1, <1>4, Zenon DEF Refused, WakeInv, Places, Place, InitPlace
  <2>2. Places' /\ \A r \in Proc \ {p} : Quiet(r)' => Waits(r)'
    BY <1>1, <1>4, <2>1, RoundWakes, Zenon
  <2>3. Quiet(p)' => Waits(p)'
    <3>1. phase[p] = "awake"
      BY <1>1, SectionAwake, Zenon
    <3>2. waiter \in [Proc -> Proc \cup {NoProc}] /\ waiter'[c] = p
      BY <1>1, <1>4, Zenon DEF WakeInv, ProcInv, TypeOK
    <3>3. /\ at \in [Proc -> {"user", "lock", "locked", "block", "sleep", "notify", "leave", "left"}]
          /\ at' = [at EXCEPT ![p] = IF state[c] = "exited" THEN "sleep" ELSE "block"]
          /\ UNCHANGED <<op, target>>
      BY <1>4, Zenon DEF WaitMore, callVars, WakeInv, ProcInv, TypeOK
    <3>4. Watching(p)' => state[c] # "exited"
      BY <1>1, <3>1, <3>3, Zenon DEF Watching
    <3>5. Matching(p)' = {c}
      BY <1>1, <1>4, <2>1, <3>3, Zenon DEF Matching, Refused
    <3> QED
      BY <1>1, <1>4, <3>2, <3>3, <3>4, <3>5, Zenon DEF Quiet, Waits
  <2> QED
    BY <2>2, <2>3, Zenon
<1> QED
  BY <1>2, <1>3, <1>4, Zenon DEF WaitLocked

(* process_waitpid: who goes on to block has a child, none of its children *)
(* has exited and no signal is pending.                                    *)
LEMMA WaitpidWakes ==
  ASSUME WakeInv, NEW p \in Proc, WaitpidLocked(p)
  PROVE  Places' /\ \A r \in Proc : Quiet(r)' => Waits(r)'
<1> USE ProcessAssumption
<1> DEFINE zombies == {c \in Matching(p) : Reapable(c)}
           exiting == \E c \in Matching(p) : state[c] = "exited"
<1>1. /\ at[p] = "locked" /\ op[p] = "waitpid"
      /\ UNCHANGED <<pending, notify, sigwake, stopped, phase, token>>
  BY Zenon DEF WaitpidLocked, InSection
<1>2. CASE \E c \in zombies : Reap(c) /\ Return(p)
  <2>0. Return(p) /\ \E c \in Proc : parent[c] = p /\ Reapable(c) /\ Reap(c)
    BY <1>2, Zenon DEF Matching
  <2>1. Places' /\ \A r \in Proc \ {p} : Quiet(r)' => Waits(r)'
    BY <1>1, <2>0, RoundWakes, Zenon
  <2>2. ~Watching(p)'
    BY <1>1, <2>0, ReturnEnds, Zenon
  <2> QED
    BY <2>1, <2>2, Zenon DEF Quiet
<1>3. CASE Return(p) /\ UNCHANGED tableVars
  <2>1. Places' /\ \A r \in Proc \ {p} : Quiet(r)' => Waits(r)'
    BY <1>1, <1>3, RoundWakes, Zenon DEF tableVars
  <2>2. ~Watching(p)'
    BY <1>1, <1>3, ReturnEnds, Zenon
  <2> QED
    BY <2>1, <2>2, Zenon DEF Quiet
<1>4. CASE /\ Matching(p) # {} /\ ~Interrupted(p)
           /\ WaitMore(p, exiting) /\ UNCHANGED tableVars
  <2>1. p # Init1 /\ exiting \in BOOLEAN /\ UNCHANGED <<state, parent, waiter>>
    BY <1>1, <1>4, Zenon DEF tableVars, WakeInv, Places, Place, InitPlace
  <2>2. Places' /\ \A r \in Proc \ {p} : Quiet(r)' => Waits(r)'
    BY <1>1, <1>4, <2>1, RoundWakes, Zenon
  <2>3. Quiet(p)' => Waits(p)'
    <3>1. phase[p] = "awake"
      BY <1>1, SectionAwake, Zenon
    <3>2. /\ at \in [Proc -> {"user", "lock", "locked", "block", "sleep", "notify", "leave", "left"}]
          /\ at' = [at EXCEPT ![p] = IF exiting THEN "sleep" ELSE "block"]
          /\ UNCHANGED <<op, target>>
      BY <1>4, Zenon DEF WaitMore, callVars, WakeInv, ProcInv, TypeOK
    <3>3. Watching(p)' => ~exiting
      BY <1>1, <3>1, <3>2, Zenon DEF Watching
    <3>4. Matching(p)' = Matching(p)
      BY <2>1, <3>2, Zenon DEF Matching
    <3> QED
      BY <1>1, <1>4, <2>1, <3>2, <3>3, <3>4, Zenon DEF Quiet, Waits, Interrupted
  <2> QED
    BY <2>2, <2>3, Zenon
<1> QED
  BY <1>2, <1>3, <1>4, Zenon DEF WaitpidLocked

-----------------------------------------------------------------------------
(* Exit.                                                                   *)

(* process_terminate: the parent has a wake-up on the way, and nobody      *)
(* else's children change, but for those of PID 1.                         *)
LEMMA ExitWakes ==
  ASSUME WakeInv, NEW p \in Proc, ExitLocked(p)
  PROVE  Places' /\ \A r \in Proc : Quiet(r)' => Waits(r)'
<1> USE ProcessAssumption
<1>1. /\ at[p] = "locked" /\ op[p] = "exit" /\ p # Init1 /\ p \notin stopped
      /\ UnblockThread(waiter[p]) /\ waiter[p] \in Proc \cup {NoProc}
      /\ UNCHANGED <<op, target, nohang, sigwake, stopped>>
      /\ at' = [at EXCEPT ![p] = "notify"] /\ notify' = [notify EXCEPT ![p] = parent[p]]
      /\ \A r \in Proc : r # parent[p] => pending'[r] = pending[r]
  <2>1. at[p] = "locked" /\ op[p] = "exit"
    BY Zenon DEF ExitLocked, InSection
  <2>2. p # Init1 /\ Place(p)
    BY <2>1, Zenon DEF WakeInv, ProcInv, Lives, Places
  <2>3. waiter[p] \in Proc \cup {NoProc} /\ pending \in [Proc -> SUBSET {"KILL", "HANDLED"}]
    BY Zenon DEF WakeInv, ProcInv, TypeOK
  <2> QED
    BY <2>1, <2>2, <2>3, Zenon DEF ExitLocked, callVars, ParentToWake, Place
<1>2. \A r \in Proc : /\ phase'[r] \in {phase[r], "awake"}
                      /\ phase[r] = "dead" => phase'[r] = "dead"
                      /\ token[r] => token'[r]
  BY <1>1, UnblockOthers, Zenon
<1>3. phase[p] = "awake" /\ phase'[p] = "awake"
  BY <1>1, <1>2, SectionAwake, Zenon
<1>4. at'[p] = "notify" /\ \A r \in Proc \ {p} : at'[r] = at[r] /\ notify'[r] = notify[r]
  BY <1>1 DEF WakeInv, ProcInv, TypeOK
<1>5. Places'
  <2>1. ASSUME NEW r \in Proc PROVE Place(r)'
    <3>1. Place(r)
      BY Zenon DEF WakeInv, Places
    <3>2. CASE r = p
      BY <1>1, <1>2, <1>3, <1>4, <3>1, <3>2, Zenon DEF Place
    <3>3. CASE r # p
      BY <1>1, <1>2, <1>3, <1>4, <3>1, <3>3, Zenon DEF Place
    <3> QED
      BY <3>2, <3>3, Zenon
  <2>2. InitPlace'
    BY <1>1, <1>2, <1>3, <1>4, Zenon DEF WakeInv, Places, InitPlace
  <2> QED
    BY <2>1, <2>2, Zenon DEF Places
<1>6. ASSUME NEW r \in Proc, Quiet(r)' PROVE Waits(r)'
  <2>1. notify \in [Proc -> Proc \cup {NoProc}] /\ at'[p] = "notify"
    BY <1>1, Zenon DEF WakeInv, ProcInv, TypeOK
  <2>2. r # p /\ r # parent[p] /\ Watching(r)
    BY <1>1, <1>2, <1>3, <1>4, <1>6, <2>1, Zenon DEF Quiet, Watching
  <2>3. r # Init1
    BY <2>2, Zenon DEF Watching, WakeInv, Places, Place, InitPlace
  <2>4. \A q \in Proc : notify[q] # r
    <3>1. notify[p] = NoProc
      BY <1>1, Zenon DEF WakeInv, Places, Place, InitPlace
    <3> QED
      BY <1>1, <1>6, <2>1, <3>1, ZenonT(60) DEF Quiet
  <2>5. Quiet(r)
    BY <1>1, <1>6, <2>2, <2>4, Zenon DEF Quiet
  <2>6. \A c \in Proc : /\ Child(c, r) <=> Child(c, r)'
                        /\ Child(c, r) => waiter'[c] = waiter[c] /\ state'[c] = state[c]
    BY <2>2, <2>3, Zenon DEF ExitLocked, Reparented, Unwaited, Child, WakeInv, ProcInv, TypeOK
  <2> QED
    BY <1>1, <2>2, <2>5, <2>6, WaitsKept, Zenon
<1> QED
  BY <1>5, <1>6, Zenon

(* A wake-up that was on the way arrives. *)
LEMMA ArrivalWakes ==
  ASSUME WakeInv, NEW p \in Proc, Notify(p) \/ SignalWake(p)
  PROVE  Places' /\ \A r \in Proc : Quiet(r)' => Waits(r)'
<1> USE ProcessAssumption
<1>1. /\ UNCHANGED <<state, parent, waiter, op, target, nohang, pending, stopped>>
      /\ \A r \in Proc \ {p} : at'[r] = at[r] /\ notify'[r] = notify[r]
      /\ \/ at'[p] = at[p] /\ notify'[p] = notify[p]
         \/ at[p] = "notify" /\ at'[p] = "leave" /\ notify'[p] = NoProc
  BY DEF Notify, SignalWake, tableVars, callVars, WakeInv, ProcInv, TypeOK
<1>2. PICK t \in Proc \cup {NoProc} :
        /\ UnblockThread(t)
        /\ \A r \in Proc : r # t => (r \in sigwake => r \in sigwake') /\ (notify[p] = r => notify'[p] = r)
  <2>1. CASE Notify(p)
    <3>1. notify[p] \in Proc \cup {NoProc} /\ UnblockThread(notify[p]) /\ sigwake' = sigwake
      BY <2>1, Zenon DEF Notify, WakeInv, ProcInv, TypeOK
    <3> QED
      BY <3>1, Zenon
  <2>2. CASE SignalWake(p)
    BY <2>2, Zenon DEF SignalWake
  <2> QED
    BY <2>1, <2>2, Zenon
<1>3. \A r \in Proc : /\ phase'[r] \in {phase[r], "awake"}
                      /\ phase[r] = "dead" => phase'[r] = "dead"
                      /\ token[r] => token'[r]
  BY <1>2, UnblockOthers, Zenon
<1>4. Places'
  <2>1. ASSUME NEW r \in Proc PROVE Place(r)'
    <3>1. Place(r)
      BY Zenon DEF WakeInv, Places
    <3>2. CASE r = p
      BY <1>1, <1>3, <3>1, <3>2, Zenon DEF Place
    <3>3. CASE r # p
      BY <1>1, <1>3, <3>1, <3>3, Zenon DEF Place
    <3> QED
      BY <3>2, <3>3, Zenon
  <2>2. InitPlace'
    BY <1>1, <1>3, Zenon DEF WakeInv, Places, InitPlace
  <2> QED
    BY <2>1, <2>2, Zenon DEF Places
<1>5. ASSUME NEW r \in Proc, Quiet(r)' PROVE Waits(r)'
  <2>1. at'[r] = "block" => at[r] = "block"
    BY <1>1, Zenon
  <2>2. r # t
    BY <1>2, <1>5, <2>1, UnblockEnds, Zenon DEF Quiet
  <2>3. Watching(r)
    BY <1>3, <1>5, <2>1, Zenon DEF Quiet, Watching
  <2>4. Quiet(r)
    BY <1>1, <1>2, <1>5, <2>2, <2>3, Zenon DEF Quiet
  <2>5. \A c \in Proc : Child(c, r) <=> Child(c, r)'
    BY <1>1, Zenon DEF Child
  <2> QED
    BY <1>1, <2>4, <2>5, WaitsKept, Zenon
<1> QED
  BY <1>4, <1>5, Zenon

(* A thread that has exited leaves the scheduler, then the processor. *)
LEMMA LeaveWakes ==
  ASSUME WakeInv, NEW p \in Proc, Leave(p) \/ Stop(p)
  PROVE  Places' /\ \A r \in Proc : Quiet(r)' => Waits(r)'
<1> USE ProcessAssumption
<1>1. /\ UNCHANGED <<state, parent, waiter, op, target, nohang, pending, notify, sigwake, token>>
      /\ \A r \in Proc \ {p} : at'[r] = at[r] /\ phase'[r] = phase[r]
      /\ at[p] \in {"leave", "left"} /\ at'[p] = "left" /\ phase'[p] \in {phase[p], "dead"}
      /\ stopped' \in SUBSET (stopped \cup {p})
  BY DEF Leave, SW!Die, SW!Expired, Stop, tableVars, callVars, WakeInv, ProcInv, TypeOK, SW!SWTypeOK
<1>2. Places'
  <2>1. ASSUME NEW r \in Proc PROVE Place(r)'
    <3>1. Place(r)
      BY Zenon DEF WakeInv, Places
    <3>2. CASE r = p
      BY <1>1, <3>1, <3>2, Zenon DEF Place
    <3>3. CASE r # p
      BY <1>1, <3>1, <3>3, Zenon DEF Place
    <3> QED
      BY <3>2, <3>3, Zenon
  <2>2. InitPlace'
    BY <1>1, Zenon DEF WakeInv, Places, InitPlace
  <2> QED
    BY <2>1, <2>2, Zenon DEF Places
<1>3. ASSUME NEW r \in Proc, Quiet(r)' PROVE Waits(r)'
  <2>1. Quiet(r)
    BY <1>1, <1>3, Zenon DEF Quiet, Watching
  <2>2. \A c \in Proc : Child(c, r) <=> Child(c, r)'
    BY <1>1, Zenon DEF Child
  <2> QED
    BY <1>1, <2>1, <2>2, WaitsKept, Zenon
<1> QED
  BY <1>2, <1>3, Zenon

-----------------------------------------------------------------------------
(* The theorem.                                                            *)

(* Every step keeps the invariant. *)
LEMMA WakeStep == WakeInv /\ [Next]_vars => WakeInv'
<1> SUFFICES ASSUME WakeInv, [Next]_vars PROVE WakeInv'
  BY Zenon
<1>1. ProcInv'
  BY ProcStep, Zenon DEF WakeInv
<1>2. CASE Next
  <2>1. Places' /\ \A r \in Proc : Quiet(r)' => Waits(r)'
    <3>1. PICK p \in Proc :
            \/ Exit(p) \/ Lock(p) \/ StartLocked(p) \/ WaitLocked(p) \/ WaitpidLocked(p)
            \/ Pause(p) \/ Expire(p) \/ ExitLocked(p) \/ Notify(p) \/ Leave(p) \/ Stop(p)
            \/ InitReap(p) \/ SignalWake(p)
            \/ \E c \in Proc : Fork(p, c)
            \/ \E o \in Calls, c \in Proc \cup {NoProc}, nh \in BOOLEAN : Wait(p, o, c, nh)
            \/ \E s \in {"KILL", "HANDLED"} : SignalSend(p, s) \/ SignalDeliver(p, s)
      BY <1>2, Zenon DEF Next
    <3>2. CASE \/ Exit(p)
               \/ \E o \in Calls, c \in Proc \cup {NoProc}, nh \in BOOLEAN : Wait(p, o, c, nh)
               \/ \E s \in {"KILL", "HANDLED"} : SignalDeliver(p, s)
      BY <3>2, CallWakes, Zenon
    <3>3. CASE InitReap(p)
      BY <3>3, ProcessAssumption, CallWakes, Zenon
    <3>4. CASE \E c \in Proc : Fork(p, c)
      BY <3>4, ForkWakes, Zenon
    <3>5. CASE \E s \in {"KILL", "HANDLED"} : SignalSend(p, s)
      BY <3>5, SendWakes, Zenon
    <3>6. CASE Lock(p) \/ Pause(p) \/ Expire(p)
      BY <3>6, PauseWakes, Zenon
    <3>7. CASE StartLocked(p) \/ WaitLocked(p) \/ WaitpidLocked(p)
      BY <3>7, StartWakes, WaitWakes, WaitpidWakes, Zenon
    <3>8. CASE ExitLocked(p) \/ Notify(p) \/ SignalWake(p) \/ Leave(p) \/ Stop(p)
      BY <3>8, ExitWakes, ArrivalWakes, LeaveWakes, Zenon
    <3> QED
      BY <3>1, <3>2, <3>3, <3>4, <3>5, <3>6, <3>7, <3>8, Zenon
  <2> QED
    BY <1>1, <2>1, Zenon DEF WakeInv
<1>3. CASE UNCHANGED vars
  <2>1. Places'
    BY <1>3, Zenon DEF vars, tableVars, callVars, WakeInv, Places, Place, InitPlace
  <2>2. ASSUME NEW r \in Proc, Quiet(r)' PROVE Waits(r)'
    BY <1>3, <2>2, Zenon DEF vars, tableVars, callVars, WakeInv, Quiet, Watching, Waits, Matching
  <2> QED
    BY <1>1, <2>1, <2>2, Zenon DEF WakeInv
<1> QED
  BY <1>2, <1>3, Zenon

(* No parent stays blocked in process_wait or process_waitpid when one of  *)
(* the children it waits for has exited, or, in process_waitpid, when a    *)
(* signal is pending, unless its wake-up is on the way: not even when the  *)
(* child exits after the parent has left the critical section and before   *)
(* it has blocked.                                                         *)
THEOREM WakeupsAreNotLost == Spec => []NoLostWakeup
<1>1. WakeInv => NoLostWakeup
  BY Zenon DEF WakeInv, Quiet, Watching, Waits, NoLostWakeup
<1> QED
  BY <1>1, WakeInitially, WakeStep, PTL DEF Spec
==============================================================================
