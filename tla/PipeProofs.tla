----------------------------- MODULE PipeProofs -----------------------------
(***************************************************************************)
(* The safety of a pipe, for every number of threads, every capacity and   *)
(* every length of the waiter lists: the ring is a bounded first-in        *)
(* first-out stream of bytes, an end is open exactly until its release, no *)
(* call finds its pipe gone, and no wake-up is lost.                       *)
(*                                                                         *)
(* PipeInv says how far a thread is in its call, and that an end is        *)
(* released by one thread when nobody has a descriptor for it any more.    *)
(* As in ProcessProofs, what NoLostWakeup says of a blocked thread holds   *)
(* from the moment it has left the critical section with no wake-up        *)
(* remembered (WakeInv).                                                   *)
(***************************************************************************)
EXTENDS Pipe, SequenceTheorems, TLAPS

(* t has still to release end e. *)
Releasing(t, e) == op[t] = "release" /\ at[t] # "wake" /\ end[t] = e

(* How far t is in its call. *)
InCall(t) ==
  /\ op[t] = "none" <=> at[t] = "user"
  /\ at[t] = "locked" <=> mutex = t
  /\ at[t] \in {"block", "sleep"} => op[t] \in End
  /\ wake[t] # {} => at[t] = "wake"
  /\ phase[t] # "dead" /\ (phase[t] # "awake" => at[t] = "lock")
  /\ op[t] = "read" => want[t] > 0
  /\ op[t] = "write" /\ at[t] # "wake" => rest[t] # <<>>
  /\ op[t] \in End => t \in fds[op[t]]

(* End e counts as open. *)
Held(e) == fds[e] # {} \/ \E t \in Thread : Releasing(t, e)

Ends ==
  /\ readers = IF Held("read") THEN 1 ELSE 0
  /\ writers = IF Held("write") THEN 1 ELSE 0
  /\ used <=> Held("read") \/ Held("write")
  /\ \A t \in Thread, e \in End : Releasing(t, e) => fds[e] = {}
  /\ \A t, u \in Thread, e \in End : Releasing(t, e) /\ Releasing(u, e) => t = u

PipeInv == TypeOK /\ Ends /\ \A t \in Thread : InCall(t)

(* The type invariant in parts. *)
PipeTypes ==
  /\ used \in BOOLEAN /\ buffer \in [Index -> Byte] /\ head \in Index /\ count \in 0 .. Capacity
  /\ readers \in {0, 1} /\ writers \in {0, 1}
  /\ read_waiters \in SUBSET Thread /\ write_waiters \in SUBSET Thread

CallTypes ==
  /\ op \in [Thread -> {"none", "read", "write", "release"}]
  /\ at \in [Thread -> {"user", "lock", "locked", "wake", "block", "sleep"}]
  /\ want \in [Thread -> 0 .. MaxCount] /\ rest \in [Thread -> Seq(Byte)]
  /\ nonblock \in [Thread -> BOOLEAN] /\ end \in [Thread -> End]

OtherTypes ==
  /\ mutex \in Thread \cup {NoThread} /\ wake \in [Thread -> SUBSET Thread]
  /\ fds \in [End -> SUBSET Thread] /\ sig \in SUBSET Thread /\ sigwake \in SUBSET Thread
  /\ SW!SWTypeOK

(* What is left alone of the calls of the threads other than t. *)
Others(t) ==
  \A u \in Thread \ {t} :
    /\ op'[u] = op[u] /\ at'[u] = at[u] /\ want'[u] = want[u] /\ rest'[u] = rest[u]
    /\ nonblock'[u] = nonblock[u] /\ end'[u] = end[u] /\ wake'[u] = wake[u]
    /\ mutex' = u <=> mutex = u
    /\ phase'[u] \in {phase[u], "awake"} /\ (token[u] => token'[u])

(* The steps of t. *)
Section(t) == ReadLocked(t) \/ WriteLocked(t) \/ ReleaseLocked(t)

Start(t) ==
  \E n \in 1 .. MaxCount, nb \in Modes :
    Read(t, n, nb) \/ \E bytes \in [1 .. n -> Byte] : Write(t, bytes, nb)

Signal(t) == SignalSend(t) \/ SignalWake(t) \/ SignalDeliver(t)

(* The bytes in the ring, in the order in which they were written. *)
Queue == [i \in 1 .. count |-> buffer[(head + i - 1) % Capacity]]

-----------------------------------------------------------------------------
(* The ring.                                                               *)

(* An index that runs past an end of the ring comes back at the other. *)
LEMMA Wraps ==
  ASSUME NEW x \in Int
  PROVE  /\ x \in 0 .. Capacity - 1 => x % Capacity = x
         /\ x \in Capacity .. 2 * Capacity - 1 => x % Capacity = x - Capacity
         /\ x \in -Capacity .. -1 => x % Capacity = x + Capacity
         /\ x \in -2 * Capacity .. -Capacity - 1 => x % Capacity = x + 2 * Capacity
BY PipeAssumption

(* A pipe that is cleared is well formed. *)
LEMMA EmptyRing == 0 \in Index /\ 0 \in 0 .. Capacity /\ [i \in Index |-> 0] \in [Index -> Byte]
<1>1. 0 \in Index /\ 0 \in 0 .. Capacity
  BY PipeAssumption DEF Index
<1> QED
  BY <1>1, PipeAssumption, Zenon

(* The queue is a sequence of bytes. *)
LEMMA QueueTypes ==
  ASSUME TypeOK
  PROVE  /\ Queue \in Seq(Byte) /\ Len(Queue) = count
         /\ \A i \in 1 .. count : Queue[i] = buffer[(head + i - 1) % Capacity]
<1>1. \A i \in 1 .. count : (head + i - 1) % Capacity \in Index
  BY PipeAssumption DEF TypeOK, Index
<1>2. Queue \in [1 .. count -> Byte]
  BY <1>1, Zenon DEF TypeOK, Queue
<1>3. count \in Nat
  BY PipeAssumption DEF TypeOK
<1> QED
  BY <1>2, <1>3, IsASeq, LenProperties DEF Queue

(* What pipe_read takes from the ring is the front of the queue. *)
LEMMA TakeReads ==
  ASSUME TypeOK, NEW n \in 1 .. count,
         head' = Advanced(n), count' = count - n, buffer' = buffer
  PROVE  /\ Queue' = SubSeq(Queue, n + 1, Len(Queue))
         /\ [i \in 1 .. n |-> buffer[ReadIndex(i - 1)]] = SubSeq(Queue, 1, n)
<1> DEFINE C == Capacity
<1>1. C \in Nat \ {0} /\ head \in 0 .. C - 1 /\ count \in 0 .. C /\ n \in 1 .. C
  BY PipeAssumption DEF TypeOK, Index
<1> HIDE DEF C
<1>2. \A i \in 1 .. count - n : (head' + i - 1) % C = (head + (i + n) - 1) % C
  <2> SUFFICES ASSUME NEW i \in 1 .. count - n
               PROVE  (head' + i - 1) % C = (head + (i + n) - 1) % C
    BY Zenon
  <2>1. head' = (head + n) % C
    BY Zenon DEF Advanced, C
  <2>2. CASE head + n < C
    <3>1. head' = head + n
      BY <1>1, <2>1, <2>2, Wraps DEF C
    <3> QED
      BY <1>1, <3>1
  <2>3. CASE head + n >= C
    <3>1. head' = head + n - C
      BY <1>1, <2>1, <2>3, Wraps DEF C
    <3>2. (head' + i - 1) % C = head' + i - 1
      <4>1. head' + i - 1 \in Int /\ head' + i - 1 \in 0 .. C - 1
        BY <1>1, <2>3, <3>1
      <4> QED
        BY <4>1, Wraps, Zenon DEF C
    <3>3. (head + (i + n) - 1) % C = head + (i + n) - 1 - C
      BY <1>1, <2>3, Wraps DEF C
    <3> QED
      BY <1>1, <3>1, <3>2, <3>3
  <2> QED
    BY <1>1, <2>2, <2>3
<1>3. Queue \in Seq(Byte) /\ Len(Queue) = count
      /\ \A i \in 1 .. count : Queue[i] = buffer[(head + i - 1) % C]
  BY QueueTypes, Zenon DEF C
<1>4. Queue' = [i \in 1 .. count - n |-> buffer[(head' + i - 1) % C]]
  BY Zenon DEF Queue, C
<1>5. SubSeq(Queue, n + 1, count) = [i \in 1 .. count - n |-> Queue[i + n]]
  BY <1>1, <1>3
<1>6. SubSeq(Queue, 1, n) = [i \in 1 .. n |-> Queue[i]]
  BY <1>1, <1>3
<1>7. \A i \in 1 .. count - n : Queue[i + n] = buffer[(head' + i - 1) % C]
  <2>1. \A i \in 1 .. count - n : i + n \in 1 .. count
    BY <1>1
  <2> QED
    BY <1>2, <1>3, <2>1, Zenon
<1>8. ASSUME NEW i \in 1 .. n PROVE Queue[i] = buffer[ReadIndex(i - 1)]
  <2>1. i \in 1 .. count /\ head + i - 1 = head + (i - 1)
    BY <1>1
  <2> QED
    BY <1>3, <2>1, Zenon DEF ReadIndex, C
<1> QED
  BY <1>3, <1>4, <1>5, <1>6, <1>7, <1>8, ZenonT(60)

(* Position i of the queue as an index of the ring, and that index as      *)
(* pipe_write counts from the end of the queue.                            *)
LEMMA Positions ==
  ASSUME TypeOK, NEW i \in 1 .. Capacity
  PROVE  LET k == (head + i - 1) % Capacity
         IN /\ k \in 0 .. Capacity - 1
            /\ (k - head - count) % Capacity
                 = IF i <= count THEN (i - 1 - count) + Capacity ELSE i - 1 - count
<1> DEFINE C == Capacity
           x == head + i - 1
           y == i - 1 - count
<1>1. C \in Nat \ {0} /\ head \in 0 .. C - 1 /\ count \in 0 .. C /\ i \in 1 .. C
  BY PipeAssumption, Zenon DEF TypeOK, Index
<1> HIDE DEF C
<1>2. /\ x \in 0 .. 2 * C - 1 /\ (x - head) - count = y
      /\ IF i <= count THEN y \in -C .. -1 ELSE y \in 0 .. C - 1
  BY <1>1
<1>3. y % C = IF i <= count THEN y + C ELSE y
  <2>1. y \in Int
    BY <1>1
  <2> HIDE DEF y
  <2> QED
    BY <1>1, <1>2, <2>1, Wraps, Zenon DEF C
<1>4. (y - C) % C = y % C
  <2>1. y \in Int /\ y - C \in Int
    BY <1>1
  <2> HIDE DEF y
  <2>2. CASE i <= count
    <3>1. y - C \in -2 * C .. -C - 1
      BY <1>1, <1>2, <2>1, <2>2
    <3>2. (y - C) % C = (y - C) + 2 * C
      BY <2>1, <3>1, Wraps, Zenon DEF C
    <3> QED
      BY <1>1, <1>3, <2>1, <2>2, <3>2
  <2>3. CASE ~(i <= count)
    <3>1. y - C \in -C .. -1
      BY <1>1, <1>2, <2>1, <2>3
    <3>2. (y - C) % C = (y - C) + C
      BY <2>1, <3>1, Wraps, Zenon DEF C
    <3> QED
      BY <1>1, <1>3, <2>1, <2>3, <3>2
  <2> QED
    BY <2>2, <2>3, Zenon
<1>5. x % C \in 0 .. C - 1 /\ ((x % C) - head) - count \in {y, y - C}
  <2>1. x \in Int
    BY <1>1
  <2>2. x % C = x \/ x % C = x - C
    <3> HIDE DEF x
    <3> QED
      BY <1>1, <1>2, <2>1, Wraps DEF C
  <2>3. x % C \in 0 .. C - 1
    <3> HIDE DEF x
    <3> QED
      BY <1>1, <2>1
  <2> QED
    BY <1>1, <1>2, <2>2, <2>3
<1> QED
  BY <1>3, <1>4, <1>5, Zenon DEF C

(* What pipe_write puts into the ring is what it appends to the queue. *)
LEMMA PutWrites ==
  ASSUME TypeOK, NEW bytes \in Seq(Byte), NEW n \in 1 .. Len(bytes), n <= Capacity - count,
         buffer' = [i \in Index |->
                      LET k == (i - head - count) % Capacity
                      IN IF k < n THEN bytes[k + 1] ELSE buffer[i]],
         count' = count + n, head' = head
  PROVE  Queue' = Queue \o SubSeq(bytes, 1, n)
<1> DEFINE At(i) == (head + i - 1) % Capacity
           K(i) == (i - head - count) % Capacity
<1>1. /\ Capacity \in Nat /\ count \in Nat /\ n \in Nat \ {0}
      /\ n <= Capacity - count /\ count + n <= Capacity /\ Len(bytes) \in Nat
  BY PipeAssumption DEF TypeOK, Index
<1>2. buffer' = [i \in 0 .. Capacity - 1 |-> IF K(i) < n THEN bytes[K(i) + 1] ELSE buffer[i]]
  BY Zenon DEF Index
<1>3. Queue' = [i \in 1 .. count + n |-> buffer'[At(i)]]
  BY DEF Queue
<1>4. ASSUME NEW i \in 1 .. count + n
      PROVE  /\ At(i) \in 0 .. Capacity - 1
             /\ K(At(i)) = IF i <= count THEN (i - 1 - count) + Capacity ELSE i - 1 - count
  <2>1. i \in 1 .. Capacity
    BY <1>1
  <2> QED
    BY <2>1, Positions, Zenon
<1>5. /\ Queue \in Seq(Byte) /\ Len(Queue) = count
      /\ \A i \in 1 .. count : Queue[i] = buffer[At(i)]
  BY QueueTypes, Zenon
<1> DEFINE b == SubSeq(bytes, 1, n)
<1>6. b \in Seq(Byte) /\ Len(b) = n /\ \A i \in 1 .. n : b[i] = bytes[i]
  BY <1>1
<1> HIDE DEF At, K, b
<1>7. ASSUME NEW i \in 1 .. count + n
      PROVE  buffer'[At(i)] = IF i <= count THEN Queue[i] ELSE b[i - count]
  <2>1. CASE i <= count
    <3>1. i \in 1 .. count /\ ~((i - 1 - count) + Capacity < n)
      BY <1>1, <2>1
    <3> QED
      BY <1>2, <1>4, <1>5, <2>1, <3>1, Zenon
  <2>2. CASE ~(i <= count)
    <3>1. i - 1 - count < n /\ (i - 1 - count) + 1 = i - count /\ i - count \in 1 .. n
      BY <1>1, <2>2
    <3> QED
      BY <1>2, <1>4, <1>6, <2>2, <3>1, Zenon
  <2> QED
    BY <2>1, <2>2, Zenon
<1>8. Queue \o b = [i \in 1 .. count + n |-> IF i <= count THEN Queue[i] ELSE b[i - count]]
  <2> DEFINE q == Queue \o b
  <2>1. /\ q \in Seq(Byte) /\ Len(q) = count + n
        /\ \A i \in 1 .. count + n : q[i] = IF i <= count THEN Queue[i] ELSE b[i - count]
    BY <1>5, <1>6, ConcatProperties, ZenonT(60)
  <2> HIDE DEF q
  <2>2. DOMAIN q = 1 .. count + n /\ q = [i \in DOMAIN q |-> q[i]]
    BY <2>1
  <2>3. q = [i \in 1 .. count + n |-> IF i <= count THEN Queue[i] ELSE b[i - count]]
    BY <2>1, <2>2, Zenon
  <2> QED
    BY <2>3, Zenon DEF q
<1> QED
  BY <1>3, <1>7, <1>8, Zenon DEF b

-----------------------------------------------------------------------------
(* What a step leaves alone.                                               *)

(* The blocking primitives change one thread. *)
LEMMA OnePhase ==
  ASSUME SW!SWTypeOK, NEW t \in Thread,
         SW!Block(t, {}) \/ SW!Sleep(t, {}) \/ SW!Expire({t}) \/ SW!Unblock(t)
  PROVE  /\ SW!SWTypeOK'
         /\ phase'[t] = "dead" => phase[t] = "dead"
         /\ \A u \in Thread \ {t} : phase'[u] = phase[u] /\ token'[u] = token[u]
<1>1. /\ phase \in [Thread -> {"dead", "awake", "blocked", "timed"}]
      /\ token \in [Thread -> BOOLEAN]
  BY Zenon DEF SW!SWTypeOK
<1>2. ASSUME NEW v \in {"blocked", "timed"}
      PROVE  SW!Expired([phase EXCEPT ![t] = v], {}) = [phase EXCEPT ![t] = v]
  BY <1>1, Zenon DEF SW!Expired
<1>3. CASE SW!Block(t, {})
  <2>1. phase' = phase \/ phase' = [phase EXCEPT ![t] = "blocked"]
    BY <1>2, <1>3, Zenon DEF SW!Block
  <2>2. token' = [token EXCEPT ![t] = FALSE]
    BY <1>3, Zenon DEF SW!Block
  <2> QED
    BY <1>1, <2>1, <2>2, Zenon DEF SW!SWTypeOK
<1>4. CASE SW!Sleep(t, {})
  <2>1. phase' = [phase EXCEPT ![t] = "timed"] /\ token' = [token EXCEPT ![t] = FALSE]
    BY <1>2, <1>4, Zenon DEF SW!Sleep
  <2> QED
    BY <1>1, <2>1, Zenon DEF SW!SWTypeOK
<1>5. CASE SW!Expire({t})
  BY <1>1, <1>5, Zenon DEF SW!Expire, SW!Expired, SW!SWTypeOK
<1>6. CASE SW!Unblock(t)
  BY <1>1, <1>6, Zenon DEF SW!Unblock, SW!SWTypeOK
<1> QED
  BY <1>3, <1>4, <1>5, <1>6, Zenon

(* scheduler_unblock leaves a thread awake or with a wake-up remembered. *)
LEMMA UnblockWakes ==
  ASSUME SW!SWTypeOK, NEW t \in Thread, phase[t] # "dead", SW!Unblock(t)
  PROVE  phase'[t] = "awake" /\ (phase[t] = "awake" \/ token[t] => token'[t])
<1>1. /\ phase \in [Thread -> {"dead", "awake", "blocked", "timed"}]
      /\ token \in [Thread -> BOOLEAN]
  BY Zenon DEF SW!SWTypeOK
<1> QED
  BY <1>1, Zenon DEF SW!Unblock, SW!Asleep

(* A timeout ends a sleep and nothing else. *)
LEMMA ExpireWakes ==
  ASSUME SW!SWTypeOK, NEW t \in Thread, SW!Expire({t})
  PROVE  phase'[t] = (IF phase[t] = "timed" THEN "awake" ELSE phase[t]) /\ token' = token
BY Zenon DEF SW!SWTypeOK, SW!Expire, SW!Expired

(* A step of t changes the call of no other thread, and may wake one. *)
LEMMA OthersKept ==
  ASSUME PipeInv, NEW t \in Thread,
         \/ Create(t) \/ (\E child \in Thread : Fork(t, child)) \/ Start(t)
         \/ (\E e \in End : Close(t, e)) \/ Lock(t) \/ Section(t)
         \/ WakeStep(t) \/ Wait(t) \/ Expire(t) \/ Signal(t)
  PROVE  Others(t)
<1>1. /\ DOMAIN op = Thread /\ DOMAIN at = Thread /\ DOMAIN want = Thread
      /\ DOMAIN rest = Thread /\ DOMAIN nonblock = Thread /\ DOMAIN end = Thread
      /\ DOMAIN wake = Thread /\ wake \in [Thread -> SUBSET Thread] /\ SW!SWTypeOK
  BY Zenon DEF PipeInv, TypeOK
<1>2. \A u \in Thread : phase[u] # "dead"
  BY Zenon DEF PipeInv, InCall
<1>3. CASE Create(t)
  BY <1>3, Zenon DEF Create, callVars, Others
<1>4. CASE \E child \in Thread : Fork(t, child)
  BY <1>4, Zenon DEF Fork, callVars, Others
<1>5. CASE Start(t)
  BY <1>1, <1>5, ZenonT(60) DEF Start, Read, Write, Others
<1>6. CASE \E e \in End : Close(t, e)
  BY <1>1, <1>6, Zenon DEF Close, callVars, Others
<1>7. CASE Lock(t)
  <2>1. CASE UNCHANGED <<phase, token>> /\ mutex = NoThread /\ mutex' = t /\ at' = [at EXCEPT ![t] = "locked"]
    BY <1>1, <1>7, <2>1, PipeAssumption, Zenon DEF Lock, callVars, Others
  <2>2. CASE SW!Sleep(t, {}) /\ UNCHANGED <<mutex, at>>
    BY <1>1, <1>7, <2>2, OnePhase, Zenon DEF Lock, callVars, Others
  <2> QED
    BY <1>7, <2>1, <2>2, Zenon DEF Lock
<1>8. CASE Section(t)
  <2>1. mutex = t /\ mutex' = NoThread /\ UNCHANGED <<phase, token>>
    BY <1>8, Zenon DEF Section, ReadLocked, WriteLocked, ReleaseLocked, InSection
  <2>2. \A u \in Thread \ {t} : mutex' # u /\ mutex # u
    BY <2>1, PipeAssumption, Zenon
  <2>3. /\ (wake' = wake \/ \E T : wake' = [wake EXCEPT ![t] = T])
        /\ (\E l : at' = [at EXCEPT ![t] = l])
        /\ \/ UNCHANGED callVars \/ Return(t)
           \/ UNCHANGED <<op, want, nonblock, end>> /\ \E b : rest' = [rest EXCEPT ![t] = b]
    <3>1. CASE ReadLocked(t)
      BY <3>1, Zenon DEF ReadLocked, TakeWriters, WakeAfter, Return
    <3>2. CASE WriteLocked(t)
      BY <3>2, Zenon DEF WriteLocked, WakeAfter, Return
    <3>3. CASE ReleaseLocked(t)
      BY <3>3, Zenon DEF ReleaseLocked, WakeAfter
    <3> QED
      BY <1>8, <3>1, <3>2, <3>3, Zenon DEF Section
  <2>4. \A u \in Thread \ {t} :
          /\ op'[u] = op[u] /\ want'[u] = want[u] /\ rest'[u] = rest[u]
          /\ nonblock'[u] = nonblock[u] /\ end'[u] = end[u]
    BY <1>1, <2>3, ZenonT(60) DEF callVars, Return
  <2>5. \A u \in Thread \ {t} : at'[u] = at[u] /\ wake'[u] = wake[u]
    BY <1>1, <2>3, Zenon
  <2> QED
    BY <2>1, <2>2, <2>4, <2>5, Zenon DEF Others
<1>9. CASE WakeStep(t)
  <2>1. CASE wake[t] # {}
    <3>1. PICK u \in wake[t] : SW!Unblock(u) /\ wake' = [wake EXCEPT ![t] = @ \ {u}]
      BY <1>9, <2>1, Zenon DEF WakeStep
    <3>2. u \in Thread
      BY <1>1, Zenon
    <3>3. \A v \in Thread : phase'[v] \in {phase[v], "awake"} /\ (token[v] => token'[v])
      BY <1>1, <1>2, <3>1, <3>2, OnePhase, UnblockWakes, ZenonT(60)
    <3>4. \A v \in Thread \ {t} : wake'[v] = wake[v]
      BY <1>1, <3>1, Zenon
    <3>5. UNCHANGED <<op, want, rest, nonblock, end, at, mutex>>
      BY <1>9, <2>1, Zenon DEF WakeStep, callVars
    <3> QED
      BY <3>3, <3>4, <3>5, Zenon DEF Others
  <2>2. CASE wake[t] = {}
    BY <1>1, <1>9, <2>2, Zenon DEF WakeStep, callVars, Return, Others
  <2> QED
    BY <2>1, <2>2, Zenon
<1>10. CASE Wait(t)
  <2>1. \A u \in Thread \ {t} : phase'[u] = phase[u] /\ token'[u] = token[u]
    BY <1>1, <1>10, OnePhase, Zenon DEF Wait
  <2> QED
    BY <1>1, <1>10, <2>1, Zenon DEF Wait, callVars, Others
<1>11. CASE Expire(t)
  <2>1. \A u \in Thread \ {t} : phase'[u] = phase[u] /\ token'[u] = token[u]
    BY <1>1, <1>11, OnePhase, Zenon DEF Expire
  <2> QED
    BY <1>1, <1>11, <2>1, Zenon DEF Expire, callVars, Others
<1>12. CASE Signal(t)
  <2>1. \A u \in Thread \ {t} : phase'[u] = phase[u] /\ token'[u] = token[u]
    BY <1>1, <1>12, OnePhase, Zenon DEF Signal, SignalSend, SignalWake, SignalDeliver
  <2> QED
    BY <1>1, <1>12, <2>1, Zenon DEF Signal, SignalSend, SignalWake, SignalDeliver, callVars, Others
<1> QED
  BY <1>3, <1>4, <1>5, <1>6, <1>7, <1>8, <1>9, <1>10, <1>11, <1>12, Zenon

(* The invariant holds after a step of t when it holds of t and the ends.  *)
LEMMA ActorKeeps ==
  ASSUME PipeInv, NEW t \in Thread, Others(t), TypeOK', Ends', InCall(t)',
         \A e \in End : fds[e] \ {t} \subseteq fds'[e]
  PROVE  PipeInv'
<1>1. ASSUME NEW u \in Thread \ {t} PROVE InCall(u)'
  <2>1. InCall(u)
    BY Zenon DEF PipeInv
  <2>2. /\ op'[u] = op[u] /\ at'[u] = at[u] /\ want'[u] = want[u] /\ rest'[u] = rest[u]
        /\ wake'[u] = wake[u] /\ (mutex' = u <=> mutex = u)
        /\ phase'[u] \in {phase[u], "awake"}
    BY Zenon DEF Others
  <2>3. op[u] \in End => u \in fds'[op[u]]
    BY <2>1, Zenon DEF InCall
  <2> QED
    BY <2>1, <2>2, <2>3, Zenon DEF InCall
<1> QED
  BY <1>1, Zenon DEF PipeInv

(* The ends stay as they are unless a descriptor is the first or the last, *)
(* or a release begins or goes through.                                    *)
LEMMA EndsKept ==
  ASSUME Ends, UNCHANGED <<used, readers, writers>>,
         \A e \in End : fds'[e] = {} <=> fds[e] = {},
         \A t \in Thread, e \in End : Releasing(t, e)' <=> Releasing(t, e)
  PROVE  Ends'
<1>1. \A e \in End : Held(e)' <=> Held(e)
  BY Zenon DEF Held
<1>2. "read" \in End /\ "write" \in End
  BY Zenon DEF End
<1> QED
  BY <1>1, <1>2, Zenon DEF Ends

-----------------------------------------------------------------------------
(* Each step keeps the invariant.                                          *)

(* pipe_create finds nobody with a descriptor, so nobody in a call. *)
LEMMA CreateKeeps ==
  ASSUME PipeInv, NEW t \in Thread, Create(t)
  PROVE  PipeInv'
<1>1. TypeOK'
  BY PipeAssumption DEF Create, callVars, PipeInv, TypeOK, SW!SWTypeOK, End, Index
<1>2. /\ used' /\ readers' = 1 /\ writers' = 1 /\ \A e \in End : fds'[e] = {t} /\ fds[e] = {}
      /\ UNCHANGED <<op, at, want, rest, end, mutex, wake, phase>> /\ op[t] = "none"
  BY Zenon DEF Create, callVars, InUser, PipeInv, InCall
<1>3. \A u \in Thread, e \in End : ~Releasing(u, e) /\ ~Releasing(u, e)'
  <2>1. ~Held("read") /\ ~Held("write") /\ End = {"read", "write"}
    BY Zenon DEF Create, PipeInv, Ends, End
  <2> QED
    BY <1>2, <2>1, Zenon DEF Held, Releasing
<1>4. Ends'
  <2>1. Held("read")' /\ Held("write")'
    BY <1>2, Zenon DEF Held, End
  <2> QED
    BY <1>2, <1>3, <2>1, Zenon DEF Ends
<1>5. InCall(t)'
  <2>1. InCall(t) /\ "none" \notin End
    BY Zenon DEF PipeInv, End
  <2> QED
    BY <1>2, <2>1, Zenon DEF InCall
<1> QED
  BY <1>1, <1>2, <1>4, <1>5, OthersKept, ActorKeeps, Zenon

(* fork adds descriptors only to an end that has one. *)
LEMMA ForkKeeps ==
  ASSUME PipeInv, NEW t \in Thread, NEW child \in Thread, Fork(t, child)
  PROVE  PipeInv'
<1>1. TypeOK'
  BY DEF Fork, pipeVars, callVars, PipeInv, TypeOK, SW!SWTypeOK
<1>2. /\ \A e \in End : fds[e] \subseteq fds'[e] /\ (fds'[e] = {} <=> fds[e] = {})
      /\ UNCHANGED <<used, readers, writers, op, at, want, rest, end, mutex, wake, phase>>
  BY Zenon DEF Fork, pipeVars, callVars
<1>3. Ends'
  BY <1>2, EndsKept, Zenon DEF PipeInv, Releasing
<1>4. InCall(t)'
  BY <1>2, Zenon DEF PipeInv, InCall
<1> QED
  BY <1>1, <1>2, <1>3, <1>4, OthersKept, ActorKeeps, Zenon

(* The last close of an end begins its release; the others leave it open. *)
LEMMA CloseKeeps ==
  ASSUME PipeInv, NEW t \in Thread, NEW e \in End, Close(t, e)
  PROVE  PipeInv'
<1>1. /\ at[t] = "user" /\ op[t] = "none" /\ phase[t] = "awake" /\ mutex # t /\ wake[t] = {}
      /\ t \in fds[e] /\ fds' = [fds EXCEPT ![e] = @ \ {t}]
      /\ UNCHANGED <<used, readers, writers, want, rest, mutex, wake, phase>>
  BY Zenon DEF Close, pipeVars, callVars, InUser, Awake, PipeInv, InCall
<1>2. /\ fds \in [End -> SUBSET Thread] /\ CallTypes
  BY Zenon DEF PipeInv, TypeOK, CallTypes
<1>3. fds'[e] = fds[e] \ {t} /\ \A d \in End \ {e} : fds'[d] = fds[d]
  BY <1>1, <1>2, Zenon
<1>4. CASE fds[e] = {t}
  <2>1. /\ op' = [op EXCEPT ![t] = "release"] /\ at' = [at EXCEPT ![t] = "lock"]
        /\ end' = [end EXCEPT ![t] = e]
    BY <1>4, Zenon DEF Close, LastHolder
  <2>2. op'[t] = "release" /\ at'[t] = "lock" /\ end'[t] = e
    BY <1>2, <2>1, Zenon DEF CallTypes
  <2>3. CallTypes'
    BY <1>1, <1>2, <1>4, <2>1, ZenonT(60) DEF CallTypes, Close, LastHolder
  <2>4. TypeOK'
    BY <1>1, <1>2, <2>3 DEF Close, pipeVars, PipeInv, TypeOK, CallTypes, SW!SWTypeOK
  <2>5. Others(t)
    BY OthersKept, Zenon
  <2>6. Releasing(t, e)' /\ ~Releasing(t, e) /\ \A d \in End \ {e} : ~Releasing(t, d) /\ ~Releasing(t, d)'
    BY <1>1, <2>2, Zenon DEF Releasing
  <2>7. \A u \in Thread \ {t}, d \in End : Releasing(u, d)' <=> Releasing(u, d)
    BY <2>5, Zenon DEF Others, Releasing
  <2>8. \A u \in Thread : ~Releasing(u, e)
    BY <1>1, Zenon DEF PipeInv, Ends
  <2>9. \A d \in End : Held(d)' <=> Held(d)
    BY <1>1, <1>3, <2>6, <2>7, Zenon DEF Held
  <2>10. fds'[e] = {}
    BY <1>3, <1>4, Zenon
  <2>11. Ends'
    <3>1. "read" \in End /\ "write" \in End
      BY Zenon DEF End
    <3>2. \A u \in Thread, d \in End : Releasing(u, d)' => fds'[d] = {}
      BY <1>3, <2>6, <2>7, <2>10, ZenonT(60) DEF PipeInv, Ends
    <3>3. \A u, v \in Thread, d \in End : Releasing(u, d)' /\ Releasing(v, d)' => u = v
      <4> SUFFICES ASSUME NEW u \in Thread, NEW v \in Thread, NEW d \in End,
                          Releasing(u, d)', Releasing(v, d)'
                   PROVE  u = v
        BY Zenon
      <4>1. CASE d = e
        BY <2>7, <2>8, <4>1, Zenon
      <4>2. CASE d # e
        <5>1. Releasing(u, d) /\ Releasing(v, d)
          BY <2>6, <2>7, <4>2, Zenon
        <5> QED
          BY <5>1, Zenon DEF PipeInv, Ends
      <4> QED
        BY <4>1, <4>2, Zenon
    <3> QED
      BY <1>1, <2>9, <3>1, <3>2, <3>3, Zenon DEF PipeInv, Ends
  <2>12. InCall(t)'
    BY <1>1, <2>2, Zenon DEF InCall, End
  <2> QED
    BY <1>3, <2>4, <2>5, <2>11, <2>12, ActorKeeps, Zenon
<1>5. CASE fds[e] # {t}
  <2>1. UNCHANGED <<callVars, at>>
    BY <1>5, Zenon DEF Close, LastHolder
  <2>2. fds'[e] # {} /\ fds[e] # {}
    BY <1>1, <1>3, <1>5, Zenon
  <2>3. TypeOK'
    BY <1>1, <1>2, <2>1 DEF Close, pipeVars, callVars, PipeInv, TypeOK, SW!SWTypeOK
  <2>4. Ends'
    BY <1>1, <1>3, <2>1, <2>2, EndsKept, Zenon DEF PipeInv, Releasing, callVars
  <2>5. InCall(t)'
    BY <1>1, <2>1, Zenon DEF InCall, End, callVars
  <2> QED
    BY <1>3, <2>3, <2>4, <2>5, OthersKept, ActorKeeps, Zenon
<1> QED
  BY <1>4, <1>5, Zenon

(* pipe_read and pipe_write are called with a descriptor, for some bytes. *)
LEMMA StartKeeps ==
  ASSUME PipeInv, NEW t \in Thread, Start(t)
  PROVE  PipeInv'
<1>1. PICK n \in 1 .. MaxCount, nb \in Modes :
        Read(t, n, nb) \/ \E bytes \in [1 .. n -> Byte] : Write(t, bytes, nb)
  BY Zenon DEF Start
<1>2. CallTypes /\ InCall(t) /\ n \in 0 .. MaxCount /\ n > 0 /\ nb \in BOOLEAN
  BY PipeAssumption DEF PipeInv, TypeOK, CallTypes
<1>3. /\ at[t] = "user" /\ phase[t] = "awake" /\ at' = [at EXCEPT ![t] = "lock"]
      /\ nonblock' = [nonblock EXCEPT ![t] = nb]
      /\ UNCHANGED <<used, readers, writers, fds, end, mutex, wake, phase, token, sig, sigwake>>
      /\ UNCHANGED <<buffer, head, count, read_waiters, write_waiters>>
  BY <1>1, Zenon DEF Read, Write, InUser, Awake, pipeVars
<1>4. \A bytes \in [1 .. n -> Byte] : bytes \in Seq(Byte) /\ bytes # <<>>
  <2> SUFFICES ASSUME NEW bytes \in [1 .. n -> Byte] PROVE bytes \in Seq(Byte) /\ bytes # <<>>
    BY Zenon
  <2>1. bytes \in Seq(Byte) /\ Len(bytes) = n
    BY <1>2
  <2> QED
    BY <1>2, <2>1
<1>5. \/ /\ op' = [op EXCEPT ![t] = "read"] /\ want' = [want EXCEPT ![t] = n] /\ UNCHANGED rest
         /\ t \in fds["read"]
      \/ /\ op' = [op EXCEPT ![t] = "write"] /\ UNCHANGED want /\ t \in fds["write"]
         /\ \E bytes \in Seq(Byte) : rest' = [rest EXCEPT ![t] = bytes] /\ bytes # <<>>
  BY <1>1, <1>4, Zenon DEF Read, Write
<1>6. CallTypes'
  <2>1. op' \in [Thread -> {"none", "read", "write", "release"}]
    BY <1>2, <1>5, Zenon DEF CallTypes
  <2>2. want' \in [Thread -> 0 .. MaxCount] /\ rest' \in [Thread -> Seq(Byte)]
    BY <1>2, <1>5, Zenon DEF CallTypes
  <2> QED
    BY <1>2, <1>3, <2>1, <2>2, Zenon DEF CallTypes
<1>7. TypeOK'
  BY <1>3, <1>6, ZenonT(60) DEF PipeInv, TypeOK, CallTypes, SW!SWTypeOK
<1>8. /\ at'[t] = "lock"
      /\ \/ op'[t] = "read" /\ want'[t] > 0
         \/ op'[t] = "write" /\ rest'[t] # <<>>
      /\ t \in fds'[op'[t]]
  BY <1>2, <1>3, <1>5, Zenon DEF CallTypes
<1>9. InCall(t)'
  BY <1>2, <1>3, <1>8, Zenon DEF InCall, End
<1>10. Others(t)
  BY OthersKept, Zenon
<1>11. Ends'
  <2>1. \A u \in Thread, e \in End : Releasing(u, e)' <=> Releasing(u, e)
    BY <1>2, <1>3, <1>8, <1>10, Zenon DEF Releasing, Others, InCall
  <2> QED
    BY <1>3, <2>1, EndsKept, Zenon DEF PipeInv
<1> QED
  BY <1>3, <1>7, <1>9, <1>10, <1>11, ActorKeeps, Zenon

(* mutex_lock, blocking, timeouts and signals leave the pipe alone. *)
LEMMA PauseKeeps ==
  ASSUME PipeInv, NEW t \in Thread, Lock(t) \/ Wait(t) \/ Expire(t) \/ Signal(t)
  PROVE  PipeInv'
<1>1. CallTypes /\ OtherTypes /\ InCall(t)
  BY Zenon DEF PipeInv, TypeOK, CallTypes, OtherTypes
<1>2. UNCHANGED <<pipeVars, callVars, wake, fds>>
  BY Zenon DEF Lock, Wait, Expire, Signal, SignalSend, SignalWake, SignalDeliver
<1>3. SW!SWTypeOK' /\ (phase'[t] = "dead" => phase[t] = "dead")
  <2>1. SW!SWTypeOK
    BY <1>1, Zenon DEF OtherTypes
  <2>2. CASE UNCHANGED <<phase, token>>
    BY <2>1, <2>2, Zenon DEF SW!SWTypeOK
  <2>3. CASE SW!Block(t, {}) \/ SW!Sleep(t, {}) \/ SW!Expire({t}) \/ SW!Unblock(t)
    BY <2>1, <2>3, OnePhase, Zenon
  <2> QED
    BY <2>2, <2>3, Zenon DEF Lock, Wait, Expire, Signal, SignalSend, SignalWake, SignalDeliver
<1>4. sig' \in SUBSET Thread /\ sigwake' \in SUBSET Thread
  BY <1>1, Zenon DEF OtherTypes, Lock, Wait, Expire, Signal, SignalSend, SignalWake, SignalDeliver
<1>5. \/ /\ at[t] = "lock" /\ phase[t] = "awake" /\ at' = [at EXCEPT ![t] = "locked"]
         /\ mutex' = t /\ UNCHANGED phase
      \/ at[t] = "lock" /\ UNCHANGED <<at, mutex>>
      \/ at[t] \in {"block", "sleep"} /\ at' = [at EXCEPT ![t] = "lock"] /\ UNCHANGED mutex
      \/ UNCHANGED <<at, mutex>> /\ (phase'[t] # "awake" => phase[t] # "awake")
  <2>1. CASE Lock(t) \/ Wait(t)
    BY <2>1, Zenon DEF Lock, Wait, Awake
  <2>2. CASE Expire(t)
    BY <2>2, Zenon DEF Expire
  <2>3. CASE Signal(t)
    <3>1. CASE SignalWake(t)
      BY <1>1, <3>1, UnblockWakes, Zenon DEF SignalWake, OtherTypes, InCall
    <3> QED
      BY <2>3, <3>1, Zenon DEF Signal, SignalSend, SignalDeliver
  <2> QED
    BY <2>1, <2>2, <2>3, Zenon
<1>6. TypeOK'
  <2>1. mutex' \in Thread \cup {NoThread}
    BY <1>1, <1>5, Zenon DEF OtherTypes
  <2>2. at' \in [Thread -> {"user", "lock", "locked", "wake", "block", "sleep"}]
    BY <1>1, <1>5, Zenon DEF CallTypes
  <2> QED
    BY <1>2, <1>3, <1>4, <2>1, <2>2, Zenon DEF PipeInv, TypeOK, pipeVars, callVars
<1>7. InCall(t)'
  <2>1. /\ op'[t] = op[t] /\ want'[t] = want[t] /\ rest'[t] = rest[t] /\ wake'[t] = wake[t]
        /\ fds' = fds
    BY <1>2, Zenon DEF callVars
  <2>2. CASE at[t] = "lock" /\ phase[t] = "awake" /\ at' = [at EXCEPT ![t] = "locked"] /\ mutex' = t
             /\ UNCHANGED phase
    <3>1. at'[t] = "locked"
      BY <1>1, <2>2, Zenon DEF CallTypes
    <3> QED
      BY <1>1, <2>1, <2>2, <3>1, Zenon DEF InCall
  <2>3. CASE at[t] \in {"block", "sleep"} /\ at' = [at EXCEPT ![t] = "lock"] /\ UNCHANGED mutex
    <3>1. at'[t] = "lock"
      BY <1>1, <2>3, Zenon DEF CallTypes
    <3> QED
      BY <1>1, <1>3, <2>1, <2>3, <3>1, Zenon DEF InCall
  <2>4. CASE UNCHANGED <<at, mutex>> /\ (at[t] = "lock" \/ (phase'[t] # "awake" => phase[t] # "awake"))
    BY <1>1, <1>3, <2>1, <2>4, Zenon DEF InCall
  <2> QED
    BY <1>5, <2>2, <2>3, <2>4, Zenon
<1>8. Others(t)
  BY OthersKept, Zenon
<1>9. Ends'
  <2>1. \A e \in End : Releasing(t, e)' <=> Releasing(t, e)
    <3>1. at'[t] = "wake" <=> at[t] = "wake"
      BY <1>1, <1>5, Zenon DEF CallTypes
    <3> QED
      BY <1>2, <3>1, Zenon DEF Releasing, callVars
  <2>2. \A u \in Thread, e \in End : Releasing(u, e)' <=> Releasing(u, e)
    BY <1>8, <2>1, ZenonT(60) DEF Releasing, Others
  <2> QED
    BY <1>2, <2>2, EndsKept, Zenon DEF PipeInv, pipeVars
<1> QED
  BY <1>2, <1>6, <1>7, <1>8, <1>9, ActorKeeps, Zenon

(* A call returns. *)
LEMMA Returned ==
  ASSUME CallTypes, NEW t \in Thread, Return(t)
  PROVE  CallTypes' /\ op'[t] = "none" /\ at'[t] = "user"
<1>1. 0 \in 0 .. MaxCount /\ <<>> \in Seq(Byte) /\ "read" \in End
  BY PipeAssumption DEF End
<1> QED
  BY <1>1, Zenon DEF CallTypes, Return

(* wake_all, and the end of a call. *)
LEMMA WakeKeeps ==
  ASSUME PipeInv, NEW t \in Thread, WakeStep(t)
  PROVE  PipeInv'
<1>1. CallTypes /\ OtherTypes /\ InCall(t) /\ \A u \in Thread : phase[u] # "dead"
  BY Zenon DEF PipeInv, TypeOK, CallTypes, OtherTypes, InCall
<1>2. /\ UNCHANGED <<pipeVars, mutex, fds, sig, sigwake>> /\ at[t] = "wake" /\ phase[t] = "awake"
  BY Zenon DEF WakeStep, Awake
<1>3. Others(t)
  BY OthersKept, Zenon
<1>4. CASE wake[t] # {}
  <2>1. PICK u \in wake[t] : SW!Unblock(u) /\ wake' = [wake EXCEPT ![t] = @ \ {u}]
    BY <1>4, Zenon DEF WakeStep
  <2>2. UNCHANGED <<callVars, at>>
    BY <1>4, Zenon DEF WakeStep
  <2>3. u \in Thread /\ SW!SWTypeOK
    BY <1>1, Zenon DEF OtherTypes
  <2>4. SW!SWTypeOK' /\ phase'[t] = "awake"
    BY <1>1, <1>2, <2>1, <2>3, OnePhase, UnblockWakes, Zenon
  <2>5. wake' \in [Thread -> SUBSET Thread]
    BY <1>1, <2>1, Zenon DEF OtherTypes
  <2>6. TypeOK'
    BY <1>2, <2>2, <2>4, <2>5, Zenon DEF PipeInv, TypeOK, pipeVars, callVars
  <2>7. InCall(t)'
    BY <1>1, <1>2, <2>2, <2>4, Zenon DEF InCall, callVars
  <2>8. Ends'
    BY <1>2, <2>2, EndsKept, Zenon DEF PipeInv, Releasing, pipeVars, callVars
  <2> QED
    BY <1>2, <1>3, <2>6, <2>7, <2>8, ActorKeeps, Zenon
<1>5. CASE wake[t] = {}
  <2>1. /\ UNCHANGED <<wake, phase, token>>
        /\ \/ /\ op[t] = "write" /\ rest[t] # <<>>
              /\ at' = [at EXCEPT ![t] = "lock"] /\ UNCHANGED callVars
           \/ Return(t)
    BY <1>5, Zenon DEF WakeStep
  <2>2. CallTypes'
    <3>1. CASE at' = [at EXCEPT ![t] = "lock"] /\ UNCHANGED callVars
      BY <1>1, <3>1, Zenon DEF CallTypes, callVars
    <3> QED
      BY <1>1, <2>1, <3>1, Returned, Zenon
  <2>3. TypeOK'
    BY <1>2, <2>1, <2>2, Zenon DEF PipeInv, TypeOK, CallTypes, pipeVars, SW!SWTypeOK
  <2>4. CASE op[t] = "write" /\ rest[t] # <<>> /\ at' = [at EXCEPT ![t] = "lock"] /\ UNCHANGED callVars
    <3>1. at'[t] = "lock"
      BY <1>1, <2>4, Zenon DEF CallTypes
    <3>2. InCall(t)'
      <4>1. op'[t] = "write" /\ rest'[t] # <<>> /\ "write" \in End
        BY <2>4, Zenon DEF callVars, End
      <4>2. t \in fds'[op'[t]]
        BY <1>1, <1>2, <2>4, <4>1, Zenon DEF InCall
      <4> QED
        BY <1>1, <1>2, <1>5, <2>1, <3>1, <4>1, <4>2, Zenon DEF InCall
    <3>3. \A u \in Thread, e \in End : Releasing(u, e)' <=> Releasing(u, e)
      BY <1>3, <2>4, Zenon DEF Releasing, Others, callVars
    <3>4. Ends'
      BY <1>2, <3>3, EndsKept, ZenonT(60) DEF PipeInv, pipeVars
    <3> QED
      BY <1>2, <1>3, <2>3, <3>2, <3>4, ActorKeeps, Zenon
  <2>5. CASE Return(t)
    <3>1. op'[t] = "none" /\ at'[t] = "user"
      BY <1>1, <2>5, Returned, Zenon
    <3>2. InCall(t)'
      BY <1>1, <1>2, <1>5, <2>1, <3>1, Zenon DEF InCall, End
    <3>3. \A u \in Thread, e \in End : Releasing(u, e)' <=> Releasing(u, e)
      BY <1>2, <1>3, <3>1, Zenon DEF Releasing, Others
    <3>4. Ends'
      BY <1>2, <3>3, EndsKept, Zenon DEF PipeInv, pipeVars
    <3> QED
      BY <1>2, <1>3, <2>3, <3>2, <3>4, ActorKeeps, Zenon
  <2> QED
    BY <2>1, <2>4, <2>5, Zenon
<1> QED
  BY <1>4, <1>5, Zenon

(* A thread inside pipe_read or pipe_write has a pipe. *)
LEMMA CallerHolds ==
  ASSUME PipeInv, NEW t \in Thread, op[t] \in End
  PROVE  used /\ t \in fds[op[t]]
<1>1. t \in fds[op[t]]
  BY Zenon DEF PipeInv, InCall
<1>2. Held(op[t])
  BY <1>1, Zenon DEF Held
<1> QED
  BY <1>1, <1>2, Zenon DEF PipeInv, Ends, End

(* The ways in which the critical section of a read or write ends. *)
LEMMA SectionKeeps ==
  ASSUME PipeInv, NEW t \in Thread, mutex = t, mutex' = NoThread, op[t] \in End, Others(t),
         PipeTypes', sig' \in SUBSET Thread,
         UNCHANGED <<used, readers, writers, fds, sigwake, phase, token>>,
         \/ Return(t) /\ UNCHANGED wake
         \/ /\ UNCHANGED <<op, want, nonblock, end>>
            /\ UNCHANGED rest \/ \E b \in Seq(Byte) : rest' = [rest EXCEPT ![t] = b]
            /\ \E W \in SUBSET Thread : WakeAfter(t, W)
         \/ /\ UNCHANGED <<callVars, wake>>
            /\ \E l \in {"block", "sleep"} : at' = [at EXCEPT ![t] = l]
  PROVE  PipeInv'
<1>1. CallTypes /\ OtherTypes /\ InCall(t) /\ at[t] = "locked" /\ phase[t] = "awake" /\ wake[t] = {}
  BY Zenon DEF PipeInv, TypeOK, CallTypes, OtherTypes, InCall
<1>2. CallTypes' /\ wake' \in [Thread -> SUBSET Thread]
  <2>1. CASE Return(t) /\ UNCHANGED wake
    BY <1>1, <2>1, Returned, Zenon DEF OtherTypes
  <2>2. CASE /\ UNCHANGED <<op, want, nonblock, end>>
             /\ UNCHANGED rest \/ \E b \in Seq(Byte) : rest' = [rest EXCEPT ![t] = b]
             /\ \E W \in SUBSET Thread : WakeAfter(t, W)
    <3>1. rest' \in [Thread -> Seq(Byte)]
      BY <1>1, <2>2, Zenon DEF CallTypes
    <3>2. PICK W \in SUBSET Thread : WakeAfter(t, W)
      BY <2>2, Zenon
    <3>3. /\ at' \in [Thread -> {"user", "lock", "locked", "wake", "block", "sleep"}]
          /\ wake' \in [Thread -> SUBSET Thread]
      BY <1>1, <3>2, Zenon DEF CallTypes, OtherTypes, WakeAfter
    <3> QED
      BY <1>1, <2>2, <3>1, <3>3, Zenon DEF CallTypes
  <2>3. CASE /\ UNCHANGED <<callVars, wake>>
             /\ \E l \in {"block", "sleep"} : at' = [at EXCEPT ![t] = l]
    BY <1>1, <2>3 DEF CallTypes, OtherTypes, callVars
  <2> QED
    BY <2>1, <2>2, <2>3, Zenon
<1>3. TypeOK'
  BY <1>2, PipeAssumption, Zenon DEF PipeInv, TypeOK, PipeTypes, CallTypes, SW!SWTypeOK
<1>4. \/ op'[t] = "none" /\ at'[t] = "user" /\ wake'[t] = wake[t]
      \/ op'[t] = op[t] /\ want'[t] = want[t] /\ at'[t] = "wake"
      \/ /\ op'[t] = op[t] /\ want'[t] = want[t] /\ rest'[t] = rest[t]
         /\ at'[t] \in {"block", "sleep"} /\ wake'[t] = wake[t]
  BY <1>1 DEF CallTypes, OtherTypes, callVars, Return, WakeAfter
<1>5. InCall(t)'
  BY <1>1, <1>4, PipeAssumption, Zenon DEF InCall, End
<1>6. \A u \in Thread, e \in End : Releasing(u, e)' <=> Releasing(u, e)
  <2>1. op[t] # "release" /\ op'[t] # "release"
    BY <1>4, Zenon DEF End
  <2> QED
    BY <2>1, Zenon DEF Releasing, Others
<1>7. Ends'
  BY <1>6, EndsKept, Zenon DEF PipeInv
<1> QED
  BY <1>3, <1>5, <1>7, ActorKeeps, Zenon

(* waiters_add registers the thread and lets it block, or finds the list   *)
(* full.                                                                   *)
LEMMA WaitOnGives ==
  ASSUME NEW t \in Thread, NEW list
  PROVE  \/ WaitOn(t, list)[1] = list \cup {t} /\ WaitOn(t, list)[2] = "block"
         \/ WaitOn(t, list)[1] = list /\ WaitOn(t, list)[2] = "sleep"
BY Zenon DEF WaitOn

(* pipe_read keeps the invariant. *)
LEMMA ReadKeeps ==
  ASSUME PipeInv, NEW t \in Thread, ReadLocked(t)
  PROVE  PipeInv'
<1>1. /\ mutex = t /\ mutex' = NoThread /\ op[t] = "read" /\ "read" \in End
      /\ UNCHANGED <<fds, sig, sigwake, phase, token>>
  BY Zenon DEF ReadLocked, InSection, End
<1>2. used /\ PipeTypes /\ want[t] \in Nat /\ sig \in SUBSET Thread
  <2>1. used
    BY <1>1, CallerHolds, Zenon
  <2> QED
    BY <2>1 DEF PipeInv, TypeOK, PipeTypes
<1>3. Others(t)
  BY OthersKept, Zenon DEF Section
<1>4. CASE /\ count > 0
           /\ head' = Advanced(Least(want[t], count)) /\ count' = count - Least(want[t], count)
           /\ read_waiters' = Cleared(read_waiters, t)
           /\ TakeWriters(t)
           /\ UNCHANGED <<used, buffer, readers, writers, callVars>>
  <2>1. head' \in Index /\ count' \in 0 .. Capacity
    BY <1>2, <1>4, PipeAssumption DEF PipeTypes, Index, Advanced, Least
  <2>2. PipeTypes'
    BY <1>2, <1>4, <2>1, Zenon DEF PipeTypes, Cleared, TakeWriters
  <2>3. \E W \in SUBSET Thread : WakeAfter(t, W)
    BY <1>2, <1>4, Zenon DEF TakeWriters, PipeTypes
  <2>4. UNCHANGED <<op, want, nonblock, end, rest>>
    BY <1>4, Zenon DEF callVars
  <2> QED
    BY <1>1, <1>2, <1>3, <1>4, <2>2, <2>3, <2>4, SectionKeeps, ZenonT(60)
<1>5. CASE /\ read_waiters' = Cleared(read_waiters, t)
           /\ Return(t)
           /\ UNCHANGED <<used, buffer, head, count, readers, writers, write_waiters, wake>>
  <2>1. PipeTypes'
    BY <1>2, <1>5, Zenon DEF PipeTypes, Cleared
  <2> QED
    BY <1>1, <1>2, <1>3, <1>5, <2>1, SectionKeeps, Zenon
<1>6. CASE LET wait == WaitOn(t, Cleared(read_waiters, t))
           IN /\ read_waiters' = wait[1] /\ at' = [at EXCEPT ![t] = wait[2]]
              /\ UNCHANGED <<used, buffer, head, count, readers, writers, write_waiters,
                             callVars, wake>>
  <2> DEFINE wait == WaitOn(t, Cleared(read_waiters, t))
  <2>1. wait[1] \in SUBSET Thread /\ wait[2] \in {"block", "sleep"}
    <3>1. /\ Cleared(read_waiters, t) \in SUBSET Thread
          /\ Cleared(read_waiters, t) \cup {t} \in SUBSET Thread
      BY <1>2, Zenon DEF PipeTypes, Cleared
    <3> QED
      BY <3>1, WaitOnGives, Zenon
  <2>2. /\ read_waiters' = wait[1] /\ at' = [at EXCEPT ![t] = wait[2]]
        /\ UNCHANGED <<used, buffer, head, count, readers, writers, write_waiters, callVars, wake>>
    BY <1>6, Zenon
  <2> HIDE DEF wait
  <2>3. PipeTypes'
    BY <1>2, <2>1, <2>2, Zenon DEF PipeTypes
  <2> QED
    BY <1>1, <1>2, <1>3, <2>1, <2>2, <2>3, SectionKeeps, Zenon
<1> QED
  BY <1>2, <1>4, <1>5, <1>6, Zenon DEF ReadLocked

(* pipe_write keeps the invariant. *)
LEMMA WriteKeeps ==
  ASSUME PipeInv, NEW t \in Thread, WriteLocked(t)
  PROVE  PipeInv'
<1>1. /\ mutex = t /\ mutex' = NoThread /\ op[t] = "write" /\ "write" \in End
      /\ UNCHANGED <<fds, sigwake, phase, token>>
  BY Zenon DEF WriteLocked, InSection, End
<1>2. used /\ PipeTypes /\ rest[t] \in Seq(Byte) /\ sig \in SUBSET Thread
  <2>1. used
    BY <1>1, CallerHolds, Zenon
  <2> QED
    BY <2>1, Zenon DEF PipeInv, TypeOK, PipeTypes
<1>3. Others(t)
  BY OthersKept, Zenon DEF Section
<1>4. sig' \in SUBSET Thread
  BY <1>2, Zenon DEF WriteLocked
<1> DEFINE amount == Least(Len(rest[t]), Capacity - count)
<1>5. CASE /\ count < Capacity
           /\ buffer' = [i \in Index |->
                           LET k == (i - head - count) % Capacity
                           IN IF k < amount THEN rest[t][k + 1] ELSE buffer[i]]
           /\ count' = count + amount
           /\ rest' = [rest EXCEPT ![t] = SubSeq(@, amount + 1, Len(@))]
           /\ write_waiters' = Cleared(write_waiters, t)
           /\ read_waiters' = {}
           /\ WakeAfter(t, read_waiters)
           /\ UNCHANGED <<used, head, readers, writers, op, want, nonblock, end, sig>>
  <2>1. amount \in 0 .. Len(rest[t]) /\ count + amount \in 0 .. Capacity
    BY <1>2, <1>5, PipeAssumption DEF PipeTypes, Least
  <2> HIDE DEF amount
  <2>2. buffer' \in [Index -> Byte]
    <3> DEFINE K(i) == (i - head - count) % Capacity
    <3>1. \A i \in Index : K(i) \in Nat
      BY <1>2, PipeAssumption DEF PipeTypes, Index
    <3>2. \A k \in Nat : k < amount => rest[t][k + 1] \in Byte
      BY <1>2, <2>1
    <3> HIDE DEF K
    <3>3. \A i \in Index : (IF K(i) < amount THEN rest[t][K(i) + 1] ELSE buffer[i]) \in Byte
      BY <1>2, <3>1, <3>2, Zenon DEF PipeTypes
    <3>4. buffer' = [i \in Index |-> IF K(i) < amount THEN rest[t][K(i) + 1] ELSE buffer[i]]
      BY <1>5, Zenon DEF K
    <3> QED
      BY <3>3, <3>4, Zenon
  <2>3. PipeTypes'
    <3>1. write_waiters' \in SUBSET Thread /\ read_waiters' \in SUBSET Thread
      BY <1>2, <1>5, Zenon DEF PipeTypes, Cleared
    <3> QED
      BY <1>2, <1>5, <2>1, <2>2, <3>1, Zenon DEF PipeTypes
  <2>4. \E b \in Seq(Byte) : rest' = [rest EXCEPT ![t] = b]
    <3>1. SubSeq(rest[t], amount + 1, Len(rest[t])) \in Seq(Byte)
      BY <1>2, <2>1
    <3> QED
      BY <1>5, <3>1, Zenon
  <2>5. \E W \in SUBSET Thread : WakeAfter(t, W)
    BY <1>2, <1>5, Zenon DEF PipeTypes
  <2> QED
    BY <1>1, <1>3, <1>4, <1>5, <2>3, <2>4, <2>5, SectionKeeps, ZenonT(60)
<1>6. CASE /\ write_waiters' = Cleared(write_waiters, t)
           /\ Return(t)
           /\ UNCHANGED <<used, buffer, head, count, readers, writers, read_waiters, wake>>
  <2>1. PipeTypes'
    BY <1>2, <1>6, Zenon DEF PipeTypes, Cleared
  <2> QED
    BY <1>1, <1>3, <1>4, <1>6, <2>1, SectionKeeps, Zenon
<1>7. CASE LET wait == WaitOn(t, Cleared(write_waiters, t))
           IN /\ write_waiters' = wait[1] /\ at' = [at EXCEPT ![t] = wait[2]]
              /\ UNCHANGED <<used, buffer, head, count, readers, writers, read_waiters,
                             callVars, wake>>
  <2> DEFINE wait == WaitOn(t, Cleared(write_waiters, t))
  <2>1. wait[1] \in SUBSET Thread /\ wait[2] \in {"block", "sleep"}
    <3>1. /\ Cleared(write_waiters, t) \in SUBSET Thread
          /\ Cleared(write_waiters, t) \cup {t} \in SUBSET Thread
      BY <1>2, Zenon DEF PipeTypes, Cleared
    <3> QED
      BY <3>1, WaitOnGives, Zenon
  <2>2. /\ write_waiters' = wait[1] /\ at' = [at EXCEPT ![t] = wait[2]]
        /\ UNCHANGED <<used, buffer, head, count, readers, writers, read_waiters, callVars, wake>>
    BY <1>7, Zenon
  <2> HIDE DEF wait
  <2>3. PipeTypes'
    BY <1>2, <2>1, <2>2, Zenon DEF PipeTypes
  <2> QED
    BY <1>1, <1>3, <1>4, <2>1, <2>2, <2>3, SectionKeeps, ZenonT(60)
<1> QED
  BY <1>2, <1>5, <1>6, <1>7, Zenon DEF WriteLocked

(* What pipe_release does to the count of its end, which is open.          *)
LEMMA ReleaseCloses ==
  ASSUME PipeInv, NEW t \in Thread, ReleaseLocked(t)
  PROVE  /\ used /\ end[t] \in End /\ Releasing(t, end[t]) /\ wake[t] = {} /\ phase[t] = "awake"
         /\ readers' = (IF end[t] = "read" THEN 0 ELSE readers)
         /\ writers' = (IF end[t] = "write" THEN 0 ELSE writers)
         /\ end[t] = "read" => readers = 1
         /\ end[t] = "write" => writers = 1
<1>1. /\ InCall(t) /\ end[t] \in End /\ at[t] = "locked" /\ op[t] = "release"
      /\ readers \in {0, 1} /\ writers \in {0, 1}
  BY Zenon DEF PipeInv, TypeOK, ReleaseLocked, InSection
<1>2. wake[t] = {} /\ phase[t] = "awake"
  BY <1>1, Zenon DEF InCall
<1>3. Releasing(t, end[t])
  BY <1>1, Zenon DEF Releasing
<1>4. Held(end[t])
  BY <1>3, Zenon DEF Held
<1>5. used /\ (end[t] = "read" => readers = 1) /\ (end[t] = "write" => writers = 1)
  BY <1>1, <1>4, Zenon DEF PipeInv, Ends, End
<1>6. /\ readers' = (IF end[t] = "read" /\ readers > 0 THEN readers - 1 ELSE readers)
      /\ writers' = (IF end[t] = "write" /\ writers > 0 THEN writers - 1 ELSE writers)
  BY <1>5, Zenon DEF ReleaseLocked
<1> QED
  BY <1>1, <1>2, <1>3, <1>5, <1>6

(* The pipe is freed with its second end, and wakes the waiters otherwise. *)
LEMMA ReleaseFrees ==
  ASSUME PipeInv, NEW t \in Thread, ReleaseLocked(t)
  PROVE  /\ read_waiters' = {} /\ write_waiters' = {} /\ mutex = t /\ mutex' = NoThread
         /\ UNCHANGED <<callVars, fds, sig, sigwake, last, phase, token>>
         /\ IF readers' = 0 /\ writers' = 0
            THEN /\ used' = FALSE /\ head' = 0 /\ count' = 0 /\ buffer' = [i \in Index |-> 0]
                 /\ WakeAfter(t, {})
            ELSE /\ UNCHANGED <<used, buffer, head, count>>
                 /\ WakeAfter(t, read_waiters \cup write_waiters)
<1>1. used
  BY ReleaseCloses, Zenon
<1> DEFINE r == IF end[t] = "read" /\ readers > 0 THEN readers - 1 ELSE readers
           w == IF end[t] = "write" /\ writers > 0 THEN writers - 1 ELSE writers
<1>2. /\ readers' = r /\ writers' = w
      /\ read_waiters' = {} /\ write_waiters' = {} /\ mutex = t /\ mutex' = NoThread
      /\ UNCHANGED <<callVars, fds, sig, sigwake, last, phase, token>>
  BY <1>1, Zenon DEF ReleaseLocked, InSection
<1>3. IF BothClosed(r, w)
      THEN /\ used' = FALSE /\ head' = 0 /\ count' = 0 /\ buffer' = [i \in Index |-> 0]
           /\ WakeAfter(t, {})
      ELSE /\ UNCHANGED <<used, buffer, head, count>>
           /\ WakeAfter(t, read_waiters \cup write_waiters)
  BY <1>1, Zenon DEF ReleaseLocked, ReleaseWakes
<1> HIDE DEF r, w
<1> QED
  BY <1>2, <1>3, Zenon DEF BothClosed

(* pipe_release keeps the invariant: it closes its end and no other. *)
LEMMA ReleaseKeeps ==
  ASSUME PipeInv, NEW t \in Thread, ReleaseLocked(t)
  PROVE  PipeInv'
<1>1. /\ used /\ end[t] \in End /\ Releasing(t, end[t]) /\ wake[t] = {} /\ phase[t] = "awake"
      /\ readers' = (IF end[t] = "read" THEN 0 ELSE readers)
      /\ writers' = (IF end[t] = "write" THEN 0 ELSE writers)
  BY ReleaseCloses, Zenon
<1>2. /\ read_waiters' = {} /\ write_waiters' = {} /\ mutex' = NoThread
      /\ UNCHANGED <<callVars, fds, sig, sigwake, phase, token>>
      /\ \E W \in SUBSET Thread : WakeAfter(t, W)
  <2>1. read_waiters \cup write_waiters \in SUBSET Thread
    BY Zenon DEF PipeInv, TypeOK
  <2> QED
    BY <2>1, ReleaseFrees, Zenon
<1>3. Others(t)
  BY OthersKept, Zenon DEF Section
<1>4. CallTypes /\ PipeTypes /\ OtherTypes /\ InCall(t)
  BY Zenon DEF PipeInv, TypeOK, CallTypes, PipeTypes, OtherTypes
<1>5. at'[t] = "wake" /\ op[t] = "release"
  BY <1>1, <1>2, <1>4, Zenon DEF CallTypes, WakeAfter, Releasing
<1>6. \A e \in End : Held(e)' <=> e # end[t] /\ Held(e)
  <2>1. \A u \in Thread \ {t}, e \in End : Releasing(u, e)' <=> Releasing(u, e)
    BY <1>3, Zenon DEF Releasing, Others
  <2>2. \A e \in End : ~Releasing(t, e)' /\ (Releasing(t, e) <=> e = end[t])
    BY <1>1, <1>5, Zenon DEF Releasing
  <2>3. fds[end[t]] = {} /\ \A u \in Thread \ {t} : ~Releasing(u, end[t])
    BY <1>1, Zenon DEF PipeInv, Ends
  <2> QED
    BY <1>2, <2>1, <2>2, <2>3, Zenon DEF Held
<1>7. Ends'
  <2>1. /\ readers' = (IF Held("read")' THEN 1 ELSE 0)
        /\ writers' = (IF Held("write")' THEN 1 ELSE 0)
    <3>1. "read" \in End /\ "write" \in End
      BY Zenon DEF End
    <3> QED
      BY <1>1, <1>6, <3>1, Zenon DEF PipeInv, Ends
  <2>2. used' <=> ~(readers' = 0 /\ writers' = 0)
    BY <1>1, ReleaseFrees, Zenon
  <2>3. \A u \in Thread, e \in End : Releasing(u, e)' => Releasing(u, e)
    BY <1>3, <1>5, Zenon DEF Releasing, Others
  <2>4. /\ \A u \in Thread, e \in End : Releasing(u, e)' => fds'[e] = {}
        /\ \A u, v \in Thread, e \in End : Releasing(u, e)' /\ Releasing(v, e)' => u = v
    BY <1>2, <2>3, Zenon DEF PipeInv, Ends
  <2> QED
    BY <2>1, <2>2, <2>4 DEF Ends
<1>8. TypeOK'
  <2>1. /\ at' \in [Thread -> {"user", "lock", "locked", "wake", "block", "sleep"}]
        /\ wake' \in [Thread -> SUBSET Thread]
    BY <1>2, <1>4 DEF CallTypes, OtherTypes, WakeAfter
  <2>2. /\ used' \in BOOLEAN /\ buffer' \in [Index -> Byte] /\ head' \in Index
        /\ count' \in 0 .. Capacity
    <3>1. CASE readers' = 0 /\ writers' = 0
      <4>1. used' = FALSE /\ head' = 0 /\ count' = 0 /\ buffer' = [i \in Index |-> 0]
        BY <3>1, ReleaseFrees, Zenon
      <4> QED
        BY <4>1, EmptyRing, Zenon
    <3>2. CASE ~(readers' = 0 /\ writers' = 0)
      BY <1>4, <3>2, ReleaseFrees, Zenon DEF PipeTypes
    <3> QED
      BY <3>1, <3>2, Zenon
  <2>3. /\ readers' \in {0, 1} /\ writers' \in {0, 1}
    BY <1>1, <1>4, Zenon DEF PipeTypes
  <2>4. SW!SWTypeOK'
    BY <1>2, <1>4, Zenon DEF OtherTypes, SW!SWTypeOK
  <2> QED
    BY <1>2, <1>4, <2>1, <2>2, <2>3, <2>4, ZenonT(60) DEF TypeOK, CallTypes, PipeTypes, OtherTypes, callVars
<1>9. InCall(t)'
  BY <1>1, <1>2, <1>5, PipeAssumption, Zenon DEF InCall, End, callVars
<1> QED
  BY <1>2, <1>3, <1>7, <1>8, <1>9, ActorKeeps, Zenon

-----------------------------------------------------------------------------
(* The theorems on calls and ends.                                         *)

(* The invariant holds at first. *)
LEMMA PipeInitially == Init => PipeInv
<1> SUFFICES ASSUME Init PROVE PipeInv
  BY Zenon
<1>1. TypeOK
  <2>1. PipeTypes
    BY EmptyRing, Zenon DEF Init, PipeTypes
  <2>2. CallTypes
    BY PipeAssumption DEF Init, CallTypes, End
  <2>3. OtherTypes
    BY Zenon DEF Init, OtherTypes, SW!SWTypeOK
  <2> QED
    BY <2>1, <2>2, <2>3, Zenon DEF TypeOK, PipeTypes, CallTypes, OtherTypes
<1>2. Ends
  BY Zenon DEF Init, Ends, Held, Releasing, End
<1>3. \A t \in Thread : InCall(t)
  BY PipeAssumption, Zenon DEF Init, InCall, End
<1> QED
  BY <1>1, <1>2, <1>3, Zenon DEF PipeInv

(* Every step keeps it. *)
LEMMA PipeStep == PipeInv /\ [Next]_vars => PipeInv'
<1> SUFFICES ASSUME PipeInv, [Next]_vars PROVE PipeInv'
  BY Zenon
<1>1. CASE Next
  BY <1>1, CreateKeeps, ForkKeeps, CloseKeeps, StartKeeps, PauseKeeps, WakeKeeps, ReadKeeps,
     WriteKeeps, ReleaseKeeps, ZenonT(60) DEF Next, Start, Signal
<1>2. CASE UNCHANGED vars
  <2>1. TypeOK'
    BY <1>2, Zenon DEF vars, pipeVars, callVars, PipeInv, TypeOK, SW!SWTypeOK
  <2>2. Ends' /\ \A t \in Thread : InCall(t)'
    BY <1>2, ZenonT(60) DEF vars, pipeVars, callVars, PipeInv, Ends, Held, Releasing, InCall
  <2> QED
    BY <2>1, <2>2, Zenon DEF PipeInv
<1> QED
  BY <1>1, <1>2, Zenon

(* The pipe satisfies its invariant for ever. *)
THEOREM PipeInvariant == Spec => []PipeInv
BY PipeInitially, PipeStep, PTL DEF Spec

(* The type invariant of Pipe is one: the ring index stays inside the      *)
(* ring, and the counts of bytes and of ends stay in their bounds.         *)
THEOREM PipeTypeCorrect == Spec => []TypeOK
BY PipeInvariant, PTL DEF PipeInv

(* No thread inside pipe_read or pipe_write finds its pipe freed, or       *)
(* created again for others.                                               *)
THEOREM CallersKeepPipe == Spec => []CallersHoldPipe
<1>1. PipeInv => CallersHoldPipe
  BY CallerHolds, Zenon DEF CallersHoldPipe
<1> QED
  BY <1>1, PipeInvariant, PTL

(* An end counts as open from pipe_create until the release that its last  *)
(* descriptor begins has gone through.                                     *)
THEOREM EndsAreCounted == Spec => []EndCounted
<1>1. PipeInv => EndCounted
  BY Zenon DEF PipeInv, Ends, Held, Releasing, EndCounted, End
<1> QED
  BY <1>1, PipeInvariant, PTL

-----------------------------------------------------------------------------
(* Wake-ups.                                                               *)

(* t is blocked, or about to block with no wake-up remembered. *)
Watching(t) == phase[t] = "blocked" \/ (at[t] = "block" /\ ~token[t])

(* ... and nobody is on the way to unblock it. *)
Quiet(t) == Watching(t) /\ t \notin sigwake /\ \A u \in Thread : t \notin wake[u]

(* It is registered, and what it waits for has not happened. *)
Waits(t) ==
  /\ t \notin sig
  /\ \/ op[t] = "read" /\ t \in read_waiters /\ count = 0 /\ writers > 0
     \/ op[t] = "write" /\ t \in write_waiters /\ count = Capacity /\ readers > 0

WakeInv == PipeInv /\ \A t \in Thread : Quiet(t) => Waits(t)

(* A thread that waits after a step of another, which sends it no wake-up, *)
(* did before.                                                             *)
LEMMA WasQuiet ==
  ASSUME PipeInv, NEW t \in Thread, Others(t), NEW r \in Thread \ {t}, Quiet(r)',
         sigwake \ {t} \subseteq sigwake', r \in wake[t] => r \in wake'[t]
  PROVE  Quiet(r)
<1>1. /\ at'[r] = at[r] /\ phase'[r] \in {phase[r], "awake"} /\ (token[r] => token'[r])
      /\ \A u \in Thread \ {t} : wake'[u] = wake[u]
  BY Zenon DEF Others
<1>2. Watching(r)
  BY <1>1, Zenon DEF Quiet, Watching
<1> QED
  BY <1>1, <1>2, Zenon DEF Quiet

(* A thread that runs is not watching, unless it has just decided to. *)
LEMMA RunsOn ==
  ASSUME NEW t, phase'[t] = "awake", at'[t] # "block"
  PROVE  ~Quiet(t)'
BY Zenon DEF Quiet, Watching

(* A step of t that leaves the pipe alone. *)
LEMMA CalmWaits ==
  ASSUME WakeInv, NEW t \in Thread, Others(t), UNCHANGED pipeVars,
         sigwake \ {t} \subseteq sigwake', sig' \subseteq sig \cup {t},
         \A r \in Thread \ {t} : Quiet(r)' /\ r \in wake[t] => r \in wake'[t],
         Quiet(t)' => Waits(t)'
  PROVE  \A r \in Thread : Quiet(r)' => Waits(r)'
<1> SUFFICES ASSUME NEW r \in Thread \ {t}, Quiet(r)' PROVE Waits(r)'
  BY Zenon
<1>1. Quiet(r)
  BY WasQuiet, Zenon DEF WakeInv
<1>2. Waits(r)
  BY <1>1, Zenon DEF WakeInv
<1>3. op'[r] = op[r] /\ r \notin sig'
  BY <1>2, Zenon DEF Others, Waits
<1> QED
  BY <1>2, <1>3, Zenon DEF Waits, pipeVars

(* Steps in user code, mutex_lock and the end of a call start no wait. *)
LEMMA CallWakes ==
  ASSUME WakeInv, NEW t \in Thread,
         \/ (\E child \in Thread : Fork(t, child)) \/ Start(t) \/ (\E e \in End : Close(t, e))
         \/ Lock(t) \/ SignalDeliver(t)
  PROVE  \A r \in Thread : Quiet(r)' => Waits(r)'
<1>1. /\ DOMAIN at = Thread /\ SW!SWTypeOK
  BY Zenon DEF WakeInv, PipeInv, TypeOK
<1>2. Others(t)
  BY OthersKept, Zenon DEF WakeInv, Signal
<1>3. UNCHANGED <<pipeVars, sigwake, wake>> /\ sig' \subseteq sig
  <2>1. CASE Lock(t)
    BY <2>1, Zenon DEF Lock
  <2>2. CASE SignalDeliver(t)
    BY <2>2, Zenon DEF SignalDeliver
  <2> QED
    BY <2>1, <2>2, Zenon DEF Fork, Start, Read, Write, Close
<1>4. ~Quiet(t)'
  <2>1. CASE Lock(t)
    <3>1. CASE SW!Sleep(t, {}) /\ at' = at /\ at[t] = "lock"
      <4>1. phase'[t] = "timed"
        BY <1>1, <3>1, Zenon DEF SW!Sleep, SW!Expired, SW!SWTypeOK
      <4> QED
        BY <3>1, <4>1, Zenon DEF Quiet, Watching
    <3>2. CASE phase' = phase /\ phase[t] = "awake" /\ at' = [at EXCEPT ![t] = "locked"]
      BY <1>1, <3>2, Zenon DEF Quiet, Watching
    <3> QED
      BY <2>1, <3>1, <3>2, Zenon DEF Lock, Awake
  <2>2. CASE (\E child \in Thread : Fork(t, child)) \/ SignalDeliver(t)
    BY <2>2, Zenon DEF Fork, SignalDeliver, InUser, Awake, Quiet, Watching
  <2>3. CASE Start(t)
    <3>1. phase' = phase /\ phase[t] = "awake" /\ at' = [at EXCEPT ![t] = "lock"]
      BY <2>3, Zenon DEF Start, Read, Write, InUser, Awake
    <3> QED
      BY <1>1, <3>1, Zenon DEF Quiet, Watching
  <2>4. CASE \E e \in End : Close(t, e)
    <3>1. /\ phase' = phase /\ phase[t] = "awake" /\ at[t] = "user"
          /\ at' = at \/ at' = [at EXCEPT ![t] = "lock"]
      BY <2>4, Zenon DEF Close, InUser, Awake
    <3> QED
      BY <1>1, <3>1, Zenon DEF Quiet, Watching
  <2> QED
    BY <2>1, <2>2, <2>3, <2>4, Zenon
<1> QED
  BY <1>2, <1>3, <1>4, CalmWaits, Zenon

(* scheduler_block and scheduler_sleep: who blocks has been watching. *)
LEMMA WaitWakes ==
  ASSUME WakeInv, NEW t \in Thread, Wait(t)
  PROVE  \A r \in Thread : Quiet(r)' => Waits(r)'
<1>1. DOMAIN at = Thread /\ SW!SWTypeOK
  BY Zenon DEF WakeInv, PipeInv, TypeOK
<1>2. Others(t)
  BY OthersKept, Zenon DEF WakeInv
<1>3. UNCHANGED <<pipeVars, callVars, sigwake, wake, sig>> /\ at' = [at EXCEPT ![t] = "lock"]
  BY Zenon DEF Wait
<1>4. at'[t] = "lock"
  BY <1>1, <1>3, Zenon
<1>5. ASSUME Quiet(t)' PROVE Waits(t)'
  <2>1. phase'[t] = "blocked"
    BY <1>4, <1>5, Zenon DEF Quiet, Watching
  <2>2. at[t] = "block" /\ ~token[t]
    BY <1>1, <2>1, Zenon DEF Wait, SW!Block, SW!Sleep, SW!Expired, SW!SWTypeOK
  <2>3. Waits(t)
    BY <1>3, <1>5, <2>2, Zenon DEF WakeInv, Quiet, Watching
  <2> QED
    BY <1>3, <2>3, Zenon DEF Waits, pipeVars, callVars
<1> QED
  BY <1>2, <1>3, <1>5, CalmWaits, Zenon

(* Signals and timeouts: a signalled thread has a wake-up on the way. *)
LEMMA SignalWakes ==
  ASSUME WakeInv, NEW t \in Thread, SignalSend(t) \/ SignalWake(t) \/ Expire(t)
  PROVE  \A r \in Thread : Quiet(r)' => Waits(r)'
<1>1. SW!SWTypeOK /\ InCall(t)
  BY Zenon DEF WakeInv, PipeInv, TypeOK
<1>2. Others(t)
  BY OthersKept, Zenon DEF WakeInv, Signal
<1>3. UNCHANGED <<pipeVars, callVars, wake, at>>
  BY Zenon DEF SignalSend, SignalWake, Expire
<1>4. sigwake \ {t} \subseteq sigwake' /\ sig' \subseteq sig \cup {t}
  BY Zenon DEF SignalSend, SignalWake, Expire
<1>5. ~Quiet(t)'
  <2>1. CASE SignalSend(t)
    BY <2>1, Zenon DEF SignalSend, Quiet
  <2>2. CASE SignalWake(t)
    <3>1. phase[t] # "dead" /\ (phase[t] # "awake" => at[t] = "lock")
      BY <1>1, Zenon DEF InCall
    <3>2. phase'[t] = "awake" /\ (phase[t] = "awake" => token'[t])
      BY <1>1, <2>2, <3>1, UnblockWakes, Zenon DEF SignalWake
    <3> QED
      BY <1>3, <3>1, <3>2, Zenon DEF Quiet, Watching
  <2>3. CASE Expire(t)
    <3>1. phase'[t] = "awake" /\ at[t] = "lock"
      BY <1>1, <2>3, ExpireWakes, Zenon DEF Expire, InCall
    <3> QED
      BY <1>3, <3>1, Zenon DEF Quiet, Watching
  <2> QED
    BY <2>1, <2>2, <2>3, Zenon
<1> QED
  BY <1>2, <1>3, <1>4, <1>5, CalmWaits, Zenon

(* wake_all: who is taken off the set to wake has been woken. *)
LEMMA WakeWakes ==
  ASSUME WakeInv, NEW t \in Thread, WakeStep(t)
  PROVE  \A r \in Thread : Quiet(r)' => Waits(r)'
<1>1. /\ wake \in [Thread -> SUBSET Thread] /\ CallTypes /\ SW!SWTypeOK
      /\ \A r \in Thread : phase[r] # "dead" /\ (phase[r] # "awake" => at[r] = "lock")
  BY Zenon DEF WakeInv, PipeInv, TypeOK, CallTypes, InCall
<1>2. Others(t)
  BY OthersKept, Zenon DEF WakeInv
<1>3. UNCHANGED <<pipeVars, sigwake, sig>> /\ at[t] = "wake" /\ phase[t] = "awake"
  BY Zenon DEF WakeStep, Awake
<1>4. CASE wake[t] # {}
  <2>1. PICK w \in wake[t] : SW!Unblock(w) /\ wake' = [wake EXCEPT ![t] = @ \ {w}]
    BY <1>4, Zenon DEF WakeStep
  <2>2. w \in Thread /\ wake'[t] = wake[t] \ {w} /\ at' = at
    BY <1>1, <1>4, <2>1, Zenon DEF WakeStep
  <2>3. phase'[w] = "awake" /\ (phase[w] = "awake" => token'[w])
    BY <1>1, <2>1, <2>2, UnblockWakes, Zenon
  <2>4. ~Quiet(w)'
    BY <1>1, <2>2, <2>3, Zenon DEF Quiet, Watching
  <2>5. phase'[t] = "awake"
    BY <1>1, <1>3, <2>1, <2>2, <2>3, OnePhase, Zenon
  <2>6. ~Quiet(t)'
    BY <1>3, <2>2, <2>5, RunsOn, Zenon
  <2>7. \A r \in Thread \ {t} : Quiet(r)' /\ r \in wake[t] => r \in wake'[t]
    BY <2>2, <2>4, Zenon
  <2> QED
    BY <1>2, <1>3, <2>6, <2>7, CalmWaits, ZenonT(60)
<1>5. CASE wake[t] = {}
  <2>1. /\ UNCHANGED phase
        /\ \E l \in {"lock", "user"} : at' = [at EXCEPT ![t] = l]
    BY <1>5, Zenon DEF WakeStep, Return
  <2>2. at'[t] # "block"
    BY <1>1, <2>1, Zenon DEF CallTypes
  <2>3. ~Quiet(t)'
    BY <1>3, <2>1, <2>2, RunsOn, Zenon
  <2> QED
    BY <1>2, <1>3, <1>5, <2>3, CalmWaits, Zenon
<1> QED
  BY <1>4, <1>5, Zenon

(* pipe_create: nobody waits on a pipe that is not in use. *)
LEMMA CreateWakes ==
  ASSUME WakeInv, NEW t \in Thread, Create(t)
  PROVE  \A r \in Thread : Quiet(r)' => Waits(r)'
<1>1. Others(t)
  BY OthersKept, Zenon DEF WakeInv
<1>2. ~used /\ UNCHANGED <<at, phase, sigwake, wake>> /\ at[t] = "user" /\ phase[t] = "awake"
  BY Zenon DEF Create, InUser, Awake
<1>3. ~Quiet(t)'
  BY <1>2, RunsOn, Zenon
<1>4. ASSUME NEW r \in Thread \ {t}, Quiet(r)' PROVE FALSE
  <2>1. Waits(r)
    BY <1>1, <1>2, <1>4, WasQuiet, Zenon DEF WakeInv
  <2>2. op[r] \in End
    BY <2>1, Zenon DEF Waits, End
  <2> QED
    BY <1>2, <2>2, CallerHolds, Zenon DEF WakeInv
<1> QED
  BY <1>3, <1>4, Zenon

(* What holds when t leaves its critical section: it ran, and had nobody   *)
(* to wake.                                                                *)
LEMMA SectionRuns ==
  ASSUME WakeInv, NEW t \in Thread, Section(t)
  PROVE  /\ Others(t) /\ UNCHANGED <<sigwake, phase, token>> /\ phase[t] = "awake"
         /\ wake[t] = {} /\ DOMAIN at = Thread /\ DOMAIN wake = Thread
         /\ \A r \in Thread \ {t} : Quiet(r)' => Waits(r)
<1>1. Others(t)
  BY OthersKept, Zenon DEF WakeInv
<1>2. UNCHANGED <<sigwake, phase, token>> /\ at[t] = "locked"
  BY Zenon DEF Section, ReadLocked, WriteLocked, ReleaseLocked, InSection
<1>3. InCall(t) /\ DOMAIN at = Thread /\ DOMAIN wake = Thread
  BY Zenon DEF WakeInv, PipeInv, TypeOK
<1>4. phase[t] = "awake" /\ wake[t] = {}
  BY <1>2, <1>3, Zenon DEF InCall
<1>5. ASSUME NEW r \in Thread \ {t}, Quiet(r)' PROVE Waits(r)
  BY <1>1, <1>2, <1>4, <1>5, WasQuiet, ZenonT(60) DEF WakeInv
<1> QED
  BY <1>1, <1>2, <1>3, <1>4, <1>5, Zenon

(* pipe_read: a reader that makes room has the writers to wake; one that   *)
(* goes to wait found nothing to read, a writer and no signal.             *)
LEMMA ReadWakes ==
  ASSUME WakeInv, NEW t \in Thread, ReadLocked(t)
  PROVE  \A r \in Thread : Quiet(r)' => Waits(r)'
<1>1. /\ Others(t) /\ UNCHANGED <<sigwake, phase, token>> /\ phase[t] = "awake"
      /\ wake[t] = {} /\ DOMAIN at = Thread /\ DOMAIN wake = Thread
      /\ \A r \in Thread \ {t} : Quiet(r)' => Waits(r)
  BY SectionRuns, Zenon DEF Section
<1>2. used /\ op[t] = "read" /\ sig' = sig
  <2>1. op[t] = "read" /\ "read" \in End /\ sig' = sig
    BY Zenon DEF ReadLocked, InSection, End
  <2> QED
    BY <2>1, CallerHolds, Zenon DEF WakeInv
<1>3. \A r \in Thread \ {t} : op'[r] = op[r]
  BY <1>1, Zenon DEF Others
<1>4. CASE count > 0 /\ TakeWriters(t)
  <2>1. at'[t] = "wake" /\ wake'[t] = write_waiters
    BY <1>1, <1>4, Zenon DEF TakeWriters, WakeAfter
  <2>2. ~Quiet(t)'
    BY <1>1, <2>1, RunsOn, ZenonT(60)
  <2>3. ASSUME NEW r \in Thread \ {t}, Quiet(r)' PROVE FALSE
    <3>1. Waits(r) /\ r \notin write_waiters
      BY <1>1, <2>1, <2>3, Zenon DEF Quiet
    <3> QED
      BY <1>4, <3>1 DEF Waits
  <2> QED
    BY <2>2, <2>3, Zenon
<1>5. ASSUME read_waiters \ {t} \subseteq read_waiters',
             UNCHANGED <<count, readers, writers, write_waiters>>,
             Quiet(t)' => Waits(t)'
      PROVE  \A r \in Thread : Quiet(r)' => Waits(r)'
  BY <1>1, <1>2, <1>3, <1>5, Zenon DEF Waits
<1>6. CASE /\ read_waiters' = Cleared(read_waiters, t) /\ Return(t)
           /\ UNCHANGED <<count, readers, writers, write_waiters>>
  <2>1. at'[t] = "user"
    BY <1>1, <1>6, Zenon DEF Return
  <2>2. ~Quiet(t)'
    BY <1>1, <2>1, RunsOn, Zenon
  <2> QED
    BY <1>5, <1>6, <2>2, Zenon DEF Cleared
<1>7. CASE LET wait == WaitOn(t, Cleared(read_waiters, t))
           IN /\ count = 0 /\ writers > 0 /\ t \notin sig
              /\ read_waiters' = wait[1] /\ at' = [at EXCEPT ![t] = wait[2]]
              /\ UNCHANGED <<count, readers, writers, write_waiters, callVars>>
  <2> DEFINE list == Cleared(read_waiters, t)
  <2>1. \/ read_waiters' = list \cup {t} /\ at' = [at EXCEPT ![t] = "block"]
        \/ read_waiters' = list /\ at' = [at EXCEPT ![t] = "sleep"]
    BY <1>7, WaitOnGives, ZenonT(60)
  <2>2. read_waiters \ {t} \subseteq read_waiters'
    BY <2>1, Zenon DEF Cleared
  <2>3. ASSUME Quiet(t)' PROVE Waits(t)'
    <3>1. at'[t] = "block"
      BY <1>1, <2>3, RunsOn, Zenon
    <3>2. t \in read_waiters'
      BY <1>1, <2>1, <3>1, Zenon
    <3> QED
      BY <1>2, <1>7, <3>2, Zenon DEF Waits, callVars
  <2> QED
    BY <1>5, <1>7, <2>2, <2>3, ZenonT(60)
<1> QED
  BY <1>2, <1>4, <1>6, <1>7, ZenonT(60) DEF ReadLocked

(* pipe_write: a writer that puts bytes into the ring has the readers to   *)
(* wake; one that goes to wait found no room, a reader and no signal.      *)
LEMMA WriteWakes ==
  ASSUME WakeInv, NEW t \in Thread, WriteLocked(t)
  PROVE  \A r \in Thread : Quiet(r)' => Waits(r)'
<1>1. /\ Others(t) /\ UNCHANGED <<sigwake, phase, token>> /\ phase[t] = "awake"
      /\ wake[t] = {} /\ DOMAIN at = Thread /\ DOMAIN wake = Thread
      /\ \A r \in Thread \ {t} : Quiet(r)' => Waits(r)
  BY SectionRuns, Zenon DEF Section
<1>2. used /\ op[t] = "write" /\ sig' \subseteq sig \cup {t}
  <2>1. op[t] = "write" /\ "write" \in End /\ sig' \subseteq sig \cup {t}
    BY ZenonT(60) DEF WriteLocked, InSection, End
  <2> QED
    BY <2>1, CallerHolds, Zenon DEF WakeInv
<1>3. \A r \in Thread \ {t} : op'[r] = op[r]
  BY <1>1, Zenon DEF Others
<1>4. CASE count < Capacity /\ WakeAfter(t, read_waiters)
  <2>1. at'[t] = "wake" /\ wake'[t] = read_waiters
    BY <1>1, <1>4, ZenonT(60) DEF WakeAfter
  <2>2. ~Quiet(t)'
    BY <1>1, <2>1, RunsOn, Zenon
  <2>3. ASSUME NEW r \in Thread \ {t}, Quiet(r)' PROVE FALSE
    <3>1. Waits(r) /\ r \notin read_waiters
      BY <1>1, <2>1, <2>3, Zenon DEF Quiet
    <3> QED
      BY <1>4, <3>1, PipeAssumption DEF Waits
  <2> QED
    BY <2>2, <2>3, Zenon
<1>5. ASSUME write_waiters \ {t} \subseteq write_waiters',
             UNCHANGED <<count, readers, writers, read_waiters>>,
             Quiet(t)' => Waits(t)'
      PROVE  \A r \in Thread : Quiet(r)' => Waits(r)'
  <2> SUFFICES ASSUME NEW r \in Thread \ {t}, Quiet(r)' PROVE Waits(r)'
    BY <1>5, Zenon
  <2>1. Waits(r) /\ op'[r] = op[r]
    BY <1>1, <1>3, Zenon
  <2>2. r \notin sig'
    BY <1>2, <2>1, ZenonT(60) DEF Waits
  <2> QED
    BY <1>5, <2>1, <2>2, Zenon DEF Waits
<1>6. CASE /\ write_waiters' = Cleared(write_waiters, t) /\ Return(t)
           /\ UNCHANGED <<count, readers, writers, read_waiters>>
  <2>1. at'[t] = "user"
    BY <1>1, <1>6, Zenon DEF Return
  <2>2. ~Quiet(t)'
    BY <1>1, <2>1, RunsOn, Zenon
  <2> QED
    BY <1>5, <1>6, <2>2, Zenon DEF Cleared
<1>7. CASE LET wait == WaitOn(t, Cleared(write_waiters, t))
           IN /\ count = Capacity /\ readers > 0 /\ t \notin sig /\ sig' = sig
              /\ write_waiters' = wait[1] /\ at' = [at EXCEPT ![t] = wait[2]]
              /\ UNCHANGED <<count, readers, writers, read_waiters, callVars>>
  <2> DEFINE list == Cleared(write_waiters, t)
  <2>1. \/ write_waiters' = list \cup {t} /\ at' = [at EXCEPT ![t] = "block"]
        \/ write_waiters' = list /\ at' = [at EXCEPT ![t] = "sleep"]
    BY <1>7, WaitOnGives, Zenon
  <2>2. write_waiters \ {t} \subseteq write_waiters'
    BY <2>1, Zenon DEF Cleared
  <2>3. ASSUME Quiet(t)' PROVE Waits(t)'
    <3>1. at'[t] = "block"
      BY <1>1, <2>3, RunsOn, Zenon
    <3>2. t \in write_waiters'
      BY <1>1, <2>1, <3>1, Zenon
    <3> QED
      BY <1>2, <1>7, <3>2, ZenonT(60) DEF Waits, callVars
  <2> QED
    BY <1>5, <1>7, <2>2, <2>3, Zenon
<1> QED
  BY <1>2, <1>4, <1>6, <1>7, ZenonT(60) DEF WriteLocked

(* pipe_release: a thread that waits has the other end open, so the pipe   *)
(* is not freed, and the thread is woken.                                  *)
LEMMA ReleaseWakesAll ==
  ASSUME WakeInv, NEW t \in Thread, ReleaseLocked(t)
  PROVE  \A r \in Thread : Quiet(r)' => Waits(r)'
<1>1. /\ Others(t) /\ UNCHANGED <<sigwake, phase, token>> /\ phase[t] = "awake"
      /\ wake[t] = {} /\ DOMAIN at = Thread /\ DOMAIN wake = Thread
      /\ \A r \in Thread \ {t} : Quiet(r)' => Waits(r)
  BY SectionRuns, Zenon DEF Section
<1>2. at'[t] = "wake" /\ (~(readers' = 0 /\ writers' = 0) => wake'[t] = read_waiters \cup write_waiters)
  BY <1>1, ReleaseFrees, Zenon DEF WakeAfter, WakeInv
<1>3. ~Quiet(t)'
  BY <1>1, <1>2, RunsOn, Zenon
<1>4. ASSUME NEW r \in Thread \ {t}, Quiet(r)' PROVE FALSE
  <2>1. Waits(r) /\ r \notin wake'[t]
    BY <1>1, <1>4, Zenon DEF Quiet
  <2>2. op[r] \in End /\ r \in read_waiters \cup write_waiters
    BY <2>1, Zenon DEF Waits, End
  <2>3. r \in fds[op[r]]
    BY <2>2, CallerHolds, Zenon DEF WakeInv
  <2>4. end[t] \in End /\ fds[end[t]] = {}
    BY ReleaseCloses, ZenonT(60) DEF WakeInv, PipeInv, Ends
  <2>5. Held(op[r]) /\ op[r] # end[t]
    BY <2>2, <2>3, <2>4, Zenon DEF Held
  <2>6. (op[r] = "read" => readers = 1) /\ (op[r] = "write" => writers = 1)
    BY <2>5, Zenon DEF WakeInv, PipeInv, Ends
  <2>7. /\ readers' = (IF end[t] = "read" THEN 0 ELSE readers)
        /\ writers' = (IF end[t] = "write" THEN 0 ELSE writers)
    BY ReleaseCloses, Zenon DEF WakeInv
  <2>8. ~(readers' = 0 /\ writers' = 0)
    BY <2>2, <2>5, <2>6, <2>7 DEF End
  <2> QED
    BY <1>2, <2>1, <2>2, <2>8, Zenon
<1> QED
  BY <1>3, <1>4, Zenon

(* Every step keeps it. *)
LEMMA WakeKept == WakeInv /\ [Next]_vars => WakeInv'
<1> SUFFICES ASSUME WakeInv, [Next]_vars PROVE WakeInv'
  BY Zenon
<1>1. PipeInv'
  BY PipeStep, Zenon DEF WakeInv
<1>2. CASE Next
  <2>1. \A r \in Thread : Quiet(r)' => Waits(r)'
    BY <1>2, CreateWakes, CallWakes, WaitWakes, SignalWakes, WakeWakes, ReadWakes, WriteWakes,
       ReleaseWakesAll, ZenonT(60) DEF Next, Start
  <2> QED
    BY <1>1, <2>1, Zenon DEF WakeInv
<1>3. CASE UNCHANGED vars
  <2>1. \A r \in Thread : (Quiet(r)' <=> Quiet(r)) /\ (Waits(r)' <=> Waits(r))
    BY <1>3, Zenon DEF vars, pipeVars, callVars, Quiet, Watching, Waits
  <2> QED
    BY <1>1, <2>1, Zenon DEF WakeInv
<1> QED
  BY <1>2, <1>3, Zenon

(* A blocked reader or writer to whom no wake-up is on the way is on its   *)
(* waiter list, and there is nothing for it to do: pipe_read, pipe_write   *)
(* and pipe_release take everybody off the list who could go on, and a     *)
(* wake-up that comes before scheduler_block is remembered.                *)
THEOREM PipeLosesNoWakeup == Spec => []NoLostWakeup
<1>1. Init => WakeInv
  <2> SUFFICES ASSUME Init PROVE WakeInv
    BY Zenon
  <2>1. \A t \in Thread : ~Quiet(t)
    BY Zenon DEF Init, Quiet, Watching
  <2> QED
    BY <2>1, PipeInitially, Zenon DEF WakeInv
<1>2. WakeInv => NoLostWakeup
  BY Zenon DEF WakeInv, NoLostWakeup, Quiet, Watching, Waits
<1> QED
  BY <1>1, <1>2, WakeKept, PTL DEF Spec

-----------------------------------------------------------------------------
(* The stream of bytes.                                                    *)

OpenEnds == (IF readers > 0 THEN {"read"} ELSE {}) \cup (IF writers > 0 THEN {"write"} ELSE {})

(* The steps of ByteStream, on the ring. *)
LEMMA StreamSteps ==
  /\ Queue = <<>> /\ OpenEnds = {} /\ last = <<>> => Stream!BSInit
  /\ UNCHANGED <<Queue, OpenEnds, last>> => UNCHANGED Stream!bsVars
  /\ /\ OpenEnds = {} /\ OpenEnds' = {"read", "write"} /\ Queue' = <<>> /\ last' = last
     => Stream!BSNext
  /\ Queue = <<>> /\ "write" \notin OpenEnds /\ last' = <<>> /\ UNCHANGED <<Queue, OpenEnds>>
     => Stream!BSNext
  /\ \A n \in 1 .. Capacity :
       /\ n <= Len(Queue) /\ last' = SubSeq(Queue, 1, n)
       /\ Queue' = SubSeq(Queue, n + 1, Len(Queue)) /\ OpenEnds' = OpenEnds
       => Stream!BSNext
  /\ \A n \in 1 .. Capacity : \A bytes \in [1 .. n -> Byte] :
       /\ "read" \in OpenEnds /\ Len(Queue) + Len(bytes) <= Capacity
       /\ Queue' = Queue \o bytes /\ UNCHANGED <<OpenEnds, last>>
       => Stream!BSNext
  /\ \A e \in {"read", "write"} :
       /\ e \in OpenEnds /\ OpenEnds' = OpenEnds \ {e}
       /\ Queue' = (IF OpenEnds' = {} THEN <<>> ELSE Queue) /\ last' = last
       => Stream!BSNext
BY Zenon DEF Stream!BSInit, Stream!bsVars, Stream!BSNext, Stream!Open, Stream!EndOfStream,
   Stream!Take, Stream!Put, Stream!Shut, Queue, OpenEnds

(* The queue is empty when its count is zero. *)
LEMMA EmptyQueue ==
  /\ count = 0 => Queue = <<>>
  /\ count' = 0 => Queue' = <<>>
BY DEF Queue

(* pipe_read takes the front of the queue, or finds the end of the stream, *)
(* or takes nothing.                                                       *)
LEMMA ReadStreams ==
  ASSUME PipeInv, NEW t \in Thread, ReadLocked(t)
  PROVE  [Stream!BSNext]_(Stream!bsVars)
<1>1. /\ used /\ TypeOK /\ want[t] \in Nat \ {0} /\ count \in Nat /\ count <= Capacity
      /\ Capacity \in Nat /\ writers \in {0, 1}
  <2>1. op[t] = "read" /\ "read" \in End
    BY Zenon DEF ReadLocked, InSection, End
  <2>2. used
    BY <2>1, CallerHolds, Zenon
  <2> QED
    BY <2>1, <2>2, PipeAssumption DEF PipeInv, TypeOK, InCall
<1> DEFINE n == Least(want[t], count)
<1>2. CASE /\ count > 0
           /\ last' = [i \in 1 .. n |-> buffer[ReadIndex(i - 1)]]
           /\ head' = Advanced(n) /\ count' = count - n
           /\ UNCHANGED <<buffer, readers, writers>>
  <2>1. n \in 1 .. count /\ n \in 1 .. Capacity
    BY <1>1, <1>2 DEF Least
  <2> HIDE DEF n
  <2>2. Queue' = SubSeq(Queue, n + 1, Len(Queue)) /\ last' = SubSeq(Queue, 1, n)
    BY <1>1, <1>2, <2>1, TakeReads, ZenonT(60)
  <2>3. n <= Len(Queue)
    BY <1>1, <2>1, QueueTypes
  <2>4. OpenEnds' = OpenEnds
    BY <1>2, Zenon DEF OpenEnds
  <2> QED
    BY <2>1, <2>2, <2>3, <2>4, StreamSteps, ZenonT(60)
<1>3. CASE /\ count = 0 /\ writers = 0 /\ last' = <<>>
           /\ UNCHANGED <<buffer, head, count, readers, writers>>
  <2>1. Queue = <<>> /\ UNCHANGED <<Queue, OpenEnds>>
    BY <1>3, EmptyQueue, Zenon DEF OpenEnds
  <2>2. "write" \notin OpenEnds
    BY <1>3 DEF OpenEnds
  <2> QED
    BY <1>3, <2>1, <2>2, StreamSteps, Zenon
<1>4. CASE UNCHANGED <<buffer, head, count, readers, writers, last>>
  <2>1. UNCHANGED <<Queue, OpenEnds, last>>
    BY <1>4, Zenon DEF Queue, OpenEnds
  <2> QED
    BY <2>1, StreamSteps, Zenon
<1> QED
  BY <1>1, <1>2, <1>3, <1>4, ZenonT(60) DEF ReadLocked

(* The first n of a writer's bytes. *)
LEMMA FirstBytes ==
  ASSUME NEW bytes \in Seq(Byte), NEW n \in 1 .. Len(bytes)
  PROVE  SubSeq(bytes, 1, n) \in [1 .. n -> Byte] /\ Len(SubSeq(bytes, 1, n)) = n
<1>1. Len(bytes) \in Nat /\ n \in Nat /\ \A i \in 1 .. n : bytes[i] \in Byte
  BY LenProperties, ElementOfSeq
<1>2. SubSeq(bytes, 1, n) \in Seq(Byte) /\ Len(SubSeq(bytes, 1, n)) = n
  <2>1. n \in Int /\ 1 \in Int /\ 1 <= n /\ n - 1 + 1 = n
    BY <1>1
  <2> QED
    BY <1>1, <2>1, SubSeqProperties
<1> QED
  BY <1>2, LenProperties, Zenon

(* A writer that is not done has bytes. *)
LEMMA FilledLength ==
  ASSUME NEW bytes \in Seq(Byte), bytes # <<>>
  PROVE  Len(bytes) \in Nat \ {0}
BY EmptySeq, LenProperties, Zenon

(* What pipe_write writes at a time is not nothing, and fits. *)
LEMMA AmountFits ==
  ASSUME NEW len \in Nat \ {0}, count \in Nat, Capacity \in Nat, count < Capacity
  PROVE  LET n == Least(len, Capacity - count)
         IN /\ n \in 1 .. len /\ n <= Capacity - count /\ n \in 1 .. Capacity
            /\ count + n <= Capacity
BY DEF Least

(* pipe_write appends the bytes it writes to the queue, or none. *)
LEMMA WriteStreams ==
  ASSUME PipeInv, NEW t \in Thread, WriteLocked(t)
  PROVE  [Stream!BSNext]_(Stream!bsVars)
<1>1. /\ used /\ TypeOK /\ rest[t] \in Seq(Byte) /\ rest[t] # <<>> /\ count \in Nat
      /\ count <= Capacity /\ Capacity \in Nat
  <2>1. op[t] = "write" /\ at[t] = "locked" /\ "write" \in End
    BY Zenon DEF WriteLocked, InSection, End
  <2>2. used
    BY <2>1, CallerHolds, Zenon
  <2>3. rest[t] # <<>>
    BY <2>1, Zenon DEF PipeInv, InCall
  <2> QED
    BY <2>2, <2>3, PipeAssumption DEF PipeInv, TypeOK
<1> DEFINE n == Least(Len(rest[t]), Capacity - count)
<1>2. CASE /\ readers > 0 /\ count < Capacity
           /\ buffer' = [i \in Index |->
                           LET k == (i - head - count) % Capacity
                           IN IF k < n THEN rest[t][k + 1] ELSE buffer[i]]
           /\ count' = count + n
           /\ UNCHANGED <<head, readers, writers, last>>
  <2>1. /\ n \in 1 .. Len(rest[t]) /\ n <= Capacity - count /\ n \in 1 .. Capacity
        /\ count + n <= Capacity
    <3>1. Len(rest[t]) \in Nat \ {0} /\ readers > 0 /\ count < Capacity
      BY <1>1, <1>2, FilledLength, Zenon
    <3> QED
      BY <1>1, <3>1, AmountFits, Zenon
  <2> HIDE DEF n
  <2>2. Queue' = Queue \o SubSeq(rest[t], 1, n)
    BY <1>1, <1>2, <2>1, PutWrites, Zenon
  <2>3. SubSeq(rest[t], 1, n) \in [1 .. n -> Byte] /\ Len(SubSeq(rest[t], 1, n)) = n
    BY <1>1, <2>1, FirstBytes, Zenon
  <2>4. Len(Queue) + Len(SubSeq(rest[t], 1, n)) <= Capacity
    <3>1. Len(Queue) = count
      BY <1>1, QueueTypes, Zenon
    <3> QED
      BY <2>1, <2>3, <3>1, Zenon
  <2>5. "read" \in OpenEnds /\ OpenEnds' = OpenEnds
    BY <1>2, ZenonT(60) DEF OpenEnds
  <2> QED
    BY <1>2, <2>1, <2>2, <2>3, <2>4, <2>5, StreamSteps, ZenonT(60)
<1>3. CASE UNCHANGED <<buffer, head, count, readers, writers, last>>
  <2>1. UNCHANGED <<Queue, OpenEnds, last>>
    BY <1>3, Zenon DEF Queue, OpenEnds
  <2> QED
    BY <2>1, StreamSteps, Zenon
<1> QED
  BY <1>1, <1>2, <1>3, ZenonT(60) DEF WriteLocked

(* pipe_release shuts its end. *)
LEMMA ReleaseStreams ==
  ASSUME PipeInv, NEW t \in Thread, ReleaseLocked(t)
  PROVE  [Stream!BSNext]_(Stream!bsVars)
<1>1. /\ end[t] \in {"read", "write"} /\ readers \in {0, 1} /\ writers \in {0, 1}
      /\ readers' = (IF end[t] = "read" THEN 0 ELSE readers)
      /\ writers' = (IF end[t] = "write" THEN 0 ELSE writers)
      /\ (end[t] = "read" => readers = 1) /\ (end[t] = "write" => writers = 1)
  BY ReleaseCloses, Zenon DEF End, PipeInv, TypeOK
<1>2. end[t] \in OpenEnds /\ OpenEnds' = OpenEnds \ {end[t]}
  BY <1>1 DEF OpenEnds
<1>3. OpenEnds' = {} <=> readers' = 0 /\ writers' = 0
  BY <1>1 DEF OpenEnds
<1>4. Queue' = (IF OpenEnds' = {} THEN <<>> ELSE Queue) /\ last' = last
  <2>1. CASE readers' = 0 /\ writers' = 0
    BY <1>3, <2>1, ReleaseFrees, EmptyQueue, Zenon
  <2>2. CASE ~(readers' = 0 /\ writers' = 0)
    <3>1. UNCHANGED <<buffer, head, count, last>>
      BY <2>2, ReleaseFrees, Zenon
    <3> QED
      BY <1>3, <2>2, <3>1, Zenon DEF Queue
  <2> QED
    BY <2>1, <2>2, Zenon
<1> QED
  BY <1>1, <1>2, <1>4, StreamSteps, Zenon

(* A pipe is a stream of bytes: whatever the calls of however many         *)
(* readers and writers, however short they are cut, wherever in the ring   *)
(* they begin, every byte written is read once and in order, and the end   *)
(* of the stream is reported when the last writer has closed and all has   *)
(* been read.                                                              *)
THEOREM PipeRefinement == Spec => ImplementsByteStream
<1>1. Init => Stream!BSInit
  <2> SUFFICES ASSUME Init PROVE Stream!BSInit
    BY Zenon
  <2>1. Queue = <<>> /\ last = <<>>
    BY EmptyQueue, Zenon DEF Init
  <2>2. OpenEnds = {}
    BY DEF Init, OpenEnds
  <2> QED
    BY <2>1, <2>2, StreamSteps, Zenon
<1>2. PipeInv /\ [Next]_vars => [Stream!BSNext]_(Stream!bsVars)
  <2> SUFFICES ASSUME PipeInv, [Next]_vars PROVE [Stream!BSNext]_(Stream!bsVars)
    BY Zenon
  <2>1. ASSUME UNCHANGED <<pipeVars, last>> PROVE [Stream!BSNext]_(Stream!bsVars)
    <3>1. UNCHANGED <<Queue, OpenEnds, last>>
      BY <2>1, Zenon DEF Queue, OpenEnds, pipeVars
    <3> QED
      BY <3>1, StreamSteps, Zenon
  <2>2. ASSUME NEW t \in Thread, Create(t) PROVE [Stream!BSNext]_(Stream!bsVars)
    <3>1. /\ ~used /\ readers \in {0, 1} /\ writers \in {0, 1}
          /\ readers' = 1 /\ writers' = 1 /\ count' = 0 /\ last' = last
      BY <2>2, Zenon DEF Create, PipeInv, TypeOK
    <3>2. readers = 0 /\ writers = 0
      BY <3>1, Zenon DEF PipeInv, Ends
    <3>3. OpenEnds = {} /\ OpenEnds' = {"read", "write"}
      BY <3>1, <3>2 DEF OpenEnds
    <3> QED
      BY <3>1, <3>3, EmptyQueue, StreamSteps, ZenonT(60)
  <2>3. ASSUME NEW t \in Thread,
               \/ (\E child \in Thread : Fork(t, child)) \/ Start(t)
               \/ (\E e \in End : Close(t, e)) \/ Lock(t)
               \/ WakeStep(t) \/ Wait(t) \/ Expire(t) \/ Signal(t)
        PROVE  UNCHANGED <<pipeVars, last>>
    BY <2>3, Zenon DEF Fork, Start, Read, Write, Close, Lock, WakeStep, Wait, Expire, Signal,
       SignalSend, SignalWake, SignalDeliver
  <2>4. CASE Next
    BY <2>1, <2>2, <2>3, <2>4, ReadStreams, WriteStreams, ReleaseStreams, ZenonT(60)
       DEF Next, Start, Signal
  <2>5. CASE UNCHANGED vars
    BY <2>1, <2>5, Zenon DEF vars
  <2> QED
    BY <2>4, <2>5, Zenon
<1> QED
  BY <1>1, <1>2, PipeInvariant, PTL DEF Spec, ImplementsByteStream, Stream!BSSpec

=============================================================================
