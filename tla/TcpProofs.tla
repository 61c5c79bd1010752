----------------------------- MODULE TcpProofs -----------------------------
(***************************************************************************)
(* Proofs about Tcp: a socket that waits for its peer has a timer running, *)
(* and the accept queues are right, for every size of the table, of the    *)
(* rings, of a segment and of the backlog, and for sequence numbers that   *)
(* wrap as long as a ring is smaller than half of them.                    *)
(*                                                                         *)
(* The invariant has one part for each socket (SocketInv), one for the     *)
(* listening sockets and their children (Family, QueueInv), and one for    *)
(* the segments under way, of which nothing is known but their types: a    *)
(* segment may be as old as it likes.  The proof goes up in the same way:  *)
(* what sending and acknowledging do to three numbers that wrap; what each *)
(* handler of tcp.c makes of a socket (Moves, Evolves); what a change of   *)
(* one socket does to the table (Calm); and then one lemma for each step.  *)
(***************************************************************************)
EXTENDS Tcp, TLAPS

(* The fields of a socket, the sequence numbers and the states. *)
Fields == DOMAIN Free

SeqNo == 0 .. SeqMod - 1

State == {"CLOSED", "LISTEN", "SYN_SENT", "SYN_RECEIVED", "ESTABLISHED", "CLOSE_WAIT",
          "FIN_WAIT_1", "FIN_WAIT_2", "CLOSING", "LAST_ACK", "TIME_WAIT"}

(* Its numbers are sequence numbers, and its rings are within their size. *)
Typed(s) ==
  /\ DOMAIN s = Fields
  /\ s.used \in BOOLEAN /\ s.app_closed \in BOOLEAN /\ s.timer_armed \in BOOLEAN
  /\ s.fin_queued \in BOOLEAN /\ s.fin_seq_set \in BOOLEAN
  /\ s.state \in State /\ s.parent \in Slot \cup {NoParent}
  /\ s.iss \in SeqNo /\ s.snd_una \in SeqNo /\ s.snd_nxt \in SeqNo /\ s.snd_max \in SeqNo
  /\ s.fin_seq \in SeqNo /\ s.rcv_nxt \in SeqNo /\ s.snd_wnd \in Nat
  /\ s.tx \in Seq(Nat) /\ Len(s.tx) <= Buffer
  /\ s.rx \in Seq(Nat) /\ Len(s.rx) <= Buffer

(* snd_nxt lies between snd_una and snd_max. *)
Windowed(s) == InFlight(s) <= Minus(s.snd_max, s.snd_una)

(* The SYN is under way, with nothing before or after it. *)
Shaking(s) ==
  /\ s.timer_armed /\ s.tx = <<>> /\ ~s.fin_seq_set
  /\ s.snd_una = s.iss /\ s.snd_nxt = Plus(s.iss, 1) /\ s.snd_max = s.snd_nxt

(* The timer runs for what the socket waits for; the FIN is sent after     *)
(* tcp_close and after what comes before it.                               *)
Attended(s) ==
  /\ Handshake(s) => Shaking(s)
  /\ s.fin_seq_set => s.fin_queued /\ s.state \notin {"ESTABLISHED", "CLOSE_WAIT"}
  /\ s.state \in OutputStates /\ ~s.timer_armed =>
       s.tx = <<>> /\ ~s.fin_queued /\ s.snd_nxt = s.snd_una
  /\ s.state \in {"CLOSED", "LISTEN"} => ~s.timer_armed
  /\ s.app_closed => s.fin_queued /\ s.state \notin {"CLOSED", "LISTEN", "SYN_SENT"}
  /\ s.local_port = 0 => s.state = "CLOSED" /\ s.tx = <<>> /\ ~s.fin_seq_set

(* A socket that is neither closed nor listens has a peer, and only one    *)
(* that listens has a queue.                                               *)
Placed(s) ==
  /\ ~s.used => s.state = "CLOSED" /\ s.parent = NoParent
  /\ s.state \notin {"CLOSED", "LISTEN"} => <<s.local_port, s.remote_port>> \in Flow
  /\ s.state = "LISTEN" => s.local_port = ServerPort /\ s.parent = NoParent
  /\ s.state # "LISTEN" => s.accept_queue = <<>>
  /\ s.state = "SYN_SENT" \/ s.app_closed => s.parent = NoParent

(* What holds of every socket. *)
SocketInv(s) == Typed(s) /\ Windowed(s) /\ Attended(s) /\ Placed(s)

(* What holds of every segment. *)
SegmentType(m) ==
  /\ m.seq \in SeqNo /\ m.ack \in SeqNo /\ m.wnd \in Nat /\ m.data \in Seq(Nat)
  /\ <<m.src, m.dst>> \in Flow

(* Past the handshake, and not closed again. *)
Through(s) == ~Handshake(s) /\ s.state # "CLOSED"

(* The parent of a child listens, and has the same owner. *)
Family(T) ==
  \A i \in Slot : T[i].parent # NoParent =>
    T[T[i].parent].state = "LISTEN" /\ T[T[i].parent].owner = T[i].owner

(* PendingChildren of a table. *)
Pending(T, l) == {i \in Slot : T[i].used /\ T[i].parent = l /\ T[i].state = "SYN_RECEIVED"}

(* What the accept queue q of l holds. *)
QueueInv(T, l, q) ==
  /\ q \in Seq(Slot)
  /\ \A j, k \in 1 .. Len(q) : q[j] = q[k] => j = k
  /\ \A k \in 1 .. Len(q) : /\ T[q[k]].used /\ T[q[k]].parent = l
                            /\ T[q[k]].state # "SYN_RECEIVED"
  /\ \A i \in Slot : T[i].used /\ T[i].parent = l /\ Through(T[i])
                       => \E k \in 1 .. Len(q) : q[k] = i
  /\ Len(q) + Cardinality(Pending(T, l)) <= Backlog

(* What holds of the table. *)
TableInv(T) ==
  /\ DOMAIN T = Slot
  /\ \A i \in Slot : SocketInv(T[i])
  /\ Family(T)
  /\ \A l \in Slot : T[l].state = "LISTEN" => QueueInv(T, l, T[l].accept_queue)

(* What else the proof needs of a state. *)
RestInv ==
  isn \in Nat /\ sent \in [Flow -> Nat] /\ \A m \in network : SegmentType(m)

(* The inductive invariant. *)
TcpInv == TableInv(sockets) /\ RestInv

(* What the proof uses of the sets of slots, which are finite.  It is a    *)
(* hypothesis of the lemmas about the table, and is shown at the end.      *)
SlotSets ==
  /\ Cardinality({}) = 0
  /\ \A S \in SUBSET Slot : Cardinality(S) \in Nat
  /\ \A S \in SUBSET Slot : \A P \in SUBSET S : Cardinality(P) <= Cardinality(S)
  /\ \A S \in SUBSET Slot : \A x \in S : Cardinality(S \ {x}) = Cardinality(S) - 1
  /\ \A S \in SUBSET Slot : \A x \in Slot \ S : Cardinality(S \cup {x}) = Cardinality(S) + 1
  /\ \A S \in SUBSET Slot : S # {} => \E x \in S : \A y \in S : x <= y

-----------------------------------------------------------------------------
(* Sequence numbers.                                                       *)

Half == SeqMod \div 2

(* Half of the sequence numbers, which is more than a buffer. *)
LEMMA Halves ==
  /\ SeqMod \in Nat /\ Half \in Nat /\ SeqMod = 2 * Half /\ 2 <= Half
  /\ Buffer \in Nat /\ Buffer + 1 <= Half /\ Mss \in Nat /\ 1 <= Mss /\ Mss <= Buffer
  /\ 0 \in SeqNo
BY TcpAssumption DEF Half, SeqNo

(* A piece of a buffer is a sequence of octets. *)
LEMMA Slices ==
  \A q, from, to :
      q \in Seq(Nat) /\ from \in 1 .. Len(q) + 1 /\ to \in from - 1 .. Len(q)
    => SubSeq(q, from, to) \in Seq(Nat) /\ Len(SubSeq(q, from, to)) = to - from + 1
OBVIOUS

(* So are its first octets and its last ones. *)
LEMMA Ends ==
  \A q, n : q \in Seq(Nat) /\ n \in 0 .. Len(q) =>
    /\ SubSeq(q, 1, n) \in Seq(Nat)
    /\ SubSeq(q, n + 1, Len(q)) \in Seq(Nat) /\ Len(SubSeq(q, n + 1, Len(q))) <= Len(q)
<1> SUFFICES ASSUME NEW q, q \in Seq(Nat), NEW n \in 0 .. Len(q)
             PROVE  /\ SubSeq(q, 1, n) \in Seq(Nat)
                    /\ SubSeq(q, n + 1, Len(q)) \in Seq(Nat)
                    /\ Len(SubSeq(q, n + 1, Len(q))) <= Len(q)
  BY Zenon
<1>1. SubSeq(q, 1, n) \in Seq(Nat)
  BY Slices
<1>2. SubSeq(q, n + 1, Len(q)) \in Seq(Nat) /\ Len(SubSeq(q, n + 1, Len(q))) <= Len(q)
  BY Slices
<1> QED
  BY <1>1, <1>2, Zenon

(* Two pieces joined. *)
LEMMA Concatenated ==
  \A p, q : p \in Seq(Nat) /\ q \in Seq(Nat)
    => p \o q \in Seq(Nat) /\ Len(p \o q) = Len(p) + Len(q) /\ Len(p) \in Nat /\ Len(q) \in Nat
OBVIOUS

(* Differences and sums wrap at most once. *)
LEMMA Wraps ==
  /\ \A a, b \in SeqNo : /\ Minus(a, b) = IF b <= a THEN a - b ELSE a - b + SeqMod
                         /\ Minus(a, b) \in SeqNo
                         /\ SEQ_LT(a, b) <=> Half <= Minus(a, b)
  /\ \A a, n \in SeqNo : /\ Plus(a, n) = IF a + n < SeqMod THEN a + n ELSE a + n - SeqMod
                         /\ Plus(a, n) \in SeqNo
<1> SUFFICES ASSUME NEW a \in SeqNo, NEW b \in SeqNo
             PROVE  /\ Minus(a, b) = IF b <= a THEN a - b ELSE a - b + SeqMod
                    /\ Minus(a, b) \in SeqNo
                    /\ SEQ_LT(a, b) <=> Half <= Minus(a, b)
                    /\ Plus(a, b) = IF a + b < SeqMod THEN a + b ELSE a + b - SeqMod
                    /\ Plus(a, b) \in SeqNo
  BY Zenon
<1>1. /\ \A x \in 0 .. SeqMod - 1 : x % SeqMod = x
      /\ \A x \in -SeqMod .. -1 : x % SeqMod = x + SeqMod
      /\ \A x \in SeqMod .. 2 * SeqMod - 1 : x % SeqMod = x - SeqMod
  BY Halves
<1>2. Minus(a, b) = IF b <= a THEN a - b ELSE a - b + SeqMod
  BY <1>1, Halves DEF Minus, SeqNo
<1>3. Plus(a, b) = IF a + b < SeqMod THEN a + b ELSE a + b - SeqMod
  BY <1>1, Halves DEF Plus, SeqNo
<1>4. Minus(a, b) \in SeqNo /\ Plus(a, b) \in SeqNo
  BY <1>2, <1>3, Halves DEF SeqNo
<1>5. SEQ_LT(a, b) <=> Half <= Minus(a, b)
  BY <1>4, Halves, Zenon DEF SEQ_LT, Half, SeqNo
<1> QED
  BY <1>2, <1>3, <1>4, <1>5, Zenon

-----------------------------------------------------------------------------
(* One socket.                                                             *)

(* The names of a socket's fields: enough to tell what an update changes. *)
LEMMA FieldNames ==
  Fields = {"used", "app_closed", "owner", "state", "error", "local_port", "remote_port",
            "parent", "accept_queue", "iss", "snd_una", "snd_nxt", "snd_max", "snd_wnd",
            "snd_wl1", "snd_wl2", "irs", "rcv_nxt", "fin_queued", "fin_seq_set", "fin_seq",
            "fin_received", "timer_armed", "retries", "tx", "rx"}
BY Zenon DEF Fields, Free

(* What no segment and no timeout changes. *)
Kept(s, t) ==
  /\ t.used = s.used /\ t.app_closed = s.app_closed /\ t.owner = s.owner
  /\ t.parent = s.parent /\ t.accept_queue = s.accept_queue
  /\ t.local_port = s.local_port /\ t.remote_port = s.remote_port
  /\ t.fin_queued = s.fin_queued

(* The ports of the socket are those of one of the flows. *)
OnFlow(s) == <<s.local_port, s.remote_port>> \in Flow

(* A connection in the middle of a handler. *)
Steady(s) ==
  /\ Typed(s) /\ Windowed(s) /\ OnFlow(s)
  /\ s.fin_seq_set => s.fin_queued /\ s.state \notin {"ESTABLISHED", "CLOSE_WAIT"}

(* What tcp_output has to find if it is to start the timer. *)
Ready(s) ==
  s.timer_armed \/ (s.snd_nxt = s.snd_una /\ ~(s.fin_seq_set /\ SEQ_GT(s.snd_nxt, s.fin_seq)))

(* Nothing to wait for. *)
Idle(s) == s.tx = <<>> /\ ~s.fin_queued /\ s.snd_nxt = s.snd_una

(* emit_segment and send_reset make segments of the connection. *)
LEMMA SegmentTyped ==
  ASSUME NEW s, Typed(s), OnFlow(s), NEW seq \in SeqNo, NEW flags, NEW data \in Seq(Nat)
  PROVE  SegmentType(Segment(s, seq, flags, data))
<1>1. ReceiveWindow(s) \in Nat
  BY Halves DEF Typed, ReceiveWindow
<1> QED
  BY <1>1, Halves, Zenon DEF Segment, SegmentType, Typed, OnFlow

(* So are the resets. *)
LEMMA ResetTyped ==
  ASSUME NEW a, NEW b, <<a, b>> \in Flow, NEW seq \in SeqNo, NEW ack \in SeqNo, NEW flags
  PROVE  SegmentType(ResetSegment(a, b, seq, ack, flags))
BY DEF ResetSegment, SegmentType

(* And the acknowledgements and the first segments of a connection. *)
LEMMA AckTyped ==
  ASSUME NEW s, Typed(s), OnFlow(s)
  PROVE  SegmentType(AckOf(s)) /\ SegmentType(SynOf(s))
<1>1. s.snd_nxt \in SeqNo /\ s.iss \in SeqNo /\ <<>> \in Seq(Nat)
  BY DEF Typed
<1> QED
  BY <1>1, SegmentTyped, Zenon DEF AckOf, SynOf

(* What is in flight and what is not. *)
LEMMA FlightTyped ==
  ASSUME NEW s, Typed(s)
  PROVE  /\ InFlight(s) \in Nat /\ Unsent(s) \in Nat /\ Len(s.tx) \in 0 .. Buffer
         /\ Unsent(s) = 0 \/ Unsent(s) + InFlight(s) = Len(s.tx)
         /\ Unsent(s) = 0 => Len(s.tx) <= InFlight(s)
<1>1. InFlight(s) \in Nat
  <2>1. InFlight(s) \in SeqNo
    BY Wraps, Zenon DEF InFlight, Typed
  <2> QED
    BY <2>1, Halves DEF SeqNo
<1>2. Len(s.tx) \in 0 .. Buffer
  BY Halves DEF Typed
<1> QED
  BY <1>1, <1>2, Halves DEF Unsent, Most

(* The head of the data in flight, and the FIN after it. *)
LEMMA HeadTyped ==
  ASSUME NEW s, Typed(s), OnFlow(s)
  PROVE  \A m \in HeadOf(s) : SegmentType(m)
<1> DEFINE n == Least(Least(Len(s.tx), Mss), InFlight(s))
<1>1. n \in 0 .. Len(s.tx)
  BY FlightTyped, Halves DEF Least
<1>2. SubSeq(s.tx, 1, n) \in Seq(Nat) /\ <<>> \in Seq(Nat)
  <2> HIDE DEF n
  <2>1. s.tx \in Seq(Nat)
    BY Zenon DEF Typed
  <2>2. <<>> \in Seq(Nat)
    OBVIOUS
  <2> QED
    BY <1>1, <2>1, <2>2, Ends, Zenon
<1>3. s.snd_una \in SeqNo /\ s.fin_seq \in SeqNo
  BY Zenon DEF Typed
<1> HIDE DEF n
<1>4. /\ SegmentType(Segment(s, s.snd_una, {"ACK"}, SubSeq(s.tx, 1, n)))
      /\ SegmentType(Segment(s, s.fin_seq, {"ACK", "FIN"}, <<>>))
  BY <1>2, <1>3, SegmentTyped, Zenon
<1> QED
  BY <1>4, Zenon DEF HeadOf, n

(* tcp_output leaves the connection steady, keeps a timer that is armed,   *)
(* and arms one if there is anything to wait for.                          *)
LEMMA OutputKeeps ==
  \A s, cwnd :
      /\ Steady(s)
      /\ s.state \in OutputStates
      /\ cwnd \in Mss .. Buffer
    => LET o == Output(s, cwnd)
       IN /\ Steady(o.s) /\ Kept(s, o.s) /\ o.s.state \in OutputStates
          /\ s.timer_armed => o.s.timer_armed
          /\ Ready(s) => o.s.timer_armed \/ Idle(o.s)
          /\ \A m \in o.out : SegmentType(m)
(* n more numbers are sent: where una, nxt and max are then. *)
<1>SendMoves. ASSUME NEW una \in SeqNo, NEW nxt \in SeqNo, NEW max \in SeqNo, NEW n \in 1 .. Buffer,
                     Minus(nxt, una) <= Minus(max, una)
              PROVE  LET to == Plus(nxt, n)
                         top == IF SEQ_GT(to, max) THEN to ELSE max
                     IN to \in SeqNo /\ top \in SeqNo /\ Minus(to, una) <= Minus(top, una)
  <2> USE <1>SendMoves
  <2> DEFINE to == Plus(nxt, n)
  <2>0. n \in SeqNo
    BY Halves DEF SeqNo
  <2>1. to \in SeqNo /\ to = IF nxt + n < SeqMod THEN nxt + n ELSE nxt + n - SeqMod
    BY <2>0, Wraps, Zenon
  <2> HIDE DEF to
  <2>2. Minus(to, una) \in SeqNo
    BY <2>1, Wraps, Zenon
  <2>3. CASE SEQ_GT(to, max)
    <3>1. Minus(to, una) <= Minus(to, una)
      BY <2>2, Halves DEF SeqNo
    <3> QED
      BY <2>1, <2>3, <3>1, Zenon DEF to
  <2>4. CASE ~SEQ_GT(to, max)
    <3>1. to = max \/ Half <= Minus(to, max)
      BY <2>1, <2>4, Wraps, Zenon DEF SEQ_GT, SEQ_LEQ
    <3>2. /\ Minus(to, max) = IF max <= to THEN to - max ELSE to - max + SeqMod
          /\ Minus(to, una) = IF una <= to THEN to - una ELSE to - una + SeqMod
          /\ Minus(max, una) = IF una <= max THEN max - una ELSE max - una + SeqMod
          /\ Minus(nxt, una) = IF una <= nxt THEN nxt - una ELSE nxt - una + SeqMod
      BY <2>1, Wraps, ZenonT(60)
    <3>3. Minus(to, una) <= Minus(max, una)
      BY <2>1, <3>1, <3>2, Halves DEF SeqNo
    <3> QED
      BY <2>1, <2>4, <3>3, Zenon DEF to
  <2> QED
    BY <2>3, <2>4, Zenon
(* How much tcp_output sends: no more than there is, and something when    *)
(* nothing is in flight.                                                   *)
<1>SendLengthFits. ASSUME NEW s, Typed(s), NEW cwnd \in Mss .. Buffer
                   PROVE  LET n == SendLength(s, Least(s.snd_wnd, cwnd))
                          IN /\ n \in 0 .. Unsent(s)
                             /\ InFlight(s) = 0 /\ s.tx # <<>> => n > 0
  <2> USE <1>SendLengthFits
  <2> DEFINE f == InFlight(s)
             u == Unsent(s)
             w == Least(s.snd_wnd, cwnd)
             k == NextLength(s, w)
             room == w - f
  <2>1. /\ f \in Nat /\ u \in Nat /\ (s.tx # <<>> => Len(s.tx) > 0)
        /\ u = 0 => Len(s.tx) <= f
    <3>1. /\ f \in Nat /\ u \in Nat /\ (u = 0 => Len(s.tx) <= f)
          /\ s.tx \in Seq(Nat)
      BY FlightTyped, Zenon DEF Typed
    <3> HIDE DEF f, u
    <3> QED
      BY <3>1
  <2>2. w \in Nat /\ (w = 0 <=> s.snd_wnd = 0)
    BY Halves DEF Least, Typed
  <2>3. /\ k \in 0 .. u /\ k <= Mss /\ (k > 0 /\ room < k => k = 1 /\ f = 0)
        /\ f = 0 /\ u > 0 => k > 0
    <3> HIDE DEF f, u, w
    <3> QED
      BY <2>1, <2>2, Halves DEF NextLength, Least, f, u
  <2>4. room \in Int /\ (room >= Mss => room - (room % Mss) \in Mss .. room)
    <3> HIDE DEF f, w
    <3>1. room \in Int
      BY <2>1, <2>2
    <3>2. \A r \in Nat : r >= Mss => r - (r % Mss) \in Mss .. r
      BY Halves
    <3> HIDE DEF room
    <3> QED
      BY <3>1, <3>2, Halves
  <2> DEFINE n == SendLength(s, w)
  <2>5. n = IF k < Mss \/ room < Mss THEN k ELSE IF u <= room THEN u ELSE room - (room % Mss)
    BY Zenon DEF SendLength
  <2> HIDE DEF f, u, w, k, room, n
  <2>6. n \in 0 .. u /\ (f = 0 /\ u > 0 => n > 0)
    BY <2>1, <2>3, <2>4, <2>5, Halves
  <2> QED
    <3>1. f = 0 /\ s.tx # <<>> => u > 0
      BY <2>1
    <3> QED
      BY <2>6, <3>1, Zenon DEF n, f, u, w
(* What is sent leaves the connection steady and its timer armed. *)
<1>SentKeeps. ASSUME NEW s, Steady(s), NEW n \in 1 .. Buffer
              PROVE  LET t == Sent(s, n)
                     IN /\ Steady(t) /\ Kept(s, t) /\ t.timer_armed
                        /\ t.state = s.state /\ t.tx = s.tx /\ t.rx = s.rx /\ t.rcv_nxt = s.rcv_nxt
                        /\ t.snd_una = s.snd_una /\ t.iss = s.iss
  <2> USE <1>SentKeeps
  <2> DEFINE to == Plus(s.snd_nxt, n)
             top == IF SEQ_GT(to, s.snd_max) THEN to ELSE s.snd_max
             t == [s EXCEPT !.snd_nxt = to, !.timer_armed = TRUE, !.snd_max = top]
  <2>1. Sent(s, n) = t
    BY Zenon DEF Sent
  <2>2. /\ to \in SeqNo /\ top \in SeqNo
        /\ Minus(to, s.snd_una) <= Minus(top, s.snd_una)
    BY <1>SendMoves, Zenon DEF Steady, Typed, Windowed, InFlight
  <2> HIDE DEF to, top
  <2>3. DOMAIN s = Fields
    BY Zenon DEF Steady, Typed
  <2>4. /\ DOMAIN t = Fields /\ Kept(s, t) /\ t.timer_armed = TRUE
        /\ t.state = s.state /\ t.tx = s.tx /\ t.rx = s.rx /\ t.rcv_nxt = s.rcv_nxt
        /\ t.snd_una = s.snd_una /\ t.iss = s.iss /\ t.snd_wnd = s.snd_wnd
        /\ t.fin_seq = s.fin_seq /\ t.fin_seq_set = s.fin_seq_set
        /\ t.snd_nxt = to /\ t.snd_max = top
    BY <2>3, FieldNames, Zenon DEF Kept
  <2> HIDE DEF t
  <2>5. Steady(t)
    <3>1. Typed(t)
      BY <2>2, <2>4, Zenon DEF Steady, Typed, Kept
    <3>2. Windowed(t)
      BY <2>2, <2>4, Zenon DEF Windowed, InFlight
    <3> QED
      BY <2>4, <3>1, <3>2, Zenon DEF Steady, OnFlow, Kept
  <2> QED
    BY <2>1, <2>4, <2>5, Zenon
(* The same of the FIN. *)
<1>FinKeeps. ASSUME NEW s, Steady(s), s.state \in OutputStates, s.fin_queued
             PROVE  LET t == SendFin(s)
                    IN /\ Steady(t) /\ Kept(s, t) /\ t.timer_armed /\ t.state \in OutputStates
                       /\ t.tx = s.tx
  <2> USE <1>FinKeeps
  <2> DEFINE r == Sent(s, 1)
             at == IF s.fin_seq_set THEN s.fin_seq ELSE s.snd_nxt
             to == CASE s.state = "ESTABLISHED" -> "FIN_WAIT_1"
                     [] s.state = "CLOSE_WAIT" -> "LAST_ACK"
                     [] OTHER -> s.state
             t == [r EXCEPT !.fin_seq_set = TRUE, !.fin_seq = at, !.state = to]
  <2>1. /\ Steady(r) /\ Kept(s, r) /\ r.timer_armed = TRUE /\ r.state = s.state /\ r.tx = s.tx
        /\ r.fin_seq = s.fin_seq
    <3>1. 1 \in 1 .. Buffer
      BY Halves
    <3>2. Steady(r) /\ Kept(s, r) /\ r.timer_armed /\ r.state = s.state /\ r.tx = s.tx
      BY <3>1, <1>SentKeeps, Zenon
    <3>3. r.timer_armed = TRUE /\ r.fin_seq = s.fin_seq
      BY FieldNames, Zenon DEF Sent, Steady, Typed
    <3> QED
      BY <3>2, <3>3, Zenon
  <2>2. SendFin(s) = t
    <3> HIDE DEF r
    <3> QED
      BY <2>1, Zenon DEF SendFin, r
  <2>3. to \in OutputStates \ {"ESTABLISHED", "CLOSE_WAIT"} /\ to \in State
    BY Zenon DEF OutputStates, State
  <2>4. at \in SeqNo
    BY Zenon DEF Steady, Typed
  <2>5. DOMAIN r = Fields
    BY <2>1, Zenon DEF Steady, Typed
  <2> HIDE DEF r, at, to
  <2>6. /\ DOMAIN t = Fields /\ Kept(r, t) /\ t.timer_armed = r.timer_armed
        /\ t.state = to /\ t.tx = r.tx /\ t.rx = r.rx /\ t.rcv_nxt = r.rcv_nxt
        /\ t.snd_una = r.snd_una /\ t.iss = r.iss /\ t.snd_wnd = r.snd_wnd
        /\ t.fin_seq = at /\ t.fin_seq_set = TRUE
        /\ t.snd_nxt = r.snd_nxt /\ t.snd_max = r.snd_max
    BY <2>5, FieldNames, Zenon DEF Kept
  <2> HIDE DEF t
  <2>7. Steady(t)
    <3>1. Typed(t)
      BY <2>1, <2>3, <2>4, <2>6, Zenon DEF Steady, Typed, Kept
    <3>2. Windowed(t)
      BY <2>1, <2>6, Zenon DEF Steady, Windowed, InFlight
    <3> QED
      BY <2>1, <2>3, <2>6, <3>1, <3>2, Zenon DEF Steady, OnFlow, Kept
  <2> QED
    BY <2>1, <2>2, <2>3, <2>6, <2>7 DEF Kept
(* The data that tcp_output sends. *)
<1>DataKeeps. ASSUME NEW s, Steady(s), NEW cwnd \in Mss .. Buffer
              PROVE  LET r == SendData(s, Least(s.snd_wnd, cwnd))
                     IN /\ r.s = s \/ \E n \in 1 .. Buffer : r.s = Sent(s, n)
                        /\ InFlight(s) = 0 /\ s.tx # <<>> => r.s.timer_armed
                        /\ \A m \in r.out : SegmentType(m)
  <2> USE <1>DataKeeps
  <2> DEFINE w == Least(s.snd_wnd, cwnd)
             n == SendLength(s, w)
             f == InFlight(s)
             data(k) == SubSeq(s.tx, f + k + 1, f + Least(k + Mss, n))
             out == {Segment(s, Plus(s.snd_nxt, k), {"ACK"}, data(k))
                       : k \in {j \in 0 .. n - 1 : j % Mss = 0}}
  <2>1. SendData(s, w) = [s |-> IF n = 0 THEN s ELSE Sent(s, n), out |-> out]
    BY Zenon DEF SendData, Result
  <2>2. /\ n \in 0 .. Unsent(s) /\ (f = 0 /\ s.tx # <<>> => n > 0)
        /\ f \in Nat /\ Unsent(s) \in Nat /\ Len(s.tx) \in 0 .. Buffer
        /\ Unsent(s) = 0 \/ Unsent(s) + f = Len(s.tx)
    BY <1>SendLengthFits, FlightTyped, Zenon DEF Steady
  <2> HIDE DEF n, f, w
  <2>3. ASSUME NEW k \in 0 .. n - 1 PROVE SegmentType(Segment(s, Plus(s.snd_nxt, k), {"ACK"}, data(k)))
    <3>1. /\ f + k + 1 \in 1 .. Len(s.tx) + 1
          /\ f + Least(k + Mss, n) \in f + k .. Len(s.tx)
      <4> DEFINE end == Least(k + Mss, n)
                 len == Len(s.tx)
      <4>1. Mss \in Nat \ {0}
        BY Halves
      <4>2. /\ n \in Nat /\ f \in Nat /\ len \in Nat /\ k \in 0 .. n - 1
            /\ f + n <= len
        BY <2>2
      <4>3. end \in k .. n
        BY <4>1, <4>2 DEF Least
      <4> HIDE DEF end, len
      <4>4. f + k + 1 \in 1 .. len + 1 /\ f + end \in f + k .. len
        BY <4>2, <4>3
      <4> QED
        BY <4>4, Zenon DEF end, len
    <3>2. data(k) \in Seq(Nat)
      <4>1. s.tx \in Seq(Nat)
        BY Zenon DEF Steady, Typed
      <4> DEFINE from == f + k + 1
                 to == f + Least(k + Mss, n)
      <4>2. from \in 1 .. Len(s.tx) + 1 /\ to \in from - 1 .. Len(s.tx)
        BY <2>2, <3>1
      <4> HIDE DEF from, to
      <4>3. SubSeq(s.tx, from, to) \in Seq(Nat)
        BY <4>1, <4>2, Slices, Zenon
      <4> QED
        BY <4>3, Zenon DEF from, to
    <3>3. Plus(s.snd_nxt, k) \in SeqNo
      <4>1. k \in SeqNo
        BY <2>2, Halves DEF SeqNo
      <4> QED
        BY <4>1, Wraps, Zenon DEF Steady, Typed
    <3> HIDE DEF data
    <3> QED
      BY <3>2, <3>3, SegmentTyped, Zenon DEF Steady
  <2>4. \A m \in out : SegmentType(m)
    BY <2>3, Zenon
  <2>5. n # 0 => n \in 1 .. Buffer /\ Sent(s, n).timer_armed
    BY <2>2, <1>SentKeeps, Halves
  <2> HIDE DEF out
  <2>6. \/ SendData(s, w).s = s /\ n = 0
        \/ n \in 1 .. Buffer /\ SendData(s, w).s = Sent(s, n)
    BY <2>1, <2>2, <2>5
  <2> QED
    BY <2>1, <2>2, <2>4, <2>5, <2>6 DEF w, f
<1> SUFFICES ASSUME NEW s, Steady(s), s.state \in OutputStates, NEW cwnd \in Mss .. Buffer
             PROVE  LET o == Output(s, cwnd)
                    IN /\ Steady(o.s) /\ Kept(s, o.s) /\ o.s.state \in OutputStates
                       /\ s.timer_armed => o.s.timer_armed
                       /\ Ready(s) => o.s.timer_armed \/ Idle(o.s)
                       /\ \A m \in o.out : SegmentType(m)
  BY Zenon
<1> DEFINE r == SendData(s, Least(s.snd_wnd, cwnd))
           d == r.s
<1>1. /\ d = s \/ \E n \in 1 .. Buffer : d = Sent(s, n)
      /\ InFlight(s) = 0 /\ s.tx # <<>> => d.timer_armed
      /\ \A m \in r.out : SegmentType(m)
  BY <1>DataKeeps, Zenon
<1>2. /\ FinDue(d) => Output(s, cwnd) =
           [s |-> SendFin(d), out |-> r.out \cup {Segment(d, d.snd_nxt, {"ACK", "FIN"}, <<>>)}]
      /\ ~FinDue(d) => Output(s, cwnd) = r
  BY Zenon DEF Output, Result
<1> HIDE DEF r, d
<1>3. /\ Steady(d) /\ Kept(s, d) /\ d.state = s.state /\ d.tx = s.tx
      /\ s.timer_armed => d.timer_armed
      /\ d = s \/ d.timer_armed
  <2>1. CASE d = s
    BY <2>1, Zenon DEF Kept
  <2>2. ASSUME NEW n \in 1 .. Buffer, d = Sent(s, n)
        PROVE  Steady(d) /\ Kept(s, d) /\ d.state = s.state /\ d.tx = s.tx /\ d.timer_armed
    BY <2>2, <1>SentKeeps, Zenon
  <2> QED
    BY <1>1, <2>1, <2>2, Zenon
<1>4. CASE FinDue(d)
  <2>1. LET t == SendFin(d)
        IN Steady(t) /\ Kept(d, t) /\ t.timer_armed /\ t.state \in OutputStates
    BY <1>3, <1>4, <1>FinKeeps, Zenon DEF FinDue
  <2>2. SegmentType(Segment(d, d.snd_nxt, {"ACK", "FIN"}, <<>>))
    <3>1. d.snd_nxt \in SeqNo /\ <<>> \in Seq(Nat) /\ Typed(d) /\ OnFlow(d)
      BY <1>3 DEF Steady, Typed
    <3> QED
      BY <3>1, SegmentTyped, Zenon
  <2> QED
    BY <1>1, <1>2, <1>3, <1>4, <2>1, <2>2 DEF Kept
<1>5. CASE ~FinDue(d)
  <2>1. ASSUME Ready(s), ~d.timer_armed PROVE Idle(d)
    <3>1. d = s /\ ~s.timer_armed
      BY <1>3, <2>1, Zenon
    <3>2. s.snd_nxt = s.snd_una /\ ~(s.fin_seq_set /\ SEQ_GT(s.snd_nxt, s.fin_seq))
      BY <2>1, <3>1, Zenon DEF Ready
    <3>3. InFlight(s) = 0
      BY <3>2, Wraps DEF InFlight, Steady, Typed, SeqNo
    <3>4. s.tx = <<>>
      BY <1>1, <2>1, <3>3, Zenon
    <3>5. Unsent(s) = 0
      BY <3>3, <3>4 DEF Unsent, Most
    <3> QED
      BY <1>5, <3>1, <3>2, <3>4, <3>5, Zenon DEF FinDue, Idle
  <2> QED
    BY <1>1, <1>2, <1>3, <1>5, <2>1, Zenon DEF d
<1> QED
  BY <1>4, <1>5, Zenon

-----------------------------------------------------------------------------
(* What a handler makes of a socket.                                       *)

(* The states past the handshake in which there is still something to do. *)
Connected == OutputStates \cup {"FIN_WAIT_2"}

(* A connection with its timer armed if there is something to wait for, or *)
(* a socket that enter_closed has been called for.                         *)
Moves(s, t) ==
  \/ \E r : /\ Typed(r) /\ Windowed(r) /\ Kept(s, r) /\ (r.fin_seq_set => r.fin_queued)
            /\ \E e \in BOOLEAN : t = EnterClosed(r, e)
  \/ /\ Steady(t) /\ Kept(s, t) /\ t.state \in Connected \cup {"TIME_WAIT"}
     /\ t.state \in OutputStates => t.timer_armed \/ Idle(t)

(* What may become of a socket when a segment comes or a timer runs out. *)
Evolves(s, t) ==
  /\ SocketInv(t)
  /\ \/ t = Free /\ s.app_closed
     \/ /\ Kept(s, t) /\ t.state # "LISTEN"
        /\ t.state = "SYN_SENT" => s.state = "SYN_SENT"
        /\ t.state = "SYN_RECEIVED" => Handshake(s)

(* What is kept twice is kept. *)
LEMMA MovesAgain ==
  ASSUME NEW s, NEW u, NEW t, Kept(s, u), Moves(u, t)
  PROVE  Moves(s, t)
<1>1. \A r : Kept(u, r) => Kept(s, r)
  BY Zenon DEF Kept
<1> QED
  BY <1>1, Zenon DEF Moves

(* socket_reset leaves a socket as it should be. *)
LEMMA FreeIsFine == SocketInv(Free)
<1>1. Typed(Free)
  BY Halves DEF Typed, Free, Fields, State, SeqNo
<1>2. Windowed(Free) /\ Attended(Free) /\ Placed(Free)
  BY Wraps, Halves DEF Windowed, InFlight, Attended, Placed, Free, Handshake, OutputStates, SeqNo
<1> QED
  BY <1>1, <1>2, Zenon DEF SocketInv

(* A socket with a peer, whose timer a handler still has to see to. *)
Joined(s) ==
  /\ s.used /\ OnFlow(s) /\ s.local_port # 0 /\ s.accept_queue = <<>>
  /\ s.app_closed => s.fin_queued /\ s.parent = NoParent

(* Every socket that neither is closed nor listens has one. *)
LEMMA SocketJoined ==
  ASSUME NEW s, SocketInv(s), s.state \notin {"CLOSED", "LISTEN"}
  PROVE  Joined(s)
BY Zenon DEF SocketInv, Typed, Placed, Attended, OnFlow, Joined

(* What a handler may make of a connection is as it should be. *)
LEMMA MovesEvolve ==
  ASSUME NEW s, NEW t, Joined(s), Moves(s, t)
  PROVE  Evolves(s, t)
<1>0. /\ s.used /\ OnFlow(s) /\ s.local_port # 0 /\ s.accept_queue = <<>>
      /\ s.app_closed => s.fin_queued /\ s.parent = NoParent
  BY Zenon DEF Joined
<1>1. ASSUME NEW r, Typed(r), Windowed(r), Kept(s, r), r.fin_seq_set => r.fin_queued,
             NEW e \in BOOLEAN, t = EnterClosed(r, e)
      PROVE  Evolves(s, t)
  <2>1. CASE r.app_closed
    BY <1>1, <2>1, FreeIsFine, Zenon DEF EnterClosed, Evolves, Kept
  <2>2. CASE ~r.app_closed
    <3>1. DOMAIN r = Fields
      BY <1>1, Zenon DEF Typed
    <3>2. /\ DOMAIN t = Fields /\ Kept(r, t) /\ t.timer_armed = FALSE
          /\ t.state = "CLOSED" /\ t.tx = r.tx /\ t.rx = r.rx /\ t.rcv_nxt = r.rcv_nxt
          /\ t.snd_una = r.snd_una /\ t.iss = r.iss /\ t.snd_wnd = r.snd_wnd
          /\ t.fin_seq = r.fin_seq /\ t.fin_seq_set = r.fin_seq_set
          /\ t.snd_nxt = r.snd_nxt /\ t.snd_max = r.snd_max
      BY <1>1, <2>2, <3>1, FieldNames, Zenon DEF Kept, EnterClosed
    <3>3. Typed(t)
      BY <1>1, <3>2, Zenon DEF Typed, Kept, State
    <3>4. Windowed(t)
      BY <1>1, <3>2, Zenon DEF Windowed, InFlight
    <3>5. Kept(s, t)
      BY <1>1, <3>2, ZenonT(60) DEF Kept
    <3>6. Attended(t) /\ Placed(t)
      <4>1. ~t.app_closed /\ t.used /\ t.local_port # 0 /\ t.accept_queue = <<>>
        BY <1>0, <2>2, <3>2, <3>5, Zenon DEF Kept
      <4>2. t.fin_seq_set => t.fin_queued
        BY <1>1, <3>2, Zenon DEF Kept
      <4> QED
        BY <3>2, <4>1, <4>2, Zenon DEF Attended, Placed, Handshake, OutputStates
    <3> QED
      BY <3>2, <3>3, <3>4, <3>5, <3>6, Zenon DEF Evolves, SocketInv
  <2> QED
    BY <2>1, <2>2, Zenon
<1>2. ASSUME Steady(t), Kept(s, t), t.state \in Connected \cup {"TIME_WAIT"},
             t.state \in OutputStates => t.timer_armed \/ Idle(t)
      PROVE  Evolves(s, t)
  <2>1. t.state \notin {"CLOSED", "LISTEN", "SYN_SENT", "SYN_RECEIVED"}
    BY <1>2, Zenon DEF Connected, OutputStates
  <2>2. Attended(t)
    BY <1>0, <1>2, <2>1, Zenon DEF Attended, Handshake, Steady, Kept, Idle
  <2>3. Placed(t)
    BY <1>0, <1>2, <2>1, Zenon DEF Placed, Kept, OnFlow
  <2> QED
    BY <1>2, <2>1, <2>2, <2>3, Zenon DEF Evolves, SocketInv, Steady
<1> QED
  BY <1>1, <1>2, Zenon DEF Moves

(* process_segment, in whatever state. *)
LEMMA SegmentMoves ==
  \A s, m, cwnd, fast :
      /\ SocketInv(s)
      /\ s.state \notin {"CLOSED", "LISTEN"}
      /\ SegmentType(m)
      /\ cwnd \in Mss .. Buffer
    => LET r == ProcessSegment(s, m, cwnd, fast)
       IN Evolves(s, r.s) /\ \A k \in r.out : SegmentType(k)
(* An acknowledgement k that handle_ack takes for new, while there are len *)
(* bytes to send: nxt stays between una and max, and is k if k is max.     *)
<1>AckMoves. ASSUME NEW una \in SeqNo, NEW nxt \in SeqNo, NEW max \in SeqNo, NEW k \in SeqNo,
                    Minus(nxt, una) <= Minus(max, una), SEQ_LT(una, k), SEQ_LEQ(k, max)
             PROVE  LET to == IF SEQ_LT(nxt, k) THEN k ELSE nxt
                    IN to \in SeqNo /\ Minus(to, k) <= Minus(max, k) /\ (k = max => to = k)
  <2> USE <1>AckMoves
  <2> DEFINE to == IF SEQ_LT(nxt, k) THEN k ELSE nxt
  <2>1. /\ Minus(max, una) = IF una <= max THEN max - una ELSE max - una + SeqMod
        /\ Minus(nxt, una) = IF una <= nxt THEN nxt - una ELSE nxt - una + SeqMod
        /\ Minus(una, k) = IF k <= una THEN una - k ELSE una - k + SeqMod
        /\ Minus(k, max) = IF max <= k THEN k - max ELSE k - max + SeqMod
        /\ Minus(max, k) = IF k <= max THEN max - k ELSE max - k + SeqMod
        /\ Minus(nxt, k) = IF k <= nxt THEN nxt - k ELSE nxt - k + SeqMod
        /\ Minus(k, k) = 0
    BY Wraps, Halves DEF SeqNo
  <2>2. Half <= Minus(una, k) /\ (k = max \/ Half <= Minus(k, max))
    BY Wraps, Zenon DEF SEQ_LEQ
  <2>3. CASE Half <= Minus(nxt, k)
    <3>1. to = k
      BY <2>3, Wraps, Zenon
    <3>2. Minus(max, k) \in SeqNo
      BY Wraps, Zenon
    <3>3. 0 <= Minus(max, k)
      BY <3>2, Halves DEF SeqNo
    <3> QED
      BY <2>1, <3>1, <3>3, Zenon
  <2>4. CASE ~(Half <= Minus(nxt, k))
    <3>1. to = nxt
      BY <2>4, Wraps, Zenon
    <3>2. Minus(nxt, k) <= Minus(max, k) /\ (k = max => nxt = k)
      BY <2>1, <2>2, <2>4, Halves DEF SeqNo
    <3> QED
      BY <3>1, <3>2, Zenon
  <2> QED
    BY <2>3, <2>4, Zenon
(* How many bytes it takes off. *)
<1>AckTakes. ASSUME NEW una \in SeqNo, NEW k \in SeqNo, SEQ_LT(una, k), NEW len \in Nat, NEW fin \in {0, 1}
             PROVE  Least(Minus(k, una) - fin, len) \in 0 .. len
  <2> USE <1>AckTakes
  <2>1. /\ Minus(k, una) = IF una <= k THEN k - una ELSE k - una + SeqMod
        /\ Minus(una, k) = IF k <= una THEN una - k ELSE una - k + SeqMod
        /\ Half <= Minus(una, k)
    BY Wraps, Zenon
  <2>2. Minus(k, una) \in Nat /\ 1 <= Minus(k, una)
    BY <2>1, Halves DEF SeqNo
  <2> QED
    BY <2>2 DEF Least
(* The only acknowledgement that ends a handshake. *)
<1>ShakeMoves. ASSUME NEW iss \in SeqNo, NEW k \in SeqNo
               PROVE  LET nxt == Plus(iss, 1)
                      IN /\ nxt \in SeqNo
                         /\ SEQ_LT(iss, k) /\ SEQ_LEQ(k, nxt) => k = nxt
                         /\ ~SEQ_LEQ(k, iss) /\ ~SEQ_GT(k, nxt) => k = nxt
  <2> USE <1>ShakeMoves
  <2> DEFINE nxt == Plus(iss, 1)
  <2>1. 1 \in SeqNo
    BY Halves DEF SeqNo
  <2>2. nxt \in SeqNo /\ nxt = IF iss + 1 < SeqMod THEN iss + 1 ELSE iss + 1 - SeqMod
    BY <2>1, Wraps, Zenon
  <2> HIDE DEF nxt
  <2>3. /\ Minus(iss, k) = IF k <= iss THEN iss - k ELSE iss - k + SeqMod
        /\ Minus(k, iss) = IF iss <= k THEN k - iss ELSE k - iss + SeqMod
        /\ Minus(k, nxt) = IF nxt <= k THEN k - nxt ELSE k - nxt + SeqMod
    <3>0. nxt \in SeqNo
      BY <2>2, Zenon
    <3>1. Minus(iss, k) = IF k <= iss THEN iss - k ELSE iss - k + SeqMod
      BY Wraps, Zenon
    <3>2. Minus(k, iss) = IF iss <= k THEN k - iss ELSE k - iss + SeqMod
      BY Wraps, Zenon
    <3>3. Minus(k, nxt) = IF nxt <= k THEN k - nxt ELSE k - nxt + SeqMod
      BY <3>0, Wraps, Zenon
    <3> QED
      BY <3>1, <3>2, <3>3, Zenon
  <2>6. /\ SEQ_LT(iss, k) <=> Half <= Minus(iss, k)
        /\ SEQ_LT(k, iss) <=> Half <= Minus(k, iss)
        /\ SEQ_LT(k, nxt) <=> Half <= Minus(k, nxt)
    <3> HIDE DEF Half
    <3>1. SEQ_LT(iss, k) <=> Half <= Minus(iss, k)
      BY Wraps, Zenon
    <3>2. SEQ_LT(k, iss) <=> Half <= Minus(k, iss)
      BY Wraps, Zenon
    <3>3. SEQ_LT(k, nxt) <=> Half <= Minus(k, nxt)
      BY <2>2, Wraps, Zenon
    <3> QED
      BY <3>1, <3>2, <3>3, Zenon
  <2>4. Half <= Minus(iss, k) /\ Half <= Minus(k, nxt) => k = nxt
    BY <2>2, <2>3, Halves DEF SeqNo
  <2>5. k # iss /\ ~(Half <= Minus(k, iss)) /\ Half <= Minus(k, nxt) => k = nxt
    BY <2>2, <2>3, Halves DEF SeqNo
  <2> QED
    BY <2>2, <2>4, <2>5, <2>6, Zenon DEF SEQ_LEQ, SEQ_GT, nxt
(* A socket that is not touched. *)
<1>Unmoved. ASSUME NEW s, SocketInv(s), s.state # "LISTEN"
            PROVE  Evolves(s, s)
  BY <1>Unmoved, Zenon DEF Evolves, Kept, Handshake
(* The acknowledgement of a FIN moves the connection on. *)
<1>FinAckedKeeps. ASSUME NEW s, Steady(s), s.state \in Connected
                  PROVE  LET t == FinAcked(s)
                         IN \/ t = EnterClosed(s, FALSE) /\ t.state = "CLOSED"
                            \/ /\ Steady(t) /\ Kept(s, t) /\ t.state \in {"FIN_WAIT_2", "TIME_WAIT", s.state}
                               /\ t.state \in OutputStates => t = s /\ s.state \in {"ESTABLISHED", "CLOSE_WAIT"}
  <2> USE <1>FinAckedKeeps
  <2>1. DOMAIN s = Fields
    BY Zenon DEF Steady, Typed
  <2> DEFINE Good(t) == /\ Steady(t) /\ Kept(s, t) /\ t.state \in {"FIN_WAIT_2", "TIME_WAIT", s.state}
                        /\ t.state \in OutputStates => t = s /\ s.state \in {"ESTABLISHED", "CLOSE_WAIT"}
  <2>2. ASSUME NEW t, NEW armed \in BOOLEAN, NEW to \in {"FIN_WAIT_2", "TIME_WAIT"},
               t = [s EXCEPT !.state = to, !.timer_armed = armed]
        PROVE  Good(t)
    <3>1. /\ DOMAIN t = Fields /\ Kept(s, t) /\ t.timer_armed = armed
          /\ t.state = to /\ t.tx = s.tx /\ t.rx = s.rx /\ t.rcv_nxt = s.rcv_nxt
          /\ t.snd_una = s.snd_una /\ t.iss = s.iss /\ t.snd_wnd = s.snd_wnd
          /\ t.fin_seq = s.fin_seq /\ t.fin_seq_set = s.fin_seq_set
          /\ t.snd_nxt = s.snd_nxt /\ t.snd_max = s.snd_max
      BY <2>1, <2>2, FieldNames, ZenonT(60) DEF Kept
    <3>2. Typed(t)
      BY <3>1, Zenon DEF Steady, Typed, Kept, State
    <3>3. Windowed(t)
      BY <3>1, Zenon DEF Steady, Windowed, InFlight
    <3>4. Steady(t)
      BY <3>1, <3>2, <3>3, Zenon DEF Steady, OnFlow, Kept
    <3> QED
      BY <3>1, <3>4, Zenon DEF OutputStates
  <2>3. CASE s.state = "FIN_WAIT_1"
    <3>1. FinAcked(s) = [s EXCEPT !.state = "FIN_WAIT_2"]
      BY <2>3, Zenon DEF FinAcked
    <3>2. FinAcked(s) = [s EXCEPT !.state = "FIN_WAIT_2", !.timer_armed = s.timer_armed]
      BY <2>1, <3>1, FieldNames, Zenon
    <3>3. s.timer_armed \in BOOLEAN
      BY Zenon DEF Steady, Typed
    <3> QED
      BY <2>2, <3>2, <3>3, Zenon
  <2>4. CASE s.state = "CLOSING"
    BY <2>2, <2>4, Zenon DEF FinAcked, StartTimeWait
  <2>5. CASE s.state = "LAST_ACK"
    <3>1. FinAcked(s) = EnterClosed(s, FALSE)
      BY <2>5, Zenon DEF FinAcked
    <3>2. EnterClosed(s, FALSE).state = "CLOSED"
      BY <2>1, FieldNames, Zenon DEF EnterClosed, Free
    <3> QED
      BY <3>1, <3>2, Zenon
  <2>6. CASE s.state \in {"ESTABLISHED", "CLOSE_WAIT", "FIN_WAIT_2"}
    <3>1. FinAcked(s) = s
      BY <2>6, Zenon DEF FinAcked
    <3> QED
      BY <2>6, <3>1, Zenon DEF Kept, OutputStates
  <2> QED
    BY <2>3, <2>4, <2>5, <2>6, Zenon DEF Connected, OutputStates
(* handle_ack.  The timer is stopped only when everything that was sent is *)
(* acknowledged, and then tcp_output finds snd_nxt at snd_una.             *)
<1>AckKeeps. ASSUME NEW s, Steady(s), s.state \in Connected, s.state \in OutputStates => Ready(s),
                    NEW m, SegmentType(m), NEW fast
             PROVE  LET a == HandleAck(s, m, fast)
                    IN /\ \A k \in a.out : SegmentType(k)
                       /\ \/ a.s.state = "CLOSED" /\ Moves(s, a.s)
                          \/ /\ Steady(a.s) /\ Kept(s, a.s) /\ a.s.state \in Connected \cup {"TIME_WAIT"}
                             /\ a.s.state \in OutputStates => Ready(a.s)
  <2> USE <1>AckKeeps
  <2> DEFINE new == SEQ_LT(s.snd_una, m.ack) /\ SEQ_LEQ(m.ack, s.snd_max)
             fin == s.fin_seq_set /\ SEQ_GT(m.ack, s.fin_seq)
             n == Least(Minus(m.ack, s.snd_una) - (IF fin THEN 1 ELSE 0), Len(s.tx))
             rest == SubSeq(s.tx, n + 1, Len(s.tx))
             to == IF SEQ_LT(s.snd_nxt, m.ack) THEN m.ack ELSE s.snd_nxt
             armed == m.ack # s.snd_max
             moved == [s EXCEPT !.tx = rest, !.snd_una = m.ack, !.snd_nxt = to, !.retries = 0,
                                !.timer_armed = armed]
             acked == IF ~new THEN s ELSE IF fin THEN FinAcked(moved) ELSE moved
             fresh == \/ SEQ_LT(s.snd_wl1, m.seq)
                      \/ s.snd_wl1 = m.seq /\ SEQ_LEQ(s.snd_wl2, m.ack)
             after == IF acked.state # "CLOSED" /\ fresh
                      THEN [acked EXCEPT !.snd_wnd = m.wnd, !.snd_wl1 = m.seq, !.snd_wl2 = m.ack]
                      ELSE acked
             Fine(t) == /\ Steady(t) /\ Kept(s, t) /\ t.state \in Connected \cup {"TIME_WAIT"}
                        /\ t.state \in OutputStates => Ready(t)
  <2>1. HandleAck(s, m, fast) = [s |-> after, out |-> IF fast THEN HeadOf(s) ELSE {}]
    BY Zenon DEF HandleAck, Result
  <2>2. /\ DOMAIN s = Fields /\ m.ack \in SeqNo /\ m.wnd \in Nat /\ s.tx \in Seq(Nat)
        /\ s.snd_una \in SeqNo /\ s.snd_nxt \in SeqNo /\ s.snd_max \in SeqNo
        /\ Len(s.tx) \in 0 .. Buffer
    BY FlightTyped, Zenon DEF Steady, Typed, SegmentType
  <2>3. ASSUME new
        PROVE  /\ Steady(moved) /\ Kept(s, moved) /\ moved.state = s.state
               /\ ~fin => Ready(moved)
    <3>1. n \in 0 .. Len(s.tx)
      BY <2>2, <2>3, <1>AckTakes
    <3>2. rest \in Seq(Nat) /\ Len(rest) <= Buffer
      <4> HIDE DEF n
      <4>1. rest \in Seq(Nat) /\ Len(rest) <= Len(s.tx)
        BY <2>2, <3>1, Ends, Zenon
      <4>2. Len(rest) \in Nat
        BY <4>1
      <4> HIDE DEF rest
      <4> QED
        BY <2>2, <4>1, <4>2, Halves
    <3>3. /\ to \in SeqNo /\ Minus(to, m.ack) <= Minus(s.snd_max, m.ack)
          /\ m.ack = s.snd_max => to = m.ack
      BY <2>2, <2>3, <1>AckMoves DEF Steady, Windowed, InFlight
    <3> HIDE DEF n, rest, to, new, fin
    <3>4. /\ DOMAIN moved = Fields /\ Kept(s, moved) /\ moved.timer_armed = armed
          /\ moved.state = s.state /\ moved.tx = rest /\ moved.rx = s.rx
          /\ moved.rcv_nxt = s.rcv_nxt /\ moved.snd_una = m.ack /\ moved.iss = s.iss
          /\ moved.snd_wnd = s.snd_wnd /\ moved.fin_seq = s.fin_seq
          /\ moved.fin_seq_set = s.fin_seq_set /\ moved.snd_nxt = to /\ moved.snd_max = s.snd_max
      BY <2>2, FieldNames, ZenonT(60) DEF Kept
    <3>5. armed \in BOOLEAN /\ (~armed => to = m.ack)
      BY <3>3, Zenon
    <3> HIDE DEF moved, armed
    <3>6. Typed(moved)
      BY <2>2, <3>2, <3>3, <3>4, <3>5, Zenon DEF Steady, Typed, Kept
    <3>7. Windowed(moved)
      BY <3>3, <3>4, Zenon DEF Windowed, InFlight
    <3>8. Steady(moved)
      BY <3>4, <3>6, <3>7, Zenon DEF Steady, OnFlow, Kept
    <3>9. ~fin => Ready(moved)
      BY <3>4, <3>5, Zenon DEF Ready, fin
    <3> QED
      BY <3>4, <3>8, <3>9, Zenon
  <2>4. (acked.state = "CLOSED" /\ Moves(s, acked)) \/ Fine(acked)
    <3>1. CASE ~new
      <4>1. acked = s
        BY <3>1, Zenon
      <4> QED
        BY <4>1, Zenon DEF Kept
    <3>2. CASE new /\ ~fin
      <4>1. acked = moved
        BY <3>2, Zenon
      <4> HIDE DEF moved, new, fin, acked
      <4> QED
        BY <2>3, <3>2, <4>1, Zenon
    <3>3. CASE new /\ fin
      <4>1. acked = FinAcked(moved) /\ s.fin_seq_set
        BY <3>3, Zenon
      <4> HIDE DEF moved, new, fin, acked
      <4>2. s.state \notin {"ESTABLISHED", "CLOSE_WAIT"}
        BY <4>1, Zenon DEF Steady
      <4>3. \/ acked = EnterClosed(moved, FALSE) /\ acked.state = "CLOSED"
            \/ /\ Steady(acked) /\ Kept(moved, acked) /\ acked.state \in Connected \cup {"TIME_WAIT"}
               /\ acked.state \notin OutputStates
        BY <2>3, <3>3, <4>1, <4>2, <1>FinAckedKeeps, Zenon DEF Connected
      <4>4. CASE acked = EnterClosed(moved, FALSE) /\ acked.state = "CLOSED"
        BY <2>3, <3>3, <4>4, Zenon DEF Moves, Steady
      <4> QED
        BY <2>3, <3>3, <4>3, <4>4, Zenon DEF Kept
    <3> QED
      BY <3>1, <3>2, <3>3, Zenon
  <2>5. (after.state = "CLOSED" /\ Moves(s, after)) \/ Fine(after)
    <3> HIDE DEF acked, fresh
    <3>1. CASE after = acked
      BY <2>4, <3>1, Zenon
    <3>2. CASE /\ acked.state # "CLOSED"
               /\ after = [acked EXCEPT !.snd_wnd = m.wnd, !.snd_wl1 = m.seq, !.snd_wl2 = m.ack]
      <4>1. Fine(acked)
        BY <2>4, <3>2, Zenon
      <4>2. DOMAIN acked = Fields
        BY <4>1, Zenon DEF Steady, Typed
      <4>3. /\ DOMAIN after = Fields /\ Kept(acked, after) /\ after.timer_armed = acked.timer_armed
            /\ after.state = acked.state /\ after.tx = acked.tx /\ after.rx = acked.rx
            /\ after.rcv_nxt = acked.rcv_nxt /\ after.snd_una = acked.snd_una
            /\ after.iss = acked.iss /\ after.snd_wnd = m.wnd /\ after.fin_seq = acked.fin_seq
            /\ after.fin_seq_set = acked.fin_seq_set /\ after.snd_nxt = acked.snd_nxt
            /\ after.snd_max = acked.snd_max
        BY <3>2, <4>2, FieldNames, ZenonT(60) DEF Kept
      <4> HIDE DEF after
      <4>4. Typed(after)
        BY <2>2, <4>1, <4>3, Zenon DEF Steady, Typed, Kept
      <4>5. Windowed(after) /\ Kept(s, after)
        BY <4>1, <4>3 DEF Steady, Windowed, InFlight, Kept
      <4>6. Steady(after)
        BY <4>1, <4>3, <4>4, <4>5, Zenon DEF Steady, OnFlow, Kept
      <4> QED
        BY <4>1, <4>3, <4>5, <4>6, Zenon DEF Ready
    <3> QED
      BY <3>1, <3>2, Zenon
  <2>6. \A k \in HeadOf(s) : SegmentType(k)
    BY HeadTyped, Zenon DEF Steady
  <2> HIDE DEF after
  <2> QED
    BY <2>1, <2>5, <2>6
(* Taking data changes nothing of what is sent. *)
<1>DataTaken. ASSUME NEW s, Steady(s), NEW m, SegmentType(m)
              PROVE  LET t == TakeData(s, m)
                     IN Steady(t) /\ Kept(s, t) /\ t.state = s.state /\ (Ready(s) => Ready(t))
  <2> USE <1>DataTaken
  <2> DEFINE old == IF SEQ_LT(m.seq, s.rcv_nxt) THEN Minus(s.rcv_nxt, m.seq) ELSE 0
             n == Least(Len(m.data) - old, Buffer - Len(s.rx))
             rx == s.rx \o SubSeq(m.data, old + 1, old + n)
             at == Plus(s.rcv_nxt, n)
             t == [s EXCEPT !.rx = rx, !.rcv_nxt = at]
  <2>1. TakeData(s, m) = s \/ (n > 0 /\ TakeData(s, m) = t)
    BY Zenon DEF TakeData
  <2>2. /\ DOMAIN s = Fields /\ m.data \in Seq(Nat) /\ m.seq \in SeqNo /\ s.rcv_nxt \in SeqNo
        /\ s.rx \in Seq(Nat) /\ Len(s.rx) <= Buffer
    BY Zenon DEF Steady, Typed, SegmentType
  <2>3. old \in Nat
    <3>1. Minus(s.rcv_nxt, m.seq) \in SeqNo
      BY <2>2, Wraps, Zenon
    <3> QED
      BY <3>1, Halves DEF SeqNo
  <2> HIDE DEF old
  <2>4. CASE n > 0
    <3>1. n \in 1 .. Len(m.data) - old /\ n \in 1 .. Buffer - Len(s.rx) /\ n \in SeqNo
      <4> DEFINE a == Len(m.data) - old
                 b == Buffer - Len(s.rx)
      <4>1. a \in Int /\ b \in 0 .. Buffer
        BY <2>2, <2>3, Halves
      <4>2. n = Least(a, b) /\ n > 0
        BY <2>4, Zenon
      <4> HIDE DEF a, b, n
      <4>3. n \in 1 .. a /\ n \in 1 .. b /\ n \in SeqNo
        BY <4>1, <4>2, Halves DEF Least, SeqNo
      <4> QED
        BY <4>3, Zenon DEF a, b
    <3> HIDE DEF n
    <3>2. SubSeq(m.data, old + 1, old + n) \in Seq(Nat) /\ Len(SubSeq(m.data, old + 1, old + n)) = n
      <4> DEFINE len == Len(m.data)
                 from == old + 1
                 to == old + n
      <4>1. len \in Nat
        BY <2>2
      <4> HIDE DEF len
      <4>2. from \in 1 .. len + 1 /\ to \in from - 1 .. len /\ to - from + 1 = n
        BY <2>3, <3>1, <4>1 DEF len
      <4> HIDE DEF from, to
      <4>3. SubSeq(m.data, from, to) \in Seq(Nat) /\ Len(SubSeq(m.data, from, to)) = to - from + 1
        BY <2>2, <4>2, Slices, Zenon DEF len
      <4> QED
        BY <4>2, <4>3, Zenon DEF from, to
    <3>3. rx \in Seq(Nat) /\ Len(rx) <= Buffer
      <4> DEFINE new == SubSeq(m.data, old + 1, old + n)
      <4> HIDE DEF new
      <4>1. /\ s.rx \o new \in Seq(Nat) /\ Len(s.rx \o new) = Len(s.rx) + n
            /\ Len(s.rx) \in Nat
        BY <2>2, <3>2, Concatenated, Zenon DEF new
      <4>2. Len(s.rx) + n <= Buffer
        BY <3>1, <4>1, Halves
      <4> QED
        BY <4>1, <4>2, Zenon DEF new
    <3>4. at \in SeqNo
      BY <2>2, <3>1, Wraps, Zenon
    <3> HIDE DEF rx, at
    <3>5. /\ DOMAIN t = Fields /\ Kept(s, t) /\ t.timer_armed = s.timer_armed
          /\ t.state = s.state /\ t.tx = s.tx /\ t.rx = rx /\ t.rcv_nxt = at
          /\ t.snd_una = s.snd_una /\ t.iss = s.iss /\ t.snd_wnd = s.snd_wnd
          /\ t.fin_seq = s.fin_seq /\ t.fin_seq_set = s.fin_seq_set
          /\ t.snd_nxt = s.snd_nxt /\ t.snd_max = s.snd_max
      BY <2>2, FieldNames, Zenon DEF Kept
    <3> HIDE DEF t
    <3>6. Typed(t)
      BY <3>3, <3>4, <3>5, Zenon DEF Steady, Typed, Kept
    <3>7. Windowed(t)
      BY <3>5, Zenon DEF Steady, Windowed, InFlight
    <3>8. Steady(t)
      BY <3>5, <3>6, <3>7, Zenon DEF Steady, OnFlow, Kept
    <3>9. Ready(s) => Ready(t)
      BY <3>5, Zenon DEF Ready
    <3>10. Steady(s) /\ Kept(s, s)
      BY Zenon DEF Kept
    <3> QED
      BY <2>1, <3>5, <3>8, <3>9, <3>10, Zenon
  <2>5. CASE ~(n > 0)
    <3>1. TakeData(s, m) = s
      BY <2>1, <2>5, Zenon
    <3> QED
      BY <3>1, Zenon DEF Kept
  <2> QED
    BY <2>4, <2>5, Zenon
(* Nor does taking a FIN, except that a connection that has sent its own   *)
(* waits no longer.                                                        *)
<1>FinTaken. ASSUME NEW s, Steady(s), s.state \in ReceiveStates
             PROVE  LET t == TakeFin(s)
                    IN /\ Steady(t) /\ Kept(s, t) /\ t.state \in Connected \cup {"TIME_WAIT"}
                       /\ t.state \in OutputStates /\ Ready(s) => Ready(t)
                       /\ t.state \in OutputStates => s.state \in OutputStates
  <2> USE <1>FinTaken
  <2> DEFINE wait == ~(s.state = "ESTABLISHED" \/ (s.state = "FIN_WAIT_1"
                          /\ ~(s.fin_seq_set /\ SEQ_GT(s.snd_una, s.fin_seq))))
             to == IF wait THEN "TIME_WAIT"
                   ELSE IF s.state = "ESTABLISHED" THEN "CLOSE_WAIT" ELSE "CLOSING"
             armed == IF wait THEN FALSE ELSE s.timer_armed
             at == Plus(s.rcv_nxt, 1)
             t == TakeFin(s)
  <2>1. /\ DOMAIN s = Fields /\ at \in SeqNo /\ s.timer_armed \in BOOLEAN
        /\ s.state = "ESTABLISHED" => ~s.fin_seq_set
    <3>1. 1 \in SeqNo
      BY Halves DEF SeqNo
    <3> QED
      BY <3>1, Wraps, Zenon DEF Steady, Typed
  <2> HIDE DEF at
  <2>2. /\ DOMAIN t = Fields /\ Kept(s, t) /\ t.timer_armed = armed
        /\ t.state = to /\ t.tx = s.tx /\ t.rx = s.rx /\ t.rcv_nxt = at
        /\ t.snd_una = s.snd_una /\ t.iss = s.iss /\ t.snd_wnd = s.snd_wnd
        /\ t.fin_seq = s.fin_seq /\ t.fin_seq_set = s.fin_seq_set
        /\ t.snd_nxt = s.snd_nxt /\ t.snd_max = s.snd_max
    <3>1. CASE s.state = "ESTABLISHED"
      <4>1. t = [[s EXCEPT !.rcv_nxt = at, !.fin_received = TRUE] EXCEPT !.state = "CLOSE_WAIT"]
        BY <3>1, Zenon DEF TakeFin, at
      <4> QED
        BY <2>1, <3>1, <4>1, FieldNames DEF Kept
    <3>2. CASE s.state = "FIN_WAIT_1" /\ ~wait
      <4>1. t = [[s EXCEPT !.rcv_nxt = at, !.fin_received = TRUE] EXCEPT !.state = "CLOSING"]
        BY <3>2, Zenon DEF TakeFin, at
      <4> QED
        BY <2>1, <3>2, <4>1, FieldNames DEF Kept
    <3>3. CASE wait
      <4>1. t = [[s EXCEPT !.rcv_nxt = at, !.fin_received = TRUE]
                   EXCEPT !.state = "TIME_WAIT", !.timer_armed = FALSE]
        BY <3>3, Zenon DEF TakeFin, StartTimeWait, at
      <4> QED
        BY <2>1, <3>3, <4>1, FieldNames DEF Kept
    <3> QED
      BY <3>1, <3>2, <3>3, Zenon
  <2>3. /\ to \in {"CLOSE_WAIT", "CLOSING", "TIME_WAIT"} /\ armed \in BOOLEAN
        /\ to = "CLOSE_WAIT" => s.state = "ESTABLISHED"
        /\ to = "CLOSING" => s.state = "FIN_WAIT_1"
        /\ to # "TIME_WAIT" => armed = s.timer_armed
    BY <2>1, Zenon DEF ReceiveStates
  <2> HIDE DEF t, to, armed, wait
  <2>4. Typed(t)
    BY <2>1, <2>2, <2>3, Zenon DEF Steady, Typed, Kept, State
  <2>5. Windowed(t)
    BY <2>2, Zenon DEF Steady, Windowed, InFlight
  <2>6. Steady(t)
    BY <2>1, <2>2, <2>3, <2>4, <2>5, Zenon DEF Steady, OnFlow, Kept
  <2>7. /\ t.state \in Connected \cup {"TIME_WAIT"}
        /\ t.state \in OutputStates => t.state # "TIME_WAIT" /\ s.state \in OutputStates
    BY <2>2, <2>3, Zenon DEF Connected, OutputStates
  <2>8. t.state \in OutputStates /\ Ready(s) => Ready(t)
    BY <2>2, <2>3, <2>7, Zenon DEF Ready
  <2> QED
    BY <2>2, <2>6, <2>7, <2>8, Zenon DEF t
(* A segment that arrives for a connection. *)
<1>ConnectionMoves. ASSUME NEW s, Steady(s), s.state \in Connected, s.state \in OutputStates => Ready(s),
                           NEW m, SegmentType(m), NEW cwnd \in Mss .. Buffer, NEW fast
                    PROVE  LET r == InConnection(s, m, cwnd, fast)
                           IN Moves(s, r.s) /\ \A k \in r.out : SegmentType(k)
  <2> USE <1>ConnectionMoves
  <2> DEFINE a == HandleAck(s, m, fast)
             d == TakeData(a.s, m)
             f == IF FinArrives(d, m) THEN TakeFin(d) ELSE d
             o == Output(f, cwnd)
             need_ack == HasNewData(a.s, m) \/ FinArrives(d, m)
             Fine(t) == /\ Steady(t) /\ Kept(s, t) /\ t.state \in Connected \cup {"TIME_WAIT"}
                        /\ t.state \in OutputStates => Ready(t)
  <2>1. /\ \A k \in a.out : SegmentType(k)
        /\ (a.s.state = "CLOSED" /\ Moves(s, a.s)) \/ Fine(a.s)
    BY <1>AckKeeps, Zenon
  <2>2. CASE a.s.state = "CLOSED"
    <3>1. InConnection(s, m, cwnd, fast) = a
      BY <2>2, Zenon DEF InConnection
    <3>2. "CLOSED" \notin Connected \cup {"TIME_WAIT"}
      BY Zenon DEF Connected, OutputStates
    <3> HIDE DEF a
    <3> QED
      BY <2>1, <2>2, <3>1, <3>2, Zenon
  <2>3. CASE a.s.state # "CLOSED"
    <3>1. InConnection(s, m, cwnd, fast)
            = [s |-> o.s, out |-> a.out \cup o.out \cup IF need_ack THEN {AckOf(o.s)} ELSE {}]
      BY <2>3, Zenon DEF InConnection, Result
    <3> HIDE DEF a
    <3>2. Fine(a.s)
      BY <2>1, <2>3, Zenon
    <3>3. Fine(d)
      <4>1. Steady(d) /\ Kept(a.s, d) /\ d.state = a.s.state /\ (Ready(a.s) => Ready(d))
        BY <3>2, <1>DataTaken, Zenon
      <4> HIDE DEF d
      <4> QED
        BY <3>2, <4>1, Zenon DEF Kept
    <3> HIDE DEF d
    <3>4. Fine(f)
      <4>1. CASE FinArrives(d, m)
        <5>1. f = TakeFin(d) /\ d.state \in ReceiveStates
          BY <4>1, Zenon DEF FinArrives
        <5>2. /\ Steady(f) /\ Kept(d, f) /\ f.state \in Connected \cup {"TIME_WAIT"}
              /\ f.state \in OutputStates /\ Ready(d) => Ready(f)
              /\ f.state \in OutputStates => d.state \in OutputStates
          BY <3>3, <5>1, <1>FinTaken, Zenon
        <5> HIDE DEF f
        <5> QED
          BY <3>3, <5>2, Zenon DEF Kept
      <4>2. CASE ~FinArrives(d, m)
        <5>1. f = d
          BY <4>2, Zenon
        <5> QED
          BY <3>3, <5>1, Zenon
      <4> QED
        BY <4>1, <4>2, Zenon
    <3> HIDE DEF f
    <3>5. /\ Steady(o.s) /\ Kept(s, o.s) /\ o.s.state \in Connected \cup {"TIME_WAIT"}
          /\ o.s.state \in OutputStates => o.s.timer_armed \/ Idle(o.s)
          /\ \A k \in o.out : SegmentType(k)
      <4>1. CASE f.state \in OutputStates
        <5>1. /\ Steady(o.s) /\ Kept(f, o.s) /\ o.s.state \in OutputStates
              /\ Ready(f) => o.s.timer_armed \/ Idle(o.s)
              /\ \A k \in o.out : SegmentType(k)
          BY <3>4, <4>1, OutputKeeps, Zenon
        <5> HIDE DEF o
        <5> QED
          BY <3>4, <4>1, <5>1, Zenon DEF Kept, Connected
      <4>2. CASE f.state \notin OutputStates
        <5>1. o.s = f /\ o.out = {}
          BY <4>2, Zenon DEF Output, Result
        <5> HIDE DEF o
        <5> QED
          BY <3>4, <4>2, <5>1, Zenon
      <4> QED
        BY <4>1, <4>2, Zenon
    <3> HIDE DEF o, need_ack
    <3>6. SegmentType(AckOf(o.s))
      BY <3>5, AckTyped, Zenon DEF Steady
    <3>7. Moves(s, o.s)
      BY <3>5, Zenon DEF Moves
    <3> QED
      BY <2>1, <3>1, <3>5, <3>6, <3>7
  <2> QED
    BY <2>2, <2>3, Zenon
(* The end of a handshake: a connection with nothing in flight. *)
<1>ShakeEnds. ASSUME NEW s, SocketInv(s), Handshake(s), NEW u,
                     DOMAIN u = Fields, Kept(s, u), u.state = "ESTABLISHED", u.timer_armed = FALSE,
                     u.snd_una = s.snd_nxt, u.snd_nxt = s.snd_nxt, u.snd_max = s.snd_max,
                     u.fin_seq_set = s.fin_seq_set, u.fin_seq = s.fin_seq, u.iss = s.iss,
                     u.tx = s.tx, u.rx = s.rx, u.rcv_nxt \in SeqNo, u.snd_wnd \in Nat
              PROVE  Steady(u) /\ Ready(u) /\ u.state \in OutputStates
  <2> USE <1>ShakeEnds
  <2>1. Shaking(s) /\ Typed(s)
    BY Zenon DEF SocketInv, Attended
  <2>2. OnFlow(s)
    BY Zenon DEF SocketInv, Placed, Handshake, OnFlow
  <2>3. Typed(u)
    BY <2>1, Zenon DEF Typed, Kept, State
  <2>4. Windowed(u)
    <3>1. u.snd_nxt \in SeqNo /\ u.snd_una = u.snd_nxt /\ u.snd_max = u.snd_nxt
      BY <2>1, Zenon DEF Typed, Shaking
    <3>2. Minus(u.snd_nxt, u.snd_nxt) \in SeqNo
      BY <3>1, Wraps, Zenon
    <3>3. Minus(u.snd_nxt, u.snd_nxt) <= Minus(u.snd_nxt, u.snd_nxt)
      BY <3>2, Halves DEF SeqNo
    <3> QED
      BY <3>1, <3>3, Zenon DEF Windowed, InFlight
  <2>5. ~u.fin_seq_set
    BY <2>1, Zenon DEF Shaking
  <2> QED
    BY <2>2, <2>3, <2>4, <2>5, Zenon DEF Steady, OnFlow, Kept, Ready, OutputStates
(* process_segment in SYN_SENT. *)
<1>SynSentMoves. ASSUME NEW s, SocketInv(s), s.state = "SYN_SENT", NEW m, SegmentType(m),
                        NEW cwnd \in Mss .. Buffer
                 PROVE  LET r == InSynSent(s, m, cwnd)
                        IN Evolves(s, r.s) /\ \A k \in r.out : SegmentType(k)
  <2> USE <1>SynSentMoves
  <2> DEFINE bad == "ACK" \in m.flags /\ (SEQ_LEQ(m.ack, s.iss) \/ SEQ_GT(m.ack, s.snd_nxt))
             at == Plus(m.seq, 1)
             peer == [s EXCEPT !.irs = m.seq, !.rcv_nxt = at,
                               !.snd_wnd = m.wnd, !.snd_wl1 = m.seq, !.snd_wl2 = m.ack]
             up == BecomeEstablished([peer EXCEPT !.snd_una = m.ack])
             both == [peer EXCEPT !.state = "SYN_RECEIVED", !.timer_armed = TRUE]
             r == InSynSent(s, m, cwnd)
  <2>1. /\ Shaking(s) /\ Typed(s) /\ OnFlow(s) /\ DOMAIN s = Fields /\ s.state \notin {"CLOSED", "LISTEN"}
        /\ m.ack \in SeqNo /\ m.seq \in SeqNo /\ m.wnd \in Nat /\ at \in SeqNo /\ s.iss \in SeqNo
    <3>1. Typed(s) /\ Shaking(s) /\ OnFlow(s)
      BY Zenon DEF SocketInv, Attended, Handshake, Placed, OnFlow
    <3>2. m.ack \in SeqNo /\ m.seq \in SeqNo /\ m.wnd \in Nat /\ 1 \in SeqNo
      BY Halves DEF SegmentType, SeqNo
    <3> QED
      BY <3>1, <3>2, Wraps, Zenon DEF Typed
  <2> HIDE DEF at
  <2>2. Evolves(s, s)
    BY <2>1, <1>Unmoved, Zenon
  <2>3. CASE bad
    <3>1. r = [s |-> s, out |-> IF "RST" \in m.flags THEN {}
                                ELSE {ResetSegment(s.local_port, s.remote_port, m.ack, 0, {"RST"})}]
      BY <2>3, Zenon DEF InSynSent, Result
    <3>2. SegmentType(ResetSegment(s.local_port, s.remote_port, m.ack, 0, {"RST"}))
      BY <2>1, ResetTyped, Halves, Zenon DEF OnFlow
    <3> QED
      BY <2>2, <3>1, <3>2
  <2>4. CASE ~bad /\ "RST" \in m.flags
    <3>1. r.out = {} /\ (r.s = s \/ r.s = EnterClosed(s, TRUE))
      BY <2>4, Zenon DEF InSynSent, Result
    <3>2. Moves(s, EnterClosed(s, TRUE))
      <4>1. Typed(s) /\ Windowed(s) /\ Kept(s, s) /\ (s.fin_seq_set => s.fin_queued)
        BY Zenon DEF SocketInv, Kept, Attended
      <4> QED
        BY <4>1, Zenon DEF Moves
    <3> QED
      BY <2>1, <2>2, <3>1, <3>2, MovesEvolve, SocketJoined, Zenon
  <2>5. CASE ~bad /\ "RST" \notin m.flags /\ "SYN" \notin m.flags
    <3>1. r = [s |-> s, out |-> {}]
      BY <2>5, ZenonT(60) DEF InSynSent, Result
    <3> QED
      BY <2>2, <3>1
  <2>6. CASE ~bad /\ "RST" \notin m.flags /\ "SYN" \in m.flags /\ "ACK" \in m.flags
    <3> DEFINE o == Output(up, cwnd)
    <3>1. r = [s |-> o.s, out |-> o.out \cup {AckOf(up)}]
      BY <2>6, Zenon DEF InSynSent, Result, at
    <3>2. m.ack = s.snd_nxt
      BY <2>1, <2>6, <1>ShakeMoves, Zenon DEF Shaking
    <3>3. /\ DOMAIN up = Fields /\ Kept(s, up) /\ up.state = "ESTABLISHED" /\ up.timer_armed = FALSE
          /\ up.snd_una = m.ack /\ up.snd_nxt = s.snd_nxt /\ up.snd_max = s.snd_max
          /\ up.fin_seq_set = s.fin_seq_set /\ up.fin_seq = s.fin_seq /\ up.iss = s.iss
          /\ up.tx = s.tx /\ up.rx = s.rx /\ up.rcv_nxt = at /\ up.snd_wnd = m.wnd
      BY <2>1, FieldNames, ZenonT(60) DEF BecomeEstablished, Kept
    <3> HIDE DEF up
    <3>4. Steady(up) /\ Ready(up) /\ up.state \in OutputStates
      BY <2>1, <3>2, <3>3, <1>ShakeEnds, Zenon DEF Handshake
    <3>5. /\ Steady(o.s) /\ Kept(up, o.s) /\ o.s.state \in OutputStates
          /\ Ready(up) => o.s.timer_armed \/ Idle(o.s)
          /\ \A k \in o.out : SegmentType(k)
      BY <3>4, OutputKeeps, Zenon
    <3> HIDE DEF o
    <3>6. Moves(s, o.s)
      BY <3>3, <3>4, <3>5, Zenon DEF Moves, Kept, Connected
    <3>7. SegmentType(AckOf(up))
      BY <3>4, AckTyped, ZenonT(60) DEF Steady
    <3> QED
      BY <2>1, <3>1, <3>5, <3>6, <3>7, MovesEvolve, SocketJoined
  <2>7. CASE ~bad /\ "RST" \notin m.flags /\ "SYN" \in m.flags /\ "ACK" \notin m.flags
    <3>1. r = [s |-> both, out |-> {SynOf(both)}]
      BY <2>7, Zenon DEF InSynSent, Result, at
    <3>2. /\ DOMAIN both = Fields /\ Kept(s, both) /\ both.state = "SYN_RECEIVED"
          /\ both.timer_armed = TRUE
          /\ both.snd_una = s.snd_una /\ both.snd_nxt = s.snd_nxt /\ both.snd_max = s.snd_max
          /\ both.fin_seq_set = s.fin_seq_set /\ both.fin_seq = s.fin_seq /\ both.iss = s.iss
          /\ both.tx = s.tx /\ both.rx = s.rx /\ both.rcv_nxt = at /\ both.snd_wnd = m.wnd
      BY <2>1, FieldNames, Zenon DEF Kept
    <3> HIDE DEF both
    <3>3. Typed(both)
      BY <2>1, <3>2, Zenon DEF Typed, Kept, State
    <3>4. Windowed(both)
      BY <3>2, Zenon DEF SocketInv, Windowed, InFlight
    <3>5. Attended(both)
      BY <2>1, <3>2, Zenon DEF SocketInv, Attended, Kept, Handshake, Shaking, OutputStates
    <3>6. Placed(both)
      BY <2>1, <3>2, Zenon DEF SocketInv, Placed, Kept
    <3>7. SegmentType(SynOf(both))
      BY <2>1, <3>2, <3>3, AckTyped, Zenon DEF OnFlow, Kept
    <3> QED
      BY <3>1, <3>2, <3>3, <3>4, <3>5, <3>6, <3>7 DEF Evolves, SocketInv, Handshake
  <2> QED
    BY <2>3, <2>4, <2>5, <2>6, <2>7, Zenon
<1> SUFFICES ASSUME NEW s, SocketInv(s), s.state \notin {"CLOSED", "LISTEN"}, NEW m, SegmentType(m),
                    NEW cwnd \in Mss .. Buffer, NEW fast
             PROVE  LET r == ProcessSegment(s, m, cwnd, fast)
                    IN Evolves(s, r.s) /\ \A k \in r.out : SegmentType(k)
  BY Zenon
<1> DEFINE r == ProcessSegment(s, m, cwnd, fast)
           reset(seq) == ResetSegment(s.local_port, s.remote_port, seq, 0, {"RST"})
<1>1. Typed(s) /\ OnFlow(s) /\ m.ack \in SeqNo /\ s.snd_nxt \in SeqNo
  BY Zenon DEF SocketInv, Placed, OnFlow, SegmentType, Typed
<1>2. Evolves(s, s)
  BY <1>Unmoved, Zenon
<1>3. Evolves(s, EnterClosed(s, TRUE))
  <2>1. Typed(s) /\ Windowed(s) /\ Kept(s, s) /\ (s.fin_seq_set => s.fin_queued)
    BY Zenon DEF SocketInv, Kept, Attended
  <2>2. Moves(s, EnterClosed(s, TRUE))
    BY <2>1, Zenon DEF Moves
  <2> QED
    BY <2>2, MovesEvolve, SocketJoined, Zenon
<1>4. /\ SegmentType(AckOf(s)) /\ SegmentType(SynOf(s))
      /\ SegmentType(reset(m.ack)) /\ SegmentType(reset(s.snd_nxt))
  BY <1>1, AckTyped, ResetTyped, Halves, Zenon DEF OnFlow
<1> HIDE DEF reset
<1>5. CASE s.state = "SYN_SENT"
  <2>1. r = InSynSent(s, m, cwnd)
    BY <1>5, Zenon DEF ProcessSegment
  <2> QED
    BY <1>5, <2>1, <1>SynSentMoves, Zenon
<1>6. CASE s.state = "TIME_WAIT"
  <2>1. r.s = s /\ (r.out = {} \/ r.out = {AckOf(s)})
    BY <1>6, Zenon DEF ProcessSegment, Result
  <2> QED
    BY <1>2, <1>4, <2>1, Zenon
<1>7. CASE s.state \notin {"SYN_SENT", "TIME_WAIT"}
  <2> DEFINE Done == Evolves(s, r.s) /\ \A k \in r.out : SegmentType(k)
  <2>1. \/ r.s = s /\ (r.out = {} \/ r.out = {AckOf(s)} \/ r.out = {SynOf(s)})
        \/ r.s = EnterClosed(s, TRUE) /\ (r.out = {} \/ r.out = {reset(s.snd_nxt)})
        \/ s.state = "SYN_RECEIVED" /\ r = InSynReceived(s, m, cwnd, fast)
        \/ s.state # "SYN_RECEIVED" /\ r = InConnection(s, m, cwnd, fast)
    BY <1>7, Zenon DEF ProcessSegment, Result, reset
  <2>2. ASSUME s.state = "SYN_RECEIVED", r = InSynReceived(s, m, cwnd, fast)
        PROVE  Done
    <3> DEFINE up == BecomeEstablished([s EXCEPT !.snd_una = m.ack, !.snd_wnd = m.wnd,
                                                 !.snd_wl1 = m.seq, !.snd_wl2 = m.ack])
    <3>1. CASE SEQ_LT(s.snd_una, m.ack) /\ SEQ_LEQ(m.ack, s.snd_nxt)
      <4>1. r = InConnection(up, m, cwnd, fast)
        BY <2>2, <3>1, Zenon DEF InSynReceived
      <4>2. Shaking(s) /\ Handshake(s) /\ s.iss \in SeqNo /\ DOMAIN s = Fields /\ s.rcv_nxt \in SeqNo
        BY <2>2, Zenon DEF SocketInv, Attended, Handshake, Typed
      <4>3. m.ack = s.snd_nxt
        BY <1>1, <3>1, <4>2, <1>ShakeMoves, Zenon DEF Shaking
      <4>4. /\ DOMAIN up = Fields /\ Kept(s, up) /\ up.state = "ESTABLISHED" /\ up.timer_armed = FALSE
            /\ up.snd_una = m.ack /\ up.snd_nxt = s.snd_nxt /\ up.snd_max = s.snd_max
            /\ up.fin_seq_set = s.fin_seq_set /\ up.fin_seq = s.fin_seq /\ up.iss = s.iss
            /\ up.tx = s.tx /\ up.rx = s.rx /\ up.rcv_nxt = s.rcv_nxt /\ up.snd_wnd = m.wnd
        BY <4>2, FieldNames, ZenonT(60) DEF BecomeEstablished, Kept
      <4> HIDE DEF up
      <4>5. m.wnd \in Nat
        BY Zenon DEF SegmentType
      <4>6. Steady(up) /\ Ready(up) /\ up.state \in OutputStates
        BY <4>2, <4>3, <4>4, <4>5, <1>ShakeEnds, Zenon
      <4>7. Moves(up, r.s) /\ \A k \in r.out : SegmentType(k)
        BY <4>1, <4>6, <1>ConnectionMoves, ZenonT(60) DEF Connected
      <4>8. Moves(s, r.s)
        BY <4>4, <4>7, MovesAgain, Zenon
      <4> QED
        BY <4>7, <4>8, MovesEvolve, SocketJoined, ZenonT(60)
    <3>2. CASE ~(SEQ_LT(s.snd_una, m.ack) /\ SEQ_LEQ(m.ack, s.snd_nxt))
      <4>1. r = [s |-> s, out |-> {reset(m.ack)}]
        BY <2>2, <3>2, Zenon DEF InSynReceived, Result, reset
      <4> QED
        BY <1>2, <1>4, <4>1
    <3> QED
      BY <3>1, <3>2, Zenon
  <2>3. ASSUME s.state # "SYN_RECEIVED", r = InConnection(s, m, cwnd, fast)
        PROVE  Done
    <3>1. s.state \in Connected
      BY <1>1, <1>7, <2>3, Zenon DEF Typed, State, Connected, OutputStates
    <3>2. Steady(s)
      BY <1>1, Zenon DEF SocketInv, Attended, Steady
    <3>3. s.state \in OutputStates => Ready(s)
      BY Zenon DEF SocketInv, Attended, Ready
    <3>4. Moves(s, r.s) /\ \A k \in r.out : SegmentType(k)
      BY <2>3, <3>1, <3>2, <3>3, <1>ConnectionMoves, Zenon
    <3> QED
      BY <3>4, MovesEvolve, SocketJoined, Zenon
  <2> HIDE DEF r
  <2>4. ASSUME r.s = s, r.out = {} \/ r.out = {AckOf(s)} \/ r.out = {SynOf(s)}
        PROVE  Done
    BY <1>2, <1>4, <2>4, Zenon
  <2>5. ASSUME r.s = EnterClosed(s, TRUE), r.out = {} \/ r.out = {reset(s.snd_nxt)}
        PROVE  Done
    BY <1>3, <1>4, <2>5, Zenon
  <2>6. Done
    <3> HIDE DEF Done
    <3> QED
      BY <2>1, <2>2, <2>3, <2>4, <2>5, Zenon
  <2> QED
    BY <2>6, Zenon DEF r
<1> QED
  BY <1>5, <1>6, <1>7, Zenon

-----------------------------------------------------------------------------
(* The table.                                                              *)

(* No slot stands for the absence of a parent. *)
LEMMA NoSlotIsNoParent == NoParent \notin Slot
BY TcpAssumption DEF NoParent

(* socket_allocate finds a slot if there is one. *)
LEMMA FirstIsFree ==
  ASSUME SlotSets, FreeSlots # {}
  PROVE  FirstFree \in FreeSlots
<1>1. FreeSlots \in SUBSET Slot
  BY Zenon DEF FreeSlots
<1>2. \E x \in FreeSlots : \A y \in FreeSlots : x <= y
  BY <1>1, Zenon DEF SlotSets
<1> QED
  BY <1>2, Zenon DEF FirstFree

(* The children in a handshake can be counted. *)
LEMMA PendingCounts ==
  ASSUME SlotSets, NEW T, NEW l
  PROVE  /\ Pending(T, l) \in SUBSET Slot /\ Cardinality(Pending(T, l)) \in Nat
         /\ \A P \in SUBSET Pending(T, l) : /\ Cardinality(P) \in Nat
                                            /\ Cardinality(P) <= Cardinality(Pending(T, l))
<1>1. Pending(T, l) \in SUBSET Slot
  BY Zenon DEF Pending
<1>2. ASSUME NEW S \in SUBSET Slot, NEW P \in SUBSET S
      PROVE  Cardinality(S) \in Nat /\ Cardinality(P) \in Nat /\ Cardinality(P) <= Cardinality(S)
  <2>1. P \in SUBSET Slot
    BY <1>2, Zenon
  <2> QED
    BY <1>2, <2>1, Zenon DEF SlotSets
<1>3. Pending(T, l) \in SUBSET Pending(T, l)
  BY Zenon
<1> QED
  BY <1>1, <1>2, <1>3, Zenon

(* Every segment under way after a step was under way or has been sent. *)
LEMMA Transmitted ==
  ASSUME NEW kept, NEW out, NEW cost, Transmit(kept, out, cost),
         \A m \in kept : SegmentType(m), \A m \in out : SegmentType(m)
  PROVE  \A m \in network' : SegmentType(m)
BY Zenon DEF Transmit

(* A queue is right as long as the children that it is about stay, none    *)
(* comes and none gets through the handshake.                              *)
LEMMA QueueKept ==
  ASSUME SlotSets,
         NEW T, NEW U, NEW l \in Slot, NEW q, QueueInv(T, l, q),
         \A j \in Slot : T[j].used /\ T[j].parent = l /\ T[j].state # "SYN_RECEIVED" =>
           U[j].used /\ U[j].parent = l /\ U[j].state # "SYN_RECEIVED",
         \A j \in Slot : U[j].used /\ U[j].parent = l =>
           /\ T[j].used /\ T[j].parent = l
           /\ U[j].state = "SYN_RECEIVED" => T[j].state = "SYN_RECEIVED"
           /\ Through(U[j]) => Through(T[j])
  PROVE  QueueInv(U, l, q)
<1>1. q \in Seq(Slot) /\ \A j, k \in 1 .. Len(q) : q[j] = q[k] => j = k
  BY Zenon DEF QueueInv
<1>2. \A k \in 1 .. Len(q) : q[k] \in Slot
  BY <1>1
<1>3. \A k \in 1 .. Len(q) : U[q[k]].used /\ U[q[k]].parent = l /\ U[q[k]].state # "SYN_RECEIVED"
  BY <1>2, Zenon DEF QueueInv
<1>4. \A i \in Slot : U[i].used /\ U[i].parent = l /\ Through(U[i])
                        => \E k \in 1 .. Len(q) : q[k] = i
  BY Zenon DEF QueueInv
<1>5. Len(q) + Cardinality(Pending(U, l)) <= Backlog
  <2>1. Pending(U, l) \in SUBSET Pending(T, l)
    BY Zenon DEF Pending
  <2>2. /\ Cardinality(Pending(U, l)) \in Nat /\ Cardinality(Pending(T, l)) \in Nat
        /\ Cardinality(Pending(U, l)) <= Cardinality(Pending(T, l))
    BY <2>1, PendingCounts, Zenon
  <2>3. Len(q) \in Nat /\ Backlog \in Nat
    BY <1>1, TcpAssumption
  <2>4. Len(q) + Cardinality(Pending(T, l)) <= Backlog
    BY Zenon DEF QueueInv
  <2> QED
    BY <2>2, <2>3, <2>4
<1> QED
  BY <1>1, <1>3, <1>4, <1>5, Zenon DEF QueueInv

(* The parent of a child is a slot that listens. *)
LEMMA ParentListens ==
  ASSUME NEW T, TableInv(T), NEW i \in Slot, T[i].parent # NoParent
  PROVE  /\ T[i].parent \in Slot /\ T[T[i].parent].state = "LISTEN"
         /\ T[T[i].parent].owner = T[i].owner /\ T[i].used
         /\ T[i].state \notin {"LISTEN", "SYN_SENT"} /\ ~T[i].app_closed
<1>1. SocketInv(T[i]) /\ Family(T)
  BY Zenon DEF TableInv
<1> QED
  BY <1>1, Zenon DEF SocketInv, Typed, Placed, Family

(* A change of one socket that its family does not notice. *)
Calm(s, t) ==
  /\ s.state # "LISTEN" /\ t.state # "LISTEN" /\ t.parent = s.parent
  /\ s.parent # NoParent =>
       /\ t.owner = s.owner /\ t.used = s.used
       /\ t.state = "SYN_RECEIVED" => s.state = "SYN_RECEIVED"
       /\ s.state = "SYN_RECEIVED" => t.state \in {"SYN_RECEIVED", "CLOSED"}
       /\ Through(t) => Through(s)

(* A handler keeps to that, unless a child gets through the handshake. *)
LEMMA EvolvesCalm ==
  ASSUME NEW s, SocketInv(s), s.state \notin {"CLOSED", "LISTEN"}, NEW t, Evolves(s, t),
         s.parent # NoParent /\ s.state = "SYN_RECEIVED" => t.state \in {"SYN_RECEIVED", "CLOSED"}
  PROVE  SocketInv(t) /\ Calm(s, t)
<1>1. Placed(s) /\ SocketInv(t)
  BY Zenon DEF SocketInv, Evolves
<1>2. CASE t = Free /\ s.app_closed
  <2>1. Free.state = "CLOSED" /\ Free.parent = NoParent
    BY Zenon DEF Free
  <2> QED
    BY <1>1, <1>2, <2>1, Zenon DEF Calm, Placed
<1>3. CASE /\ Kept(s, t) /\ t.state # "LISTEN"
           /\ t.state = "SYN_RECEIVED" => Handshake(s)
  <2>1. s.parent # NoParent => s.state # "SYN_SENT"
    BY <1>1, Zenon DEF Placed
  <2>2. t.owner = s.owner /\ t.used = s.used /\ t.parent = s.parent
    BY <1>3, Zenon DEF Kept
  <2> QED
    BY <1>1, <1>3, <2>1, <2>2, Zenon DEF Calm, Through, Handshake
<1> QED
  BY <1>2, <1>3, Zenon DEF Evolves

(* Only the accept queue, or only the parent, of a socket changes. *)
LEMMA Requeued ==
  ASSUME NEW s, SocketInv(s), NEW t, DOMAIN t = Fields,
         \A f \in Fields \ {"accept_queue", "parent"} : t[f] = s[f],
         t.parent = s.parent \/ t.parent = NoParent,
         s.state # "LISTEN" => t.accept_queue = <<>>
  PROVE  SocketInv(t) /\ t.state = s.state /\ t.used = s.used /\ t.owner = s.owner
<1>1. t.parent \in Slot \cup {NoParent}
  BY Zenon DEF SocketInv, Typed
<1>2. /\ t.used = s.used /\ t.app_closed = s.app_closed /\ t.owner = s.owner
      /\ t.local_port = s.local_port /\ t.remote_port = s.remote_port
      /\ t.fin_queued = s.fin_queued /\ t.timer_armed = s.timer_armed
      /\ t.state = s.state /\ t.tx = s.tx /\ t.rx = s.rx /\ t.rcv_nxt = s.rcv_nxt
      /\ t.snd_una = s.snd_una /\ t.iss = s.iss /\ t.snd_wnd = s.snd_wnd
      /\ t.fin_seq = s.fin_seq /\ t.fin_seq_set = s.fin_seq_set
      /\ t.snd_nxt = s.snd_nxt /\ t.snd_max = s.snd_max
  BY FieldNames, Zenon
<1>3. Typed(t)
  BY <1>1, <1>2, Zenon DEF SocketInv, Typed
<1>4. Windowed(t) /\ Attended(t)
  BY <1>2, Zenon DEF SocketInv, Windowed, InFlight, Attended, Handshake, Shaking
<1>5. Placed(t)
  BY <1>2, Zenon DEF SocketInv, Placed
<1> QED
  BY <1>2, <1>3, <1>4, <1>5, Zenon DEF SocketInv

(* Sockets that are released together with all of their children. *)
LEMMA ReleasedKeeps ==
  \A T, gone, U :
      /\ SlotSets
      /\ TableInv(T)
      /\ \A j \in Slot : T[j].parent # NoParent => (j \in gone <=> T[j].parent \in gone)
      /\ DOMAIN U = Slot
      /\ \A j \in Slot : j \in gone => U[j] = Free
      /\ \A j \in Slot : j \notin gone => U[j] = T[j]
    => TableInv(U)
(* The same of all children. *)
<1>ParentsListen. ASSUME NEW T, TableInv(T)
                  PROVE  \A j \in Slot : T[j].parent # NoParent =>
                           T[j].parent \in Slot /\ T[T[j].parent].state = "LISTEN" /\ T[T[j].parent].owner = T[j].owner
  BY <1>ParentsListen, ParentListens, Zenon
<1> SUFFICES ASSUME SlotSets,
                    NEW T, TableInv(T), NEW gone,
                    \A j \in Slot : T[j].parent # NoParent => (j \in gone <=> T[j].parent \in gone),
                    NEW U, DOMAIN U = Slot,
                    \A j \in Slot : j \in gone => U[j] = Free,
                    \A j \in Slot : j \notin gone => U[j] = T[j]
             PROVE  TableInv(U)
  BY ZenonT(60)
<1>2. Free.parent = NoParent /\ Free.state = "CLOSED" /\ Free.used = FALSE
  BY Zenon DEF Free
<1>1. \A j \in Slot : T[j].parent # NoParent =>
        T[j].parent \in Slot /\ T[T[j].parent].state = "LISTEN" /\ T[T[j].parent].owner = T[j].owner
  BY <1>ParentsListen, Zenon
<1>3. \A j \in Slot : SocketInv(U[j])
  BY FreeIsFine, Zenon DEF TableInv
<1>4. Family(U)
  <2> SUFFICES ASSUME NEW j \in Slot, U[j].parent # NoParent
               PROVE  U[U[j].parent].state = "LISTEN" /\ U[U[j].parent].owner = U[j].owner
    BY Zenon DEF Family
  <2>1. j \notin gone /\ U[j] = T[j]
    BY <1>2, Zenon
  <2>2. T[j].parent # NoParent
    BY <2>1, Zenon
  <2>3. T[j].parent \in Slot /\ T[T[j].parent].state = "LISTEN" /\ T[T[j].parent].owner = T[j].owner
    BY <1>1, <2>2, Zenon
  <2>4. T[j].parent \notin gone
    BY <2>1, <2>2, Zenon
  <2>5. U[T[j].parent] = T[T[j].parent]
    BY <2>3, <2>4, Zenon
  <2> QED
    BY <2>1, <2>3, <2>5, Zenon
<1>5. ASSUME NEW l \in Slot, U[l].state = "LISTEN" PROVE QueueInv(U, l, U[l].accept_queue)
  <2>1. l \notin gone /\ U[l] = T[l]
    BY <1>2, <1>5, Zenon
  <2>2. QueueInv(T, l, T[l].accept_queue) /\ l # NoParent
    BY <1>5, <2>1, NoSlotIsNoParent, Zenon DEF TableInv
  <2>3. \A j \in Slot : T[j].parent = l => U[j] = T[j]
    <3> SUFFICES ASSUME NEW j \in Slot, T[j].parent = l PROVE U[j] = T[j]
      BY Zenon
    <3>1. j \notin gone
      BY <2>1, <2>2, Zenon
    <3> QED
      BY <3>1, Zenon
  <2>4. \A j \in Slot : U[j].parent = l => U[j] = T[j]
    BY <1>2, <2>2, Zenon
  <2>5. \A j \in Slot : T[j].used /\ T[j].parent = l /\ T[j].state # "SYN_RECEIVED" =>
          U[j].used /\ U[j].parent = l /\ U[j].state # "SYN_RECEIVED"
    BY <2>3, Zenon
  <2>6. \A j \in Slot : U[j].used /\ U[j].parent = l =>
          /\ T[j].used /\ T[j].parent = l
          /\ U[j].state = "SYN_RECEIVED" => T[j].state = "SYN_RECEIVED"
          /\ Through(U[j]) => Through(T[j])
    BY <2>4, Zenon
  <2>7. QueueInv(U, l, T[l].accept_queue)
    BY <2>2, <2>5, <2>6, QueueKept, Zenon
  <2> QED
    BY <2>1, <2>7, Zenon
<1> QED
  BY <1>3, <1>4, <1>5, Zenon DEF TableInv

-----------------------------------------------------------------------------
(* What timeouts and calls make of a socket.                               *)

(* generate_isn, and sums of sequence numbers and lengths, wrap. *)
LEMMA NumbersWrap ==
  /\ isn \in Nat => GenerateIsn \in SeqNo
  /\ \A a \in SeqNo, n \in Nat : Plus(a, n) \in SeqNo
<1>1. \A x \in Nat : x % SeqMod \in SeqNo
  BY Halves DEF SeqNo
<1>2. isn \in Nat => FirstIsn + isn * IsnStep \in Nat
  BY TcpAssumption
<1>3. \A a \in SeqNo, n \in Nat : a + n \in Nat
  BY Halves DEF SeqNo
<1> QED
  BY <1>1, <1>2, <1>3, Zenon DEF GenerateIsn, Plus

(* The other direction of a flow is a flow, and no port of one is 0. *)
LEMMA FlowTurns ==
  ASSUME NEW a, NEW b, <<a, b>> \in Flow
  PROVE  <<b, a>> \in Flow /\ a # 0
<1>1. (a \in ClientPort /\ b = ServerPort) \/ (a = ServerPort /\ b \in ClientPort)
  BY Zenon DEF Flow
<1>2. <<b, a>> \in Flow
  BY <1>1, Zenon DEF Flow
<1>3. a # 0
  BY <1>1, TcpAssumption, Zenon
<1> QED
  BY <1>2, <1>3, Zenon

(* A socket whose SYN has just been sent. *)
LEMMA SynStarts ==
  ASSUME NEW t, Typed(t), OnFlow(t), Handshake(t), t.used, ~t.app_closed, t.timer_armed,
         t.tx = <<>>, ~t.fin_seq_set, t.snd_una = t.iss, t.snd_nxt = Plus(t.iss, 1),
         t.snd_max = t.snd_nxt, t.accept_queue = <<>>, t.state = "SYN_SENT" => t.parent = NoParent
  PROVE  SocketInv(t) /\ SegmentType(SynOf(t))
<1>1. t.local_port # 0
  BY FlowTurns, Zenon DEF OnFlow
<1>2. Windowed(t)
  <2>1. t.snd_nxt \in SeqNo /\ t.snd_una \in SeqNo
    BY Zenon DEF Typed
  <2>2. Minus(t.snd_nxt, t.snd_una) \in SeqNo
    BY <2>1, Wraps, Zenon
  <2>3. Minus(t.snd_nxt, t.snd_una) <= Minus(t.snd_nxt, t.snd_una)
    BY <2>2, Halves DEF SeqNo
  <2> QED
    BY <2>3, Zenon DEF Windowed, InFlight
<1>3. Attended(t)
  BY <1>1, Zenon DEF Attended, Shaking, Handshake, OutputStates
<1>4. Placed(t)
  BY Zenon DEF Placed, Handshake, OnFlow
<1>5. SegmentType(SynOf(t))
  BY AckTyped, Zenon
<1> QED
  BY <1>2, <1>3, <1>4, <1>5, Zenon DEF SocketInv

(* Only what has been received, or the count of retries, changes. *)
LEMMA Untouched ==
  ASSUME NEW s, SocketInv(s), NEW t, DOMAIN t = Fields,
         \A f \in Fields \ {"rx", "retries"} : t[f] = s[f],
         t.rx \in Seq(Nat), Len(t.rx) <= Buffer
  PROVE  /\ SocketInv(t) /\ Kept(s, t) /\ t.state = s.state /\ t.timer_armed = s.timer_armed
         /\ t.snd_una = s.snd_una
<1>1. /\ t.used = s.used /\ t.app_closed = s.app_closed /\ t.owner = s.owner
      /\ t.parent = s.parent /\ t.accept_queue = s.accept_queue
      /\ t.local_port = s.local_port /\ t.remote_port = s.remote_port
      /\ t.fin_queued = s.fin_queued /\ t.timer_armed = s.timer_armed
      /\ t.state = s.state /\ t.tx = s.tx /\ t.rcv_nxt = s.rcv_nxt
      /\ t.snd_una = s.snd_una /\ t.iss = s.iss /\ t.snd_wnd = s.snd_wnd
      /\ t.fin_seq = s.fin_seq /\ t.fin_seq_set = s.fin_seq_set
      /\ t.snd_nxt = s.snd_nxt /\ t.snd_max = s.snd_max
  BY FieldNames, Zenon
<1>2. Typed(t)
  BY <1>1, Zenon DEF SocketInv, Typed
<1>3. Windowed(t) /\ Attended(t)
  BY <1>1, Zenon DEF SocketInv, Windowed, InFlight, Attended, Handshake, Shaking
<1>4. Placed(t)
  BY <1>1, Zenon DEF SocketInv, Placed
<1> QED
  BY <1>1, <1>2, <1>3, <1>4, Zenon DEF SocketInv, Kept

-----------------------------------------------------------------------------
(* The steps.                                                              *)

(* Every socket of the table is as it should be, and every segment.        *)
LEMMA InvGives ==
  ASSUME TcpInv
  PROVE  /\ TableInv(sockets) /\ DOMAIN sockets = Slot /\ \A i \in Slot : SocketInv(sockets[i])
         /\ isn \in Nat /\ sent \in [Flow -> Nat] /\ \A m \in network : SegmentType(m)
BY Zenon DEF TcpInv, TableInv, RestInv

(* A step with one socket changed. *)
LEMMA StepKeeps ==
  \A i, t :
      /\ SlotSets
      /\ TcpInv
      /\ i \in Slot
      /\ SocketInv(t)
      /\ Calm(sockets[i], t)
      /\ sockets' = [sockets EXCEPT ![i] = t]
      /\ RestInv'
    => TcpInv'
(* Such a change keeps the table right. *)
<1>CalmKeeps. ASSUME SlotSets,
                     NEW T, TableInv(T), NEW i \in Slot, NEW t, SocketInv(t), Calm(T[i], t)
              PROVE  TableInv([T EXCEPT ![i] = t])
  <2> USE <1>CalmKeeps
  <2> DEFINE U == [T EXCEPT ![i] = t]
  <2>1. DOMAIN U = Slot /\ \A j \in Slot : U[j] = IF j = i THEN t ELSE T[j]
    BY Zenon DEF TableInv
  <2> HIDE DEF U
  <2>2. \A j \in Slot : SocketInv(U[j])
    BY <2>1, Zenon DEF TableInv
  <2>3. \A j \in Slot : U[j].parent = T[j].parent
    BY <2>1, Zenon DEF Calm
  <2>4. ASSUME NEW j \in Slot, U[j].parent # NoParent
        PROVE  /\ U[U[j].parent].state = "LISTEN"
               /\ U[U[j].parent].owner = U[j].owner
    <3> DEFINE l == T[j].parent
    <3>1. U[j].parent = l
      BY <2>3, Zenon
    <3>5. l # NoParent
      BY <2>4, <3>1, Zenon
    <3>2. l \in Slot /\ T[l].state = "LISTEN" /\ T[l].owner = T[j].owner
      BY <3>5, ParentListens, Zenon
    <3>3. U[l] = T[l]
      BY <2>1, <3>2, Zenon DEF Calm
    <3>4. U[j].owner = T[j].owner
      BY <2>1, <3>5, Zenon DEF Calm
    <3> QED
      BY <3>1, <3>2, <3>3, <3>4, Zenon
  <2>5. ASSUME NEW l \in Slot, U[l].state = "LISTEN" PROVE QueueInv(U, l, U[l].accept_queue)
    <3>1. U[l] = T[l] /\ l # NoParent
      BY <2>1, <2>5, NoSlotIsNoParent, Zenon DEF Calm
    <3>2. QueueInv(T, l, T[l].accept_queue)
      BY <2>5, <3>1, Zenon DEF TableInv
    <3>3. \A j \in Slot : T[j].parent = l =>
            /\ U[j].used = T[j].used
            /\ U[j].state = "SYN_RECEIVED" <=> (T[j].state = "SYN_RECEIVED" /\ U[j].state # "CLOSED")
            /\ Through(U[j]) => Through(T[j])
      BY <2>1, <3>1, Zenon DEF Calm
    <3>4. QueueInv(U, l, T[l].accept_queue)
      BY <2>3, <3>2, <3>3, QueueKept, Zenon
    <3> QED
      BY <3>1, <3>4, Zenon
  <2>6. Family(U)
    BY <2>4, Zenon DEF Family
  <2> QED
    BY <2>1, <2>2, <2>5, <2>6, Zenon DEF TableInv, U
<1> SUFFICES ASSUME SlotSets,
                    TcpInv, NEW i \in Slot, NEW t, SocketInv(t), Calm(sockets[i], t),
                    sockets' = [sockets EXCEPT ![i] = t], RestInv'
             PROVE  TcpInv'
  BY Zenon
<1>1. TableInv([sockets EXCEPT ![i] = t])
  BY InvGives, <1>CalmKeeps, Zenon
<1> QED
  BY <1>1, Zenon DEF TcpInv

(* find_socket finds no closed socket. *)
LEMMA MatchingLive ==
  ASSUME NEW m, NEW i \in Matching(m)
  PROVE  i \in Slot /\ sockets[i].state # "CLOSED" /\ sockets[i].used
BY Zenon DEF Matching

(* receive_segment, for a connection. *)
LEMMA SocketStep ==
  \A m, kept, cost :
      /\ SlotSets
      /\ TcpInv
      /\ SegmentType(m)
      /\ \A k \in kept : SegmentType(k)
      /\ DeliverToSocket(m, kept, cost)
    => TcpInv'
(* A queue with one more at its end. *)
<1>Appended. ASSUME NEW q \in Seq(Slot), NEW i \in Slot
             PROVE  /\ Append(q, i) \in Seq(Slot) /\ Len(q) \in Nat /\ Len(Append(q, i)) = Len(q) + 1
                    /\ \A k \in 1 .. Len(q) : Append(q, i)[k] = q[k] /\ k \in 1 .. Len(q) + 1 /\ q[k] \in Slot
                    /\ Append(q, i)[Len(q) + 1] = i /\ Len(q) + 1 \in 1 .. Len(q) + 1
                    /\ \A k \in 1 .. Len(q) + 1 : k \in 1 .. Len(q) \/ k = Len(q) + 1
  BY <1>Appended
(* A child gets through the handshake and into the queue: it leaves the    *)
(* ones that are pending.                                                  *)
<1>QueueGrows. ASSUME SlotSets,
                      NEW T, NEW U, NEW l \in Slot, NEW q, QueueInv(T, l, q), NEW i \in Slot,
                      i \in Pending(T, l), U[i].used, U[i].parent = l, U[i].state # "SYN_RECEIVED",
                      \A j \in Slot \ {i} : /\ U[j].used = T[j].used /\ U[j].parent = T[j].parent
                                            /\ U[j].state = T[j].state
               PROVE  QueueInv(U, l, Append(q, i))
  <2> USE <1>QueueGrows
  <2> DEFINE r == Append(q, i)
  <2>1. /\ q \in Seq(Slot) /\ (\A j, k \in 1 .. Len(q) : q[j] = q[k] => j = k)
        /\ \A k \in 1 .. Len(q) : T[q[k]].used /\ T[q[k]].parent = l /\ T[q[k]].state # "SYN_RECEIVED"
        /\ \A j \in Slot : T[j].used /\ T[j].parent = l /\ Through(T[j]) => \E k \in 1 .. Len(q) : q[k] = j
        /\ Len(q) + Cardinality(Pending(T, l)) <= Backlog
    BY Zenon DEF QueueInv
  <2>2. /\ r \in Seq(Slot) /\ Len(q) \in Nat /\ Len(r) = Len(q) + 1
        /\ \A k \in 1 .. Len(q) : r[k] = q[k] /\ k \in 1 .. Len(q) + 1 /\ q[k] \in Slot
        /\ r[Len(q) + 1] = i /\ Len(q) + 1 \in 1 .. Len(q) + 1
        /\ \A k \in 1 .. Len(q) + 1 : k \in 1 .. Len(q) \/ k = Len(q) + 1
    BY <2>1, <1>Appended, Zenon
  <2> HIDE DEF r
  <2>3. \A k \in 1 .. Len(q) : q[k] \in Slot \ {i}
    <3>1. T[i].state = "SYN_RECEIVED"
      BY Zenon DEF Pending
    <3>2. ASSUME NEW k \in 1 .. Len(q) PROVE q[k] # i
      <4>1. T[q[k]].state # "SYN_RECEIVED"
        BY <2>1, Zenon
      <4> QED
        BY <3>1, <4>1, Zenon
    <3> QED
      BY <2>2, <3>2, Zenon
  <2>8. 1 .. Len(r) = 1 .. Len(q) + 1
    BY <2>2, Zenon
  <2>4. \A j, k \in 1 .. Len(r) : r[j] = r[k] => j = k
    <3> SUFFICES ASSUME NEW j \in 1 .. Len(q) + 1, NEW k \in 1 .. Len(q) + 1, r[j] = r[k] PROVE j = k
      BY <2>8, Zenon
    <3>1. CASE j \in 1 .. Len(q) /\ k \in 1 .. Len(q)
      <4>1. q[j] = q[k]
        BY <2>2, <3>1, Zenon
      <4> QED
        BY <2>1, <3>1, <4>1, Zenon
    <3>2. CASE j \in 1 .. Len(q) /\ k = Len(q) + 1
      BY <2>2, <2>3, <3>2, Zenon
    <3>3. CASE j = Len(q) + 1 /\ k \in 1 .. Len(q)
      BY <2>2, <2>3, <3>3, Zenon
    <3> QED
      BY <2>2, <3>1, <3>2, <3>3, Zenon
  <2>5. \A k \in 1 .. Len(r) : U[r[k]].used /\ U[r[k]].parent = l /\ U[r[k]].state # "SYN_RECEIVED"
    <3> SUFFICES ASSUME NEW k \in 1 .. Len(q) + 1
                 PROVE  U[r[k]].used /\ U[r[k]].parent = l /\ U[r[k]].state # "SYN_RECEIVED"
      BY <2>2, Zenon
    <3>1. CASE k \in 1 .. Len(q)
      <4>1. r[k] = q[k] /\ q[k] \in Slot \ {i}
        BY <2>2, <2>3, <3>1, Zenon
      <4>2. T[q[k]].used /\ T[q[k]].parent = l /\ T[q[k]].state # "SYN_RECEIVED"
        BY <2>1, <3>1, Zenon
      <4> QED
        BY <4>1, <4>2, Zenon
    <3>2. CASE k = Len(q) + 1
      BY <2>2, <3>2, Zenon
    <3> QED
      BY <2>2, <3>1, <3>2, Zenon
  <2>6. ASSUME NEW j \in Slot, U[j].used, U[j].parent = l, Through(U[j]) PROVE \E k \in 1 .. Len(r) : r[k] = j
    <3>1. CASE j = i
      BY <2>2, <3>1, Zenon
    <3>2. CASE j # i
      <4>1. T[j].used /\ T[j].parent = l /\ Through(T[j])
        BY <2>6, <3>2, Zenon DEF Through, Handshake
      <4>2. PICK k \in 1 .. Len(q) : q[k] = j
        BY <2>1, <4>1, Zenon
      <4> QED
        BY <2>2, <4>2, Zenon
    <3> QED
      BY <3>1, <3>2, Zenon
  <2>7. Len(r) + Cardinality(Pending(U, l)) <= Backlog
    <3>1. Pending(U, l) = Pending(T, l) \ {i}
      BY Zenon DEF Pending
    <3>2. Pending(T, l) \in SUBSET Slot /\ Cardinality(Pending(T, l)) \in Nat
      BY PendingCounts, Zenon
    <3>3. Cardinality(Pending(U, l)) = Cardinality(Pending(T, l)) - 1
      <4>1. Cardinality(Pending(T, l) \ {i}) = Cardinality(Pending(T, l)) - 1
        BY <3>2, Zenon DEF SlotSets
      <4> QED
        BY <3>1, <4>1, Zenon
    <3>4. Backlog \in Nat
      BY TcpAssumption, Zenon
    <3> QED
      BY <2>1, <2>2, <3>2, <3>3, <3>4
  <2> QED
    BY <2>2, <2>4, <2>5, <2>6, <2>7, Zenon DEF QueueInv, r
(* The table after a child got through the handshake. *)
<1>GrowsKeeps. ASSUME SlotSets,
                      NEW T, TableInv(T), NEW i \in Slot, T[i].state = "SYN_RECEIVED", T[i].parent # NoParent,
                      NEW t, SocketInv(t), Kept(T[i], t), t.state # "LISTEN", t.state # "SYN_RECEIVED"
               PROVE  TableInv([[T EXCEPT ![i] = t] EXCEPT ![T[i].parent].accept_queue = Append(@, i)])
  <2> USE <1>GrowsKeeps
  <2> DEFINE l == T[i].parent
             q == T[l].accept_queue
             p == [T[l] EXCEPT !.accept_queue = Append(q, i)]
             U == [[T EXCEPT ![i] = t] EXCEPT ![l].accept_queue = Append(@, i)]
  <2>1. l \in Slot /\ T[l].state = "LISTEN" /\ T[l].owner = T[i].owner /\ T[i].used
    BY ParentListens, Zenon
  <2>2. l # i /\ l # NoParent
    BY <2>1, NoSlotIsNoParent, Zenon
  <2>3. DOMAIN T = Slot /\ SocketInv(T[l]) /\ QueueInv(T, l, q)
    BY <2>1, Zenon DEF TableInv
  <2>4. T[l].parent = NoParent /\ DOMAIN T[l] = Fields
    BY <2>1, <2>3, Zenon DEF SocketInv, Placed, Typed
  <2>5. /\ SocketInv(p) /\ p.accept_queue = Append(q, i) /\ p.parent = T[l].parent
        /\ p.state = T[l].state /\ p.used = T[l].used /\ p.owner = T[l].owner
    <3>1. "accept_queue" \in Fields /\ "parent" \in Fields
      BY FieldNames, Zenon
    <3>2. SocketInv(T[l]) /\ T[l].state = "LISTEN" /\ DOMAIN T[l] = Fields
      BY <2>1, <2>3, <2>4, Zenon
    <3>3. /\ DOMAIN p = Fields /\ p.accept_queue = Append(q, i) /\ p.parent = T[l].parent
          /\ \A f \in Fields \ {"accept_queue", "parent"} : p[f] = T[l][f]
      <4> HIDE DEF l, q
      <4> QED
        BY <3>1, <3>2, Zenon
    <3> HIDE DEF l, q, p
    <3> QED
      BY <3>2, <3>3, Requeued, ZenonT(60)
  <2>6. t.used /\ t.parent = l /\ t.owner = T[i].owner
    BY <2>1, Zenon DEF Kept
  <2> HIDE DEF l
  <2>7. DOMAIN U = Slot /\ \A j \in Slot : U[j] = IF j = i THEN t ELSE IF j = l THEN p ELSE T[j]
    BY <2>1, <2>2, <2>3, Zenon
  <2> HIDE DEF U, p, q
  <2>8. /\ U[i] = t /\ U[l] = p
        /\ \A j \in Slot : j # i /\ j # l => U[j] = T[j]
    BY <2>1, <2>2, <2>7, Zenon
  <2>9. \A j \in Slot : U[j].used = T[j].used /\ U[j].parent = T[j].parent /\ U[j].owner = T[j].owner
    <3> SUFFICES ASSUME NEW j \in Slot
                 PROVE  U[j].used = T[j].used /\ U[j].parent = T[j].parent /\ U[j].owner = T[j].owner
      BY Zenon
    <3>1. CASE j = i
      BY <2>8, <3>1, Zenon DEF Kept
    <3>2. CASE j = l
      BY <2>5, <2>8, <3>2, Zenon
    <3>3. CASE j # i /\ j # l
      BY <2>8, <3>3, Zenon
    <3> QED
      BY <3>1, <3>2, <3>3, Zenon
  <2>10. \A j \in Slot \ {i} : U[j].state = T[j].state
    BY <2>5, <2>8, Zenon
  <2>11. \A j \in Slot : SocketInv(U[j])
    BY <2>5, <2>8, Zenon DEF TableInv
  <2>12. Family(U)
    <3> SUFFICES ASSUME NEW j \in Slot, U[j].parent # NoParent
                 PROVE  U[U[j].parent].state = "LISTEN" /\ U[U[j].parent].owner = U[j].owner
      BY Zenon DEF Family
    <3>1. U[j].parent = T[j].parent
      BY <2>9, Zenon
    <3>2. T[j].parent # NoParent
      BY <3>1, Zenon
    <3>3. T[j].parent \in Slot /\ T[T[j].parent].state = "LISTEN" /\ T[T[j].parent].owner = T[j].owner
      BY <3>2, ParentListens, Zenon
    <3>4. T[j].parent # i
      BY <3>3, Zenon
    <3> QED
      BY <2>9, <2>10, <3>1, <3>3, <3>4, Zenon
  <2>13. ASSUME NEW k \in Slot, U[k].state = "LISTEN" PROVE QueueInv(U, k, U[k].accept_queue)
    <3>1. CASE k = l
      <4>1. i \in Pending(T, l)
        BY <2>1, ZenonT(60) DEF Pending, l
      <4>2. QueueInv(U, l, Append(q, i))
        <5>1. U[i].used /\ U[i].parent = l /\ U[i].state # "SYN_RECEIVED"
          BY <2>6, <2>8, Zenon
        <5>2. \A j \in Slot \ {i} : /\ U[j].used = T[j].used /\ U[j].parent = T[j].parent
                                    /\ U[j].state = T[j].state
          BY <2>9, <2>10, Zenon
        <5> QED
          <6>1. l \in Slot /\ QueueInv(T, l, q)
            BY <2>1, <2>3, Zenon
          <6> QED
            BY <4>1, <5>1, <5>2, <6>1, <1>QueueGrows, SMT
      <4> QED
        BY <2>5, <2>8, <3>1, <4>2, Zenon
    <3>2. CASE k # l
      <4>1. k # i /\ U[k] = T[k]
        BY <2>8, <2>13, <3>2, Zenon
      <4>2. QueueInv(T, k, T[k].accept_queue)
        BY <2>13, <4>1, Zenon DEF TableInv
      <4>3. \A j \in Slot : T[j].parent = k => j \in Slot \ {i}
        BY <3>2, Zenon DEF l
      <4>4. \A j \in Slot : T[j].parent = k => U[j].state = T[j].state /\ (Through(U[j]) => Through(T[j]))
        BY <2>10, <4>3, Zenon DEF Through, Handshake
      <4>5. QueueInv(U, k, T[k].accept_queue)
        <5>1. \A j \in Slot : T[j].used /\ T[j].parent = k /\ T[j].state # "SYN_RECEIVED" =>
                U[j].used /\ U[j].parent = k /\ U[j].state # "SYN_RECEIVED"
          BY <2>9, <4>4, Zenon
        <5>2. \A j \in Slot : U[j].used /\ U[j].parent = k =>
                /\ T[j].used /\ T[j].parent = k
                /\ U[j].state = "SYN_RECEIVED" => T[j].state = "SYN_RECEIVED"
                /\ Through(U[j]) => Through(T[j])
          BY <2>9, <4>4, Zenon
        <5> QED
          BY <4>2, <5>1, <5>2, QueueKept, Zenon
      <4> QED
        BY <4>1, <4>5, Zenon
    <3> QED
      BY <3>1, <3>2, Zenon
  <2> QED
    BY <2>7, <2>11, <2>12, <2>13, Zenon DEF TableInv, U, l
<1> SUFFICES ASSUME SlotSets,
                    TcpInv, NEW m, SegmentType(m), NEW kept, \A k \in kept : SegmentType(k), NEW cost,
                    DeliverToSocket(m, kept, cost)
             PROVE  TcpInv'
  BY Zenon
<1>1. PICK i \in Matching(m), cwnd \in Mss .. Buffer : \E fast \in {FALSE, Duplicate(sockets[i], m)} :
        /\ sockets[i].state # "LISTEN"
        /\ sockets' = Established(i, ProcessSegment(sockets[i], m, cwnd, fast).s)
        /\ Transmit(kept, ProcessSegment(sockets[i], m, cwnd, fast).out, cost)
        /\ UNCHANGED <<opened, next_ephemeral, isn, flowVars>>
  BY Zenon DEF DeliverToSocket
<1>0. PICK fast :
        /\ sockets[i].state # "LISTEN"
        /\ sockets' = Established(i, ProcessSegment(sockets[i], m, cwnd, fast).s)
        /\ Transmit(kept, ProcessSegment(sockets[i], m, cwnd, fast).out, cost)
        /\ UNCHANGED <<opened, next_ephemeral, isn, flowVars>>
  BY <1>1, Zenon
<1> DEFINE s == sockets[i]
           r == ProcessSegment(s, m, cwnd, fast)
           t == r.s
<1>2. i \in Slot /\ s.state \notin {"CLOSED", "LISTEN"} /\ SocketInv(s) /\ TableInv(sockets)
  BY <1>0, MatchingLive, InvGives, Zenon
<1>3. Evolves(s, t) /\ \A k \in r.out : SegmentType(k)
  BY <1>2, SegmentMoves, Zenon
<1>4. RestInv'
  <2>1. \A k \in network' : SegmentType(k)
    BY <1>0, <1>3, Transmitted, Zenon
  <2>2. isn' = isn /\ sent' = sent
    BY <1>0, Zenon DEF flowVars
  <2> QED
    BY <2>1, <2>2, InvGives, Zenon DEF RestInv
<1> DEFINE grows == /\ s.state = "SYN_RECEIVED" /\ t.state \notin {"SYN_RECEIVED", "CLOSED"}
                    /\ s.parent # NoParent /\ sockets[s.parent].state = "LISTEN"
<1>5. sockets' = Established(i, t)
  BY <1>0, Zenon
<1> HIDE DEF r, t
<1>6. CASE grows
  <2>1. sockets' = [[sockets EXCEPT ![i] = t] EXCEPT ![s.parent].accept_queue = Append(@, i)]
    BY <1>5, <1>6, Zenon DEF Established
  <2>2. ~s.app_closed
    BY <1>2, <1>6, Zenon DEF SocketInv, Placed
  <2>3. SocketInv(t) /\ Kept(s, t) /\ t.state # "LISTEN"
    BY <1>3, <2>2, Zenon DEF Evolves
  <2>4. s.state = "SYN_RECEIVED" /\ s.parent # NoParent /\ t.state # "SYN_RECEIVED"
    BY <1>6, Zenon
  <2>5. TableInv([[sockets EXCEPT ![i] = t] EXCEPT ![s.parent].accept_queue = Append(@, i)])
    BY <1>2, <2>3, <2>4, <1>GrowsKeeps, Zenon
  <2> QED
    BY <1>4, <2>1, <2>5, Zenon DEF TcpInv
<1>7. CASE ~grows
  <2>1. sockets' = [sockets EXCEPT ![i] = t]
    BY <1>5, <1>7, Zenon DEF Established
  <2>2. ASSUME s.parent # NoParent, s.state = "SYN_RECEIVED" PROVE t.state \in {"SYN_RECEIVED", "CLOSED"}
    <3>1. sockets[s.parent].state = "LISTEN"
      BY <1>2, <2>2, ParentListens, Zenon
    <3> QED
      BY <1>7, <2>2, <3>1, Zenon
  <2>3. SocketInv(t) /\ Calm(s, t)
    BY <1>2, <1>3, <2>2, EvolvesCalm, Zenon
  <2>4. i \in Slot /\ Calm(sockets[i], t)
    BY <1>2, <2>3, Zenon
  <2> HIDE DEF s, grows
  <2> QED
    BY <1>4, <2>1, <2>3, <2>4, StepKeeps, Zenon
<1> QED
  BY <1>6, <1>7, Zenon

(* A step that leaves the table alone. *)
LEMMA SilentKeeps ==
  ASSUME TcpInv, sockets' = sockets, isn' = isn, sent' = sent, \A m \in network' : SegmentType(m)
  PROVE  TcpInv'
<1>1. TableInv(sockets) /\ RestInv'
  BY Zenon DEF TcpInv, RestInv
<1> QED
  BY <1>1, Zenon DEF TcpInv

(* receive_segment, for a listening socket. *)
LEMMA ListenerStep ==
  \A m, kept, cost :
      /\ SlotSets
      /\ TcpInv
      /\ SegmentType(m)
      /\ \A k \in kept : SegmentType(k)
      /\ DeliverToListener(m, kept, cost)
    => TcpInv'
(* A SYN for a listening socket with room in its backlog makes a child. *)
<1>BornKeeps. ASSUME SlotSets,
                     NEW T, TableInv(T), NEW l \in Slot, T[l].state = "LISTEN", NEW c \in Slot, ~T[c].used,
                     ~(Len(T[l].accept_queue) + Cardinality(Pending(T, l)) >= Backlog),
                     NEW t, SocketInv(t), t.used, t.parent = l, t.owner = T[l].owner, t.state = "SYN_RECEIVED"
              PROVE  TableInv([T EXCEPT ![c] = t])
  <2> USE <1>BornKeeps
  <2> DEFINE U == [T EXCEPT ![c] = t]
             q == T[l].accept_queue
  <2>1. /\ DOMAIN U = Slot /\ U[c] = t
        /\ \A j \in Slot : j # c => U[j] = T[j]
    BY Zenon DEF TableInv
  <2> HIDE DEF U
  <2>2. T[c].state = "CLOSED" /\ T[c].parent = NoParent /\ l # c /\ l # NoParent
    BY NoSlotIsNoParent, Zenon DEF TableInv, SocketInv, Placed
  <2>3. \A j \in Slot : SocketInv(U[j])
    BY <2>1, Zenon DEF TableInv
  <2>4. Family(U)
    <3> SUFFICES ASSUME NEW j \in Slot, U[j].parent # NoParent
                 PROVE  U[U[j].parent].state = "LISTEN" /\ U[U[j].parent].owner = U[j].owner
      BY Zenon DEF Family
    <3>1. CASE j = c
      BY <2>1, <2>2, <3>1, Zenon
    <3>2. CASE j # c
      <4>1. U[j] = T[j]
        BY <2>1, <3>2, Zenon
      <4>2. T[j].parent # NoParent
        BY <4>1, Zenon
      <4>3. T[j].parent \in Slot /\ T[T[j].parent].state = "LISTEN" /\ T[T[j].parent].owner = T[j].owner
        BY <4>2, ParentListens, ZenonT(60)
      <4>4. T[j].parent # c
        BY <2>2, <4>3, Zenon
      <4> QED
        BY <2>1, <4>1, <4>3, <4>4, ZenonT(60)
    <3> QED
      BY <3>1, <3>2, Zenon
  <2>5. ASSUME NEW k \in Slot, U[k].state = "LISTEN" PROVE QueueInv(U, k, U[k].accept_queue)
    <3>1. k # c /\ U[k] = T[k]
      BY <2>1, <2>5, Zenon
    <3>2. QueueInv(T, k, T[k].accept_queue) /\ k # NoParent
      BY <2>5, <3>1, NoSlotIsNoParent, Zenon DEF TableInv
    <3>3. \A j \in Slot : T[j].parent = k => U[j] = T[j]
      BY <2>1, <2>2, <3>2, Zenon
    <3>4. CASE k # l
      <4>1. \A j \in Slot : U[j].parent = k => U[j] = T[j]
        BY <2>1, <3>4, Zenon
      <4>2. QueueInv(U, k, T[k].accept_queue)
        <5>1. \A j \in Slot : T[j].used /\ T[j].parent = k /\ T[j].state # "SYN_RECEIVED" =>
                U[j].used /\ U[j].parent = k /\ U[j].state # "SYN_RECEIVED"
          BY <3>3, Zenon
        <5>2. \A j \in Slot : U[j].used /\ U[j].parent = k =>
                /\ T[j].used /\ T[j].parent = k
                /\ U[j].state = "SYN_RECEIVED" => T[j].state = "SYN_RECEIVED"
                /\ Through(U[j]) => Through(T[j])
          BY <4>1, Zenon
        <5> QED
          BY <3>2, <5>1, <5>2, QueueKept, Zenon
      <4> QED
        BY <3>1, <4>2, Zenon
    <3>5. CASE k = l
      <4>0. QueueInv(T, l, q)
        BY <3>2, <3>5, Zenon
      <4>1. /\ q \in Seq(Slot) /\ (\A j, n \in 1 .. Len(q) : q[j] = q[n] => j = n)
            /\ \A n \in 1 .. Len(q) : T[q[n]].used /\ T[q[n]].parent = l /\ T[q[n]].state # "SYN_RECEIVED"
            /\ \A j \in Slot : T[j].used /\ T[j].parent = l /\ Through(T[j]) => \E n \in 1 .. Len(q) : q[n] = j
        BY <4>0, Zenon DEF QueueInv
      <4> HIDE DEF q
      <4>2. \A n \in 1 .. Len(q) : q[n] \in Slot
        BY <4>1
      <4>3. \A n \in 1 .. Len(q) : U[q[n]].used /\ U[q[n]].parent = l /\ U[q[n]].state # "SYN_RECEIVED"
        BY <3>3, <3>5, <4>1, <4>2, ZenonT(60)
      <4>4. \A j \in Slot : U[j].used /\ U[j].parent = l /\ Through(U[j]) => \E n \in 1 .. Len(q) : q[n] = j
        <5>1. ~Through(U[c])
          BY <2>1, Zenon DEF Through, Handshake
        <5>2. \A j \in Slot : Through(U[j]) => U[j] = T[j]
          BY <2>1, <5>1, Zenon
        <5> QED
          BY <4>1, <5>2, Zenon
      <4>5. Pending(U, l) = Pending(T, l) \cup {c} /\ c \notin Pending(T, l)
        BY <2>1, ZenonT(60) DEF Pending
      <4>6. Pending(T, l) \in SUBSET Slot /\ Cardinality(Pending(T, l)) \in Nat
        BY PendingCounts, Zenon
      <4>7. Cardinality(Pending(U, l)) = Cardinality(Pending(T, l)) + 1
        BY <4>5, <4>6, Zenon DEF SlotSets
      <4>8. Len(q) \in Nat /\ Backlog \in Nat
        BY <4>1, TcpAssumption
      <4>9. ~(Len(q) + Cardinality(Pending(T, l)) >= Backlog)
        BY Zenon DEF q
      <4>10. Len(q) + Cardinality(Pending(U, l)) <= Backlog
        BY <4>6, <4>7, <4>8, <4>9
      <4>11. QueueInv(U, l, q)
        BY <4>1, <4>3, <4>4, <4>10, Zenon DEF QueueInv
      <4> QED
        BY <3>1, <3>5, <4>11, Zenon DEF q
    <3> QED
      BY <3>4, <3>5, Zenon
  <2> QED
    BY <2>1, <2>3, <2>4, <2>5, Zenon DEF TableInv, U
<1> SUFFICES ASSUME SlotSets,
                    TcpInv, NEW m, SegmentType(m), NEW kept, \A k \in kept : SegmentType(k), NEW cost,
                    DeliverToListener(m, kept, cost)
             PROVE  TcpInv'
  BY Zenon
<1> DEFINE refuses(l) == \/ "RST" \in m.flags \/ "ACK" \in m.flags \/ "SYN" \notin m.flags
                         \/ BacklogFull(l) \/ FreeSlots = {}
           reset == IF "ACK" \in m.flags /\ "RST" \notin m.flags
                    THEN {ResetSegment(m.dst, m.src, m.ack, 0, {"RST"})} ELSE {}
           child(l) == [Free EXCEPT
             !.used = TRUE, !.parent = l, !.owner = sockets[l].owner,
             !.local_port = m.dst, !.remote_port = m.src,
             !.irs = m.seq, !.rcv_nxt = Plus(m.seq, 1), !.snd_wnd = m.wnd,
             !.iss = GenerateIsn, !.snd_una = GenerateIsn,
             !.snd_nxt = Plus(GenerateIsn, 1), !.snd_max = Plus(GenerateIsn, 1),
             !.snd_wl1 = m.seq, !.state = "SYN_RECEIVED", !.timer_armed = TRUE]
<1>1. PICK l \in Matching(m) :
        /\ sockets[l].state = "LISTEN"
        /\ IF refuses(l)
           THEN Transmit(kept, reset, cost) /\ UNCHANGED <<sockets, isn>>
           ELSE /\ isn < MaxIsn /\ isn' = isn + 1
                /\ sockets' = [sockets EXCEPT ![FirstFree] = child(l)]
                /\ Transmit(kept, {SynOf(child(l))}, cost)
        /\ UNCHANGED <<opened, next_ephemeral, flowVars>>
  BY Zenon DEF DeliverToListener
<1>2. /\ l \in Slot /\ SocketInv(sockets[l]) /\ TableInv(sockets)
      /\ isn \in Nat /\ sent \in [Flow -> Nat] /\ sent' = sent
  BY <1>1, MatchingLive, InvGives, Zenon DEF flowVars
<1>3. /\ m.ack \in SeqNo /\ m.seq \in SeqNo /\ m.wnd \in Nat
      /\ <<m.dst, m.src>> \in Flow
  BY FlowTurns, Zenon DEF SegmentType
<1> DEFINE c == child(l)
<1>4. CASE refuses(l)
  <2>1. Transmit(kept, reset, cost) /\ sockets' = sockets /\ isn' = isn
    BY <1>1, <1>4, Zenon
  <2>2. \A k \in reset : SegmentType(k)
    <3>1. SegmentType(ResetSegment(m.dst, m.src, m.ack, 0, {"RST"}))
      BY <1>3, Halves, ResetTyped, Zenon
    <3> QED
      BY <3>1, Zenon
  <2> HIDE DEF reset
  <2>3. \A k \in network' : SegmentType(k)
    BY <2>1, <2>2, Transmitted, Zenon
  <2> QED
    BY <1>2, <2>1, <2>3, SilentKeeps, Zenon
<1>5. CASE ~refuses(l)
  <2>1. /\ isn' = isn + 1 /\ sockets' = [sockets EXCEPT ![FirstFree] = c]
        /\ Transmit(kept, {SynOf(c)}, cost)
    BY <1>1, <1>5, Zenon
  <2>2. FirstFree \in Slot /\ ~sockets[FirstFree].used
    BY <1>5, FirstIsFree, Zenon DEF FreeSlots
  <2>3. GenerateIsn \in SeqNo /\ Plus(m.seq, 1) \in SeqNo /\ Plus(GenerateIsn, 1) \in SeqNo
    <3>1. 1 \in Nat
      BY Zenon
    <3>2. GenerateIsn \in SeqNo
      BY <1>2, NumbersWrap, Zenon
    <3> QED
      BY <1>3, <3>1, <3>2, NumbersWrap, Zenon
  <2>4. /\ DOMAIN c = Fields /\ c.used = TRUE /\ c.parent = l /\ c.owner = sockets[l].owner
        /\ c.local_port = m.dst /\ c.remote_port = m.src /\ c.rcv_nxt = Plus(m.seq, 1)
        /\ c.snd_wnd = m.wnd /\ c.iss = GenerateIsn /\ c.snd_una = GenerateIsn
        /\ c.snd_nxt = Plus(GenerateIsn, 1) /\ c.snd_max = Plus(GenerateIsn, 1)
        /\ c.state = "SYN_RECEIVED" /\ c.timer_armed = TRUE
        /\ c.app_closed = FALSE /\ c.accept_queue = <<>> /\ c.fin_queued = FALSE
        /\ c.fin_seq_set = FALSE /\ c.fin_seq = 0 /\ c.tx = <<>> /\ c.rx = <<>>
    <3>1. DOMAIN Free = Fields
      BY Zenon DEF Fields
    <3>2. /\ Free.app_closed = FALSE /\ Free.accept_queue = <<>> /\ Free.fin_queued = FALSE
          /\ Free.fin_seq_set = FALSE /\ Free.fin_seq = 0 /\ Free.tx = <<>> /\ Free.rx = <<>>
      BY Zenon DEF Free
    <3> QED
      BY <3>1, <3>2, FieldNames, ZenonT(60)
  <2> HIDE DEF c
  <2>5. <<>> \in Seq(Nat) /\ Len(<<>>) <= Buffer
    BY Halves
  <2>6. Typed(c)
    BY <1>2, <1>3, <2>3, <2>4, <2>5, Halves, Zenon DEF Typed, State
  <2>7. SocketInv(c) /\ SegmentType(SynOf(c))
    BY <1>3, <2>4, <2>6, SynStarts, Zenon DEF OnFlow, Handshake
  <2>8. PendingChildren(l) = Pending(sockets, l)
    BY Zenon DEF PendingChildren, Children, Pending
  <2>9. ~(Len(sockets[l].accept_queue) + Cardinality(Pending(sockets, l)) >= Backlog)
    BY <1>5, <2>8, Zenon DEF BacklogFull
  <2>10. c.used /\ c.parent = l /\ c.owner = sockets[l].owner /\ c.state = "SYN_RECEIVED"
    BY <2>4, Zenon
  <2>11. TableInv([sockets EXCEPT ![FirstFree] = c])
    BY <1>1, <1>2, <2>2, <2>7, <2>9, <2>10, <1>BornKeeps, Zenon
  <2>12. \A k \in network' : SegmentType(k)
    <3>1. \A k \in {SynOf(c)} : SegmentType(k)
      BY <2>7, Zenon
    <3> QED
      BY <2>1, <3>1, Transmitted, Zenon
  <2>13. isn' \in Nat
    BY <1>2, <2>1
  <2>14. RestInv'
    BY <1>2, <2>12, <2>13, Zenon DEF RestInv
  <2> QED
    BY <2>1, <2>11, <2>14, Zenon DEF TcpInv
<1> HIDE DEF refuses
<1> QED
  BY <1>4, <1>5, Zenon

(* receive_segment, for nobody. *)
LEMMA NobodyStep ==
  ASSUME TcpInv, NEW m, SegmentType(m), NEW kept, \A k \in kept : SegmentType(k), NEW cost,
         DeliverToNobody(m, kept, cost)
  PROVE  TcpInv'
<1> DEFINE n == Len(m.data) + FinLength(m) + IF "SYN" \in m.flags THEN 1 ELSE 0
           out == IF "RST" \in m.flags THEN {}
                  ELSE IF "ACK" \in m.flags
                  THEN {ResetSegment(m.dst, m.src, m.ack, 0, {"RST"})}
                  ELSE {ResetSegment(m.dst, m.src, 0, Plus(m.seq, n), {"RST", "ACK"})}
<1>1. /\ Transmit(kept, out, cost)
      /\ sockets' = sockets /\ isn' = isn /\ sent' = sent
  BY Zenon DEF DeliverToNobody, flowVars
<1>2. m.data \in Seq(Nat) /\ m.seq \in SeqNo /\ m.ack \in SeqNo /\ <<m.dst, m.src>> \in Flow
  BY FlowTurns, Zenon DEF SegmentType
<1>3. n \in Nat
  <2>1. FinLength(m) \in Nat
    BY Zenon DEF FinLength
  <2>2. Len(m.data) \in Nat
    BY <1>2
  <2>3. (IF "SYN" \in m.flags THEN 1 ELSE 0) \in Nat
    BY Zenon
  <2>4. \A x, y, z \in Nat : x + y + z \in Nat
    OBVIOUS
  <2> QED
    BY <2>1, <2>2, <2>3, <2>4, Zenon
<1> HIDE DEF n
<1>4. Plus(m.seq, n) \in SeqNo
  BY <1>2, <1>3, NumbersWrap, Zenon
<1>5. \A k \in out : SegmentType(k)
  <2>1. /\ SegmentType(ResetSegment(m.dst, m.src, m.ack, 0, {"RST"}))
        /\ SegmentType(ResetSegment(m.dst, m.src, 0, Plus(m.seq, n), {"RST", "ACK"}))
    BY <1>2, <1>4, Halves, ResetTyped, Zenon
  <2> QED
    BY <2>1, Zenon
<1> HIDE DEF out
<1>6. \A k \in network' : SegmentType(k)
  BY <1>1, <1>5, Transmitted, Zenon
<1> QED
  BY <1>1, <1>6, SilentKeeps, Zenon

(* A segment arrives. *)
LEMMA DeliverStep ==
  ASSUME SlotSets,
         TcpInv, Deliver
  PROVE  TcpInv'
<1>1. PICK m \in network, again \in {0, 1} :
        LET kept == IF again = 1 THEN network ELSE network \ {m}
        IN DeliverToSocket(m, kept, again) \/ DeliverToListener(m, kept, again)
             \/ DeliverToNobody(m, kept, again)
  BY Zenon DEF Deliver
<1> DEFINE kept == IF again = 1 THEN network ELSE network \ {m}
<1>2. SegmentType(m) /\ \A k \in kept : SegmentType(k)
  BY InvGives, Zenon
<1>3. DeliverToSocket(m, kept, again) \/ DeliverToListener(m, kept, again)
        \/ DeliverToNobody(m, kept, again)
  BY <1>1, Zenon
<1> HIDE DEF kept
<1>4. CASE DeliverToSocket(m, kept, again)
  BY <1>2, <1>4, SocketStep, Zenon
<1>5. CASE DeliverToListener(m, kept, again)
  BY <1>2, <1>5, ListenerStep, Zenon
<1>6. CASE DeliverToNobody(m, kept, again)
  BY <1>2, <1>6, NobodyStep, Zenon
<1> QED
  BY <1>3, <1>4, <1>5, <1>6, Zenon

(* handle_timeout. *)
LEMMA TimeoutStep ==
  \A i :
      /\ SlotSets
      /\ TcpInv
      /\ i \in Slot
      /\ Timeout(i)
    => TcpInv'
(* handle_timeout gives up, sends the SYN again, or goes back to snd_una.  *)
<1>TimeoutMoves. ASSUME NEW s, SocketInv(s), s.timer_armed, NEW n, NEW t, t = [s EXCEPT !.retries = n]
                 PROVE  LET o == Output([t EXCEPT !.snd_nxt = s.snd_una], Mss)
                        IN /\ s.state \notin {"CLOSED", "LISTEN"}
                           /\ Evolves(s, EnterClosed(t, TRUE)) /\ EnterClosed(t, TRUE).state = "CLOSED"
                           /\ Handshake(s) => Evolves(s, t) /\ t.state = s.state /\ SegmentType(SynOf(s))
                           /\ ~Handshake(s) => Evolves(s, o.s) /\ \A m \in o.out : SegmentType(m)
  <2> USE <1>TimeoutMoves
  <2>1. DOMAIN s = Fields /\ s.rx \in Seq(Nat) /\ Len(s.rx) <= Buffer
    BY Zenon DEF SocketInv, Typed
  <2>2. /\ DOMAIN t = Fields /\ t.rx = s.rx
        /\ \A f \in Fields \ {"rx", "retries"} : t[f] = s[f]
    BY <2>1, FieldNames, Zenon
  <2>3. /\ SocketInv(t) /\ Kept(s, t) /\ t.state = s.state /\ t.timer_armed = s.timer_armed
        /\ t.snd_una = s.snd_una
    BY <2>1, <2>2, Untouched, Zenon
  <2>4. s.state \notin {"CLOSED", "LISTEN"} /\ Joined(s)
    BY SocketJoined, Zenon DEF SocketInv, Attended
  <2>5. Typed(t) /\ Windowed(t) /\ (t.fin_seq_set => t.fin_queued) /\ OnFlow(t)
    BY <2>3, <2>4, Zenon DEF SocketInv, Attended, Placed, OnFlow
  <2>6. Evolves(s, EnterClosed(t, TRUE)) /\ EnterClosed(t, TRUE).state = "CLOSED"
    <3>1. Moves(s, EnterClosed(t, TRUE))
      BY <2>3, <2>5, Zenon DEF Moves
    <3>2. EnterClosed(t, TRUE).state = "CLOSED"
      BY <2>2, FieldNames, Zenon DEF EnterClosed, Free
    <3> QED
      BY <2>4, <3>1, <3>2, MovesEvolve, Zenon
  <2>7. ASSUME Handshake(s) PROVE Evolves(s, t) /\ SegmentType(SynOf(s))
    <3>1. Typed(s) /\ OnFlow(s)
      BY <2>4, Zenon DEF SocketInv, Joined
    <3>2. SegmentType(SynOf(s))
      BY <3>1, AckTyped, Zenon
    <3> QED
      BY <2>3, <2>4, <2>7, <3>2, Zenon DEF Evolves, Handshake
  <2>8. ASSUME ~Handshake(s)
        PROVE  LET o == Output([t EXCEPT !.snd_nxt = s.snd_una], Mss)
               IN Evolves(s, o.s) /\ \A m \in o.out : SegmentType(m)
    <3> DEFINE u == [t EXCEPT !.snd_nxt = s.snd_una]
               o == Output(u, Mss)
    <3>1. /\ DOMAIN u = Fields /\ u.snd_nxt = s.snd_una /\ Kept(t, u)
          /\ u.state = t.state /\ u.tx = t.tx /\ u.rx = t.rx /\ u.rcv_nxt = t.rcv_nxt
          /\ u.snd_una = t.snd_una /\ u.iss = t.iss /\ u.snd_wnd = t.snd_wnd
          /\ u.fin_seq = t.fin_seq /\ u.fin_seq_set = t.fin_seq_set
          /\ u.timer_armed = t.timer_armed /\ u.snd_max = t.snd_max
      BY <2>2, FieldNames, ZenonT(60) DEF Kept
    <3> HIDE DEF u
    <3>2. Typed(u)
      BY <2>3, <2>5, <3>1, ZenonT(60) DEF Typed, Kept
    <3>3. Windowed(u)
      <4>1. u.snd_una \in SeqNo /\ u.snd_nxt = u.snd_una /\ u.snd_max \in SeqNo
        BY <2>3, <3>1, <3>2, Zenon DEF Typed
      <4>2. Minus(u.snd_una, u.snd_una) = 0
        BY <4>1, Wraps, Halves DEF SeqNo
      <4>3. Minus(u.snd_max, u.snd_una) \in SeqNo
        BY <4>1, Wraps, Zenon
      <4>4. Minus(u.snd_una, u.snd_una) <= Minus(u.snd_max, u.snd_una)
        BY <4>2, <4>3, Halves DEF SeqNo
      <4> QED
        BY <4>1, <4>4, Zenon DEF Windowed, InFlight
    <3>4. Steady(u) /\ Kept(s, u) /\ u.timer_armed
      <4>1. t.fin_seq_set => t.fin_queued /\ t.state \notin {"ESTABLISHED", "CLOSE_WAIT"}
        BY <2>3, Zenon DEF SocketInv, Attended
      <4>2. u.fin_seq_set => u.fin_queued /\ u.state \notin {"ESTABLISHED", "CLOSE_WAIT"}
        BY <3>1, <4>1, Zenon DEF Kept
      <4>3. OnFlow(u) /\ Kept(s, u) /\ u.timer_armed
        BY <2>3, <2>5, <3>1, ZenonT(60) DEF OnFlow, Kept
      <4> QED
        BY <3>2, <3>3, <4>2, <4>3, Zenon DEF Steady
    <3>5. u.state \in Connected \cup {"TIME_WAIT"}
      BY <2>3, <2>4, <2>8, <3>1, <3>2, Zenon DEF Typed, State, Handshake, Connected, OutputStates
    <3>6. Moves(s, o.s) /\ \A m \in o.out : SegmentType(m)
      <4>1. CASE u.state \in OutputStates
        <5>1. Mss \in Mss .. Buffer
          BY Halves
        <5>2. /\ Steady(o.s) /\ Kept(u, o.s) /\ o.s.state \in OutputStates /\ o.s.timer_armed
              /\ \A m \in o.out : SegmentType(m)
          BY <3>4, <4>1, <5>1, OutputKeeps, Zenon
        <5> HIDE DEF o
        <5>3. Kept(s, o.s)
          BY <3>4, <5>2, Zenon DEF Kept
        <5> QED
          BY <5>2, <5>3, Zenon DEF Moves, Connected
      <4>2. CASE u.state \notin OutputStates
        <5>1. o.s = u /\ o.out = {}
          BY <4>2, Zenon DEF Output, Result
        <5> HIDE DEF o
        <5> QED
          BY <3>4, <3>5, <4>2, <5>1, Zenon DEF Moves
      <4> QED
        BY <4>1, <4>2, Zenon
    <3> HIDE DEF o
    <3> QED
      BY <2>4, <3>6, MovesEvolve, Zenon DEF o, u
  <2> QED
    BY <2>3, <2>4, <2>6, <2>7, <2>8, Zenon
<1> SUFFICES ASSUME SlotSets,
                    TcpInv, NEW i \in Slot, Timeout(i)
             PROVE  TcpInv'
  BY Zenon
<1> DEFINE s == sockets[i]
           tries == 1 + IF s.snd_wnd = 0 /\ ~Handshake(s) THEN 0 ELSE s.retries
           t == [s EXCEPT !.retries = tries]
           o == Output([t EXCEPT !.snd_nxt = s.snd_una], Mss)
           last == tries > IF Handshake(s) THEN MaxSynRetries ELSE MaxRetries
<1>1. /\ s.used /\ s.timer_armed
      /\ IF last
         THEN /\ sockets' = [sockets EXCEPT ![i] = EnterClosed(t, TRUE)]
              /\ Transmit(network, {}, Early)
         ELSE IF Handshake(s)
         THEN /\ sockets' = [sockets EXCEPT ![i] = t]
              /\ Transmit(network, {SynOf(s)}, Early)
         ELSE /\ sockets' = [sockets EXCEPT ![i] = o.s]
              /\ Transmit(network, o.out, Early)
      /\ isn' = isn /\ sent' = sent
  BY Zenon DEF Timeout, flowVars
<1> HIDE DEF tries, last
<1>2. SocketInv(s)
  BY InvGives, Zenon
<1>3. /\ s.state \notin {"CLOSED", "LISTEN"}
      /\ Evolves(s, EnterClosed(t, TRUE)) /\ EnterClosed(t, TRUE).state = "CLOSED"
      /\ Handshake(s) => Evolves(s, t) /\ t.state = s.state /\ SegmentType(SynOf(s))
      /\ ~Handshake(s) => Evolves(s, o.s) /\ \A m \in o.out : SegmentType(m)
  BY <1>1, <1>2, <1>TimeoutMoves, Zenon
<1> HIDE DEF s, t, o
<1>4. ASSUME NEW u, sockets' = [sockets EXCEPT ![i] = u], Evolves(s, u),
             s.state = "SYN_RECEIVED" => u.state \in {"SYN_RECEIVED", "CLOSED"},
             NEW out, Transmit(network, out, Early), \A m \in out : SegmentType(m)
      PROVE  TcpInv'
  <2>1. SocketInv(u) /\ Calm(s, u)
    BY <1>2, <1>3, <1>4, EvolvesCalm, Zenon
  <2>2. RestInv'
    BY <1>1, <1>4, InvGives, Transmitted, Zenon DEF RestInv
  <2> QED
    BY <1>4, <2>1, <2>2, StepKeeps, Zenon DEF s
<1>5. CASE last
  <2> DEFINE none == {}
  <2>1. \A m \in none : SegmentType(m)
    BY Zenon
  <2>2. sockets' = [sockets EXCEPT ![i] = EnterClosed(t, TRUE)] /\ Transmit(network, none, Early)
    BY <1>1, <1>5, Zenon
  <2>3. /\ Evolves(s, EnterClosed(t, TRUE))
        /\ s.state = "SYN_RECEIVED" => EnterClosed(t, TRUE).state \in {"SYN_RECEIVED", "CLOSED"}
    BY <1>3, Zenon
  <2> HIDE DEF none
  <2> QED
    BY <1>4, <2>1, <2>2, <2>3, Zenon
<1>6. CASE ~last /\ Handshake(s)
  <2>1. \A m \in {SynOf(s)} : SegmentType(m)
    BY <1>3, <1>6, Zenon
  <2>2. sockets' = [sockets EXCEPT ![i] = t] /\ Transmit(network, {SynOf(s)}, Early)
    BY <1>1, <1>6, Zenon
  <2> QED
    BY <1>3, <1>4, <1>6, <2>1, <2>2, Zenon
<1>7. CASE ~last /\ ~Handshake(s)
  <2>1. sockets' = [sockets EXCEPT ![i] = o.s] /\ Transmit(network, o.out, Early)
    BY <1>1, <1>7, Zenon
  <2>2. s.state # "SYN_RECEIVED"
    BY <1>7, Zenon DEF Handshake
  <2> QED
    BY <1>3, <1>4, <1>7, <2>1, <2>2, Zenon
<1> QED
  BY <1>5, <1>6, <1>7, Zenon

(* handle_timeout, for a segment that was waiting for ARP. *)
LEMMA ArpStep ==
  ASSUME TcpInv, NEW i \in Slot, ArpTimeout(i)
  PROVE  TcpInv'
<1> DEFINE s == sockets[i]
           out == IF Handshake(s) THEN {SynOf(s)} ELSE HeadOf(s)
<1>1. /\ s.timer_armed /\ Transmit(network, out, 1)
      /\ sockets' = sockets /\ isn' = isn /\ sent' = sent
  BY Zenon DEF ArpTimeout, flowVars
<1>2. Typed(s) /\ OnFlow(s)
  <2>1. SocketInv(s)
    BY InvGives, Zenon
  <2>2. s.state \notin {"CLOSED", "LISTEN"}
    BY <1>1, <2>1, Zenon DEF SocketInv, Attended
  <2> QED
    BY <2>1, <2>2, Zenon DEF SocketInv, Placed, OnFlow
<1>3. \A m \in out : SegmentType(m)
  <2>1. SegmentType(SynOf(s)) /\ \A m \in HeadOf(s) : SegmentType(m)
    BY <1>2, AckTyped, HeadTyped, Zenon
  <2> QED
    BY <2>1, Zenon
<1> HIDE DEF out
<1>4. \A m \in network' : SegmentType(m)
  BY <1>1, <1>3, InvGives, Transmitted, Zenon
<1> QED
  BY <1>1, <1>4, SilentKeeps, Zenon

(* tcp_poll, at the end of TIME_WAIT or FIN_WAIT_2. *)
LEMMA WaitStep ==
  ASSUME SlotSets,
         TcpInv, NEW i \in Slot, WaitOver(i)
  PROVE  TcpInv'
<1> DEFINE s == sockets[i]
           t == EnterClosed(s, FALSE)
<1>1. /\ s.state \in {"TIME_WAIT", "FIN_WAIT_2"} /\ sockets' = [sockets EXCEPT ![i] = t]
      /\ network' = network /\ isn' = isn /\ sent' = sent
  BY Zenon DEF WaitOver, flowVars
<1>2. SocketInv(s) /\ s.state \notin {"CLOSED", "LISTEN", "SYN_RECEIVED"}
  BY <1>1, InvGives, Zenon
<1>3. Typed(s) /\ Windowed(s) /\ Kept(s, s) /\ (s.fin_seq_set => s.fin_queued)
  BY <1>2, Zenon DEF SocketInv, Attended, Kept
<1>4. Moves(s, t)
  BY <1>3, Zenon DEF Moves
<1> HIDE DEF s, t
<1>5. Evolves(s, t)
  BY <1>2, <1>4, SocketJoined, MovesEvolve, Zenon
<1>6. SocketInv(t) /\ Calm(s, t)
  BY <1>2, <1>5, EvolvesCalm, Zenon
<1>7. RestInv'
  BY <1>1, InvGives, Zenon DEF RestInv
<1> QED
  BY <1>1, <1>6, <1>7, StepKeeps, Zenon DEF s

(* tcp_socket_owned. *)
LEMMA SocketStart ==
  ASSUME SlotSets,
         TcpInv, NEW p, Socket(p)
  PROVE  TcpInv'
<1> DEFINE t == [Free EXCEPT !.used = TRUE, !.owner = p]
           s == sockets[FirstFree]
<1>1. /\ FreeSlots # {} /\ sockets' = [sockets EXCEPT ![FirstFree] = t]
      /\ network' = network /\ isn' = isn /\ sent' = sent
  BY Zenon DEF Socket, flowVars
<1>2. FirstFree \in Slot /\ ~s.used
  BY <1>1, FirstIsFree, Zenon DEF FreeSlots
<1>3. s.state = "CLOSED" /\ s.parent = NoParent
  BY <1>2, InvGives, Zenon DEF SocketInv, Placed
<1>4. DOMAIN t = Fields /\ t.used = TRUE /\ \A f \in Fields \ {"used", "owner"} : t[f] = Free[f]
  <2>1. DOMAIN Free = Fields
    BY Zenon DEF Fields
  <2> QED
    BY <2>1, FieldNames, Zenon
<1> HIDE DEF t, s
<1>5. /\ t.app_closed = Free.app_closed /\ t.parent = Free.parent
      /\ t.accept_queue = Free.accept_queue
      /\ t.local_port = Free.local_port /\ t.remote_port = Free.remote_port
      /\ t.fin_queued = Free.fin_queued /\ t.timer_armed = Free.timer_armed
      /\ t.state = Free.state /\ t.tx = Free.tx /\ t.rx = Free.rx /\ t.rcv_nxt = Free.rcv_nxt
      /\ t.snd_una = Free.snd_una /\ t.iss = Free.iss /\ t.snd_wnd = Free.snd_wnd
      /\ t.fin_seq = Free.fin_seq /\ t.fin_seq_set = Free.fin_seq_set
      /\ t.snd_nxt = Free.snd_nxt /\ t.snd_max = Free.snd_max
  BY <1>4, FieldNames, Zenon
<1>6. Free.state = "CLOSED" /\ Free.parent = NoParent
  BY Zenon DEF Free
<1>7. Typed(t) /\ Windowed(t)
  <2>1. Typed(t)
    BY <1>4, <1>5, FreeIsFine, Zenon DEF SocketInv, Typed
  <2>2. Windowed(t)
    BY <1>5, FreeIsFine, Zenon DEF SocketInv, Windowed, InFlight
  <2> QED
    BY <2>1, <2>2, Zenon
<1>8. Attended(t) /\ Placed(t)
  <2>1. Attended(t)
    BY <1>5, FreeIsFine, Zenon DEF SocketInv, Attended, Handshake, Shaking
  <2>2. Placed(t)
    BY <1>4, <1>5, FreeIsFine, Zenon DEF SocketInv, Placed
  <2> QED
    BY <2>1, <2>2, Zenon
<1>9. SocketInv(t) /\ Calm(s, t)
  BY <1>3, <1>5, <1>6, <1>7, <1>8, Zenon DEF SocketInv, Calm
<1>10. RestInv'
  BY <1>1, InvGives, Zenon DEF RestInv
<1> QED
  BY <1>1, <1>2, <1>9, <1>10, StepKeeps, Zenon DEF s

(* tcp_listen. *)
LEMMA ListenStep ==
  \A i :
      /\ SlotSets
      /\ TcpInv
      /\ i \in Slot
      /\ Listen(i)
    => TcpInv'
(* tcp_listen: a socket that starts to listen has no children yet. *)
<1>ListenKeeps. ASSUME SlotSets,
                       NEW T, TableInv(T), NEW i \in Slot, T[i].state = "CLOSED", T[i].used,
                       T[i].parent = NoParent, ~T[i].app_closed
                PROVE  TableInv([T EXCEPT ![i].local_port = ServerPort, ![i].state = "LISTEN"])
  <2> USE <1>ListenKeeps
  <2> DEFINE s == T[i]
             t == [s EXCEPT !.local_port = ServerPort, !.state = "LISTEN"]
             U == [T EXCEPT ![i].local_port = ServerPort, ![i].state = "LISTEN"]
  <2>1. SocketInv(s) /\ DOMAIN s = Fields /\ DOMAIN T = Slot
    BY Zenon DEF TableInv, SocketInv, Typed
  <2>2. /\ DOMAIN t = Fields /\ t.accept_queue = s.accept_queue /\ t.parent = s.parent
        /\ t.used = s.used /\ t.app_closed = s.app_closed /\ t.owner = s.owner
        /\ t.local_port = ServerPort /\ t.remote_port = s.remote_port
        /\ t.fin_queued = s.fin_queued /\ t.timer_armed = s.timer_armed
        /\ t.state = "LISTEN" /\ t.tx = s.tx /\ t.rx = s.rx /\ t.rcv_nxt = s.rcv_nxt
        /\ t.snd_una = s.snd_una /\ t.iss = s.iss /\ t.snd_wnd = s.snd_wnd
        /\ t.fin_seq = s.fin_seq /\ t.fin_seq_set = s.fin_seq_set
        /\ t.snd_nxt = s.snd_nxt /\ t.snd_max = s.snd_max
    <3> HIDE DEF s
    <3> QED
      BY <2>1, FieldNames, Zenon
  <2>3. DOMAIN U = Slot /\ U[i] = t /\ \A j \in Slot : j # i => U[j] = T[j]
    BY <2>1, Zenon
  <2>4. s.accept_queue = <<>> /\ s.state = "CLOSED" /\ s.parent = NoParent /\ ~s.app_closed /\ s.used
    BY <2>1, Zenon DEF SocketInv, Placed
  <2> HIDE DEF U, t, s
  <2>5. SocketInv(t)
    <3>1. Typed(t)
      BY <2>1, <2>2, Zenon DEF SocketInv, Typed, State
    <3>2. Windowed(t)
      BY <2>1, <2>2, Zenon DEF SocketInv, Windowed, InFlight
    <3>3. ServerPort # 0
      BY TcpAssumption, Zenon
    <3>4. Attended(t)
      BY <2>1, <2>2, <2>4, <3>3, Zenon DEF SocketInv, Attended, Handshake, OutputStates
    <3>5. Placed(t)
      BY <2>2, <2>4, Zenon DEF Placed
    <3> QED
      BY <3>1, <3>2, <3>4, <3>5, Zenon DEF SocketInv
  <2>6. \A j \in Slot : SocketInv(U[j])
    BY <2>3, <2>5, Zenon DEF TableInv
  <2>7. \A j \in Slot : U[j].parent = T[j].parent /\ U[j].owner = T[j].owner /\ U[j].used = T[j].used
    BY <2>2, <2>3, Zenon DEF s
  <2>8. \A j \in Slot : T[j].parent # NoParent => T[j].parent # i /\ j # i
    <3> SUFFICES ASSUME NEW j \in Slot, T[j].parent # NoParent PROVE T[j].parent # i /\ j # i
      BY Zenon
    <3>1. T[T[j].parent].state = "LISTEN"
      BY ParentListens, Zenon
    <3> QED
      BY <3>1, Zenon
  <2>9. Family(U)
    <3> SUFFICES ASSUME NEW j \in Slot, U[j].parent # NoParent
                 PROVE  U[U[j].parent].state = "LISTEN" /\ U[U[j].parent].owner = U[j].owner
      BY Zenon DEF Family
    <3>1. U[j].parent = T[j].parent
      BY <2>7, Zenon
    <3>2. T[j].parent # NoParent
      BY <3>1, Zenon
    <3>3. T[j].parent \in Slot /\ T[T[j].parent].state = "LISTEN" /\ T[T[j].parent].owner = T[j].owner
      BY <3>2, ParentListens, ZenonT(60)
    <3>4. U[T[j].parent] = T[T[j].parent]
      BY <2>3, <2>8, <3>2, <3>3, Zenon
    <3> QED
      BY <2>7, <3>1, <3>3, <3>4, Zenon
  <2>10. ASSUME NEW l \in Slot, U[l].state = "LISTEN" PROVE QueueInv(U, l, U[l].accept_queue)
    <3>1. l # NoParent
      BY NoSlotIsNoParent, Zenon
    <3>2. CASE l # i
      <4>1. U[l] = T[l]
        BY <2>3, <3>2, Zenon
      <4>2. QueueInv(T, l, T[l].accept_queue)
        BY <2>10, <4>1, Zenon DEF TableInv
      <4>3. \A j \in Slot : T[j].parent = l => U[j] = T[j]
        BY <2>3, <2>8, <3>1, Zenon
      <4>4. \A j \in Slot : T[j].used /\ T[j].parent = l /\ T[j].state # "SYN_RECEIVED" =>
              U[j].used /\ U[j].parent = l /\ U[j].state # "SYN_RECEIVED"
        BY <4>3, Zenon
      <4>5. \A j \in Slot : U[j].used /\ U[j].parent = l =>
              /\ T[j].used /\ T[j].parent = l
              /\ U[j].state = "SYN_RECEIVED" => T[j].state = "SYN_RECEIVED"
              /\ Through(U[j]) => Through(T[j])
        BY <2>7, <4>3, Zenon
      <4>6. QueueInv(U, l, T[l].accept_queue)
        BY <4>2, <4>4, <4>5, QueueKept, Zenon
      <4> QED
        BY <4>1, <4>6, Zenon
    <3>3. CASE l = i
      <4>1. U[l].accept_queue = <<>>
        BY <2>2, <2>3, <2>4, <3>3, Zenon
      <4>2. \A j \in Slot : U[j].parent # l
        BY <2>7, <2>8, <3>1, <3>3, Zenon
      <4>3. Pending(U, l) = {}
        BY <4>2, Zenon DEF Pending
      <4>4. Cardinality(Pending(U, l)) = 0
        BY <4>3, Zenon DEF SlotSets
      <4>5. /\ <<>> \in Seq(Slot) /\ Len(<<>>) = 0 /\ 0 + 0 <= Backlog
            /\ \A k \in 1 .. 0 : FALSE
        BY TcpAssumption
      <4>6. QueueInv(U, l, <<>>)
        BY <4>2, <4>4, <4>5, Zenon DEF QueueInv
      <4> QED
        BY <4>1, <4>6, Zenon
    <3> QED
      BY <3>2, <3>3, Zenon
  <2> QED
    BY <2>3, <2>6, <2>9, <2>10, Zenon DEF TableInv, U
<1> SUFFICES ASSUME SlotSets,
                    TcpInv, NEW i \in Slot, Listen(i)
             PROVE  TcpInv'
  BY Zenon
<1>1. /\ sockets[i].state = "CLOSED" /\ sockets[i].used /\ sockets[i].parent = NoParent
      /\ ~sockets[i].app_closed
      /\ sockets' = [sockets EXCEPT ![i].local_port = ServerPort, ![i].state = "LISTEN"]
      /\ network' = network /\ isn' = isn /\ sent' = sent
  BY Zenon DEF Listen, Holds, flowVars
<1>2. TableInv([sockets EXCEPT ![i].local_port = ServerPort, ![i].state = "LISTEN"])
  BY <1>1, InvGives, <1>ListenKeeps, Zenon
<1>3. RestInv'
  BY <1>1, InvGives, Zenon DEF RestInv
<1> QED
  BY <1>1, <1>2, <1>3, Zenon DEF TcpInv

(* tcp_connect. *)
LEMMA ConnectStep ==
  ASSUME SlotSets,
         TcpInv, NEW i \in Slot, Connect(i)
  PROVE  TcpInv'
<1> DEFINE s == sockets[i]
           t == [s EXCEPT
              !.local_port = next_ephemeral + 1, !.remote_port = ServerPort,
              !.error = FALSE, !.fin_received = FALSE,
              !.iss = GenerateIsn, !.snd_una = GenerateIsn,
              !.snd_nxt = Plus(GenerateIsn, 1), !.snd_max = Plus(GenerateIsn, 1),
              !.state = "SYN_SENT", !.timer_armed = TRUE]
<1>1. /\ s.used /\ s.parent = NoParent /\ ~s.app_closed
      /\ s.state = "CLOSED" /\ s.local_port = 0 /\ next_ephemeral + 1 \in ClientPort
      /\ isn' = isn + 1 /\ sockets' = [sockets EXCEPT ![i] = t]
      /\ Transmit(network, {SynOf(t)}, 0) /\ sent' = sent
  BY Zenon DEF Connect, Holds, flowVars
<1>2. SocketInv(s) /\ DOMAIN s = Fields /\ isn \in Nat
  BY InvGives, Zenon DEF SocketInv, Typed
<1>3. GenerateIsn \in SeqNo /\ Plus(GenerateIsn, 1) \in SeqNo
  <2>1. 1 \in Nat
    BY Zenon
  <2>2. GenerateIsn \in SeqNo
    BY <1>2, NumbersWrap, Zenon
  <2> QED
    BY <2>1, <2>2, NumbersWrap, Zenon
<1>4. /\ DOMAIN t = Fields /\ t.used = s.used /\ t.parent = s.parent
      /\ t.local_port = next_ephemeral + 1 /\ t.remote_port = ServerPort
      /\ t.iss = GenerateIsn /\ t.snd_una = GenerateIsn
      /\ t.snd_nxt = Plus(GenerateIsn, 1) /\ t.snd_max = Plus(GenerateIsn, 1)
      /\ t.state = "SYN_SENT" /\ t.timer_armed = TRUE
      /\ t.rcv_nxt = s.rcv_nxt /\ t.snd_wnd = s.snd_wnd
      /\ t.app_closed = s.app_closed /\ t.accept_queue = s.accept_queue
      /\ t.fin_queued = s.fin_queued /\ t.fin_seq_set = s.fin_seq_set
      /\ t.fin_seq = s.fin_seq /\ t.tx = s.tx /\ t.rx = s.rx
  BY <1>2, FieldNames, Zenon
<1> HIDE DEF s, t
<1>5. s.tx = <<>> /\ ~s.fin_seq_set /\ s.accept_queue = <<>>
  BY <1>1, <1>2, Zenon DEF SocketInv, Attended, Placed
<1>6. <<next_ephemeral + 1, ServerPort>> \in Flow
  BY <1>1, Zenon DEF Flow
<1>7. Typed(t)
  BY <1>2, <1>3, <1>4, Zenon DEF SocketInv, Typed, State
<1>8. SocketInv(t) /\ SegmentType(SynOf(t))
  BY <1>1, <1>4, <1>5, <1>6, <1>7, SynStarts, Zenon DEF OnFlow, Handshake
<1>9. Calm(s, t)
  BY <1>1, <1>4, Zenon DEF Calm
<1>10. \A m \in network' : SegmentType(m)
  <2>1. \A m \in {SynOf(t)} : SegmentType(m)
    BY <1>8, Zenon
  <2> QED
    BY <1>1, <2>1, InvGives, Transmitted, Zenon
<1>11. isn' \in Nat
  BY <1>1, <1>2
<1>12. RestInv'
  BY <1>1, <1>10, <1>11, InvGives, Zenon DEF RestInv
<1> QED
  BY <1>1, <1>8, <1>9, <1>12, StepKeeps, Zenon DEF s

(* tcp_accept. *)
LEMMA AcceptStep ==
  \A l :
      /\ SlotSets
      /\ TcpInv
      /\ l \in Slot
      /\ Accept(l)
    => TcpInv'
(* A queue without its first. *)
<1>Tailed. ASSUME NEW q \in Seq(Slot), q # <<>>
           PROVE  /\ Tail(q) \in Seq(Slot) /\ Len(q) \in Nat /\ Len(Tail(q)) = Len(q) - 1
                  /\ Head(q) = q[1] /\ Head(q) \in Slot /\ 1 \in 1 .. Len(q)
                  /\ \A k \in 1 .. Len(q) - 1 : /\ Tail(q)[k] = q[k + 1] /\ q[k + 1] \in Slot
                                                /\ k + 1 \in 1 .. Len(q) /\ k + 1 # 1
                  /\ \A k \in 1 .. Len(q) : k # 1 => k - 1 \in 1 .. Len(q) - 1 /\ Tail(q)[k - 1] = q[k]
                  /\ \A j, k \in 1 .. Len(q) - 1 : j + 1 = k + 1 => j = k
  BY <1>Tailed
(* tcp_accept: the head of the queue leaves it, and is nobody's child. *)
<1>AcceptKeeps. ASSUME SlotSets,
                       NEW T, TableInv(T), NEW l \in Slot, T[l].state = "LISTEN", T[l].accept_queue # <<>>
                PROVE  TableInv([T EXCEPT ![Head(T[l].accept_queue)].parent = NoParent,
                                          ![l].accept_queue = Tail(@)])
  <2> USE <1>AcceptKeeps
  <2> DEFINE q == T[l].accept_queue
             h == Head(q)
             c == [T[h] EXCEPT !.parent = NoParent]
             p == [T[l] EXCEPT !.accept_queue = Tail(q)]
             U == [T EXCEPT ![h].parent = NoParent, ![l].accept_queue = Tail(@)]
  <2>1. QueueInv(T, l, q) /\ DOMAIN T = Slot /\ SocketInv(T[l]) /\ l # NoParent
    BY NoSlotIsNoParent, Zenon DEF TableInv
  <2>2. /\ q \in Seq(Slot) /\ (\A j, k \in 1 .. Len(q) : q[j] = q[k] => j = k)
        /\ \A k \in 1 .. Len(q) : T[q[k]].used /\ T[q[k]].parent = l /\ T[q[k]].state # "SYN_RECEIVED"
        /\ \A j \in Slot : T[j].used /\ T[j].parent = l /\ Through(T[j]) => \E k \in 1 .. Len(q) : q[k] = j
        /\ Len(q) + Cardinality(Pending(T, l)) <= Backlog
    BY <2>1, Zenon DEF QueueInv
  <2>3. /\ Tail(q) \in Seq(Slot) /\ Len(q) \in Nat /\ Len(Tail(q)) = Len(q) - 1
        /\ h = q[1] /\ h \in Slot /\ 1 \in 1 .. Len(q)
        /\ \A k \in 1 .. Len(q) - 1 : /\ Tail(q)[k] = q[k + 1] /\ q[k + 1] \in Slot
                                      /\ k + 1 \in 1 .. Len(q) /\ k + 1 # 1
        /\ \A k \in 1 .. Len(q) : k # 1 => k - 1 \in 1 .. Len(q) - 1 /\ Tail(q)[k - 1] = q[k]
        /\ \A j, k \in 1 .. Len(q) - 1 : j + 1 = k + 1 => j = k
    BY <2>2, <1>Tailed, Zenon
  <2> HIDE DEF q, h
  <2>4. T[h].used /\ T[h].parent = l
    BY <2>2, <2>3, Zenon
  <2>5. T[l].parent = NoParent /\ h # l /\ SocketInv(T[h]) /\ T[h].state # "LISTEN"
    <3>1. T[l].parent = NoParent /\ SocketInv(T[h])
      BY <2>1, <2>3, Zenon DEF TableInv, SocketInv, Placed
    <3> QED
      BY <2>1, <2>4, <3>1, Zenon DEF SocketInv, Placed
  <2>6. DOMAIN T[h] = Fields /\ DOMAIN T[l] = Fields /\ T[h].accept_queue = <<>>
    BY <2>1, <2>5, Zenon DEF SocketInv, Typed, Placed
  <2>7. "accept_queue" \in Fields /\ "parent" \in Fields
    BY FieldNames, Zenon
  <2>8. /\ SocketInv(c) /\ c.parent = NoParent
        /\ c.state = T[h].state /\ c.used = T[h].used /\ c.owner = T[h].owner
    <3>1. /\ DOMAIN c = Fields /\ c.accept_queue = T[h].accept_queue /\ c.parent = NoParent
          /\ \A f \in Fields \ {"accept_queue", "parent"} : c[f] = T[h][f]
      BY <2>6, <2>7, Zenon
    <3> HIDE DEF c
    <3>2. c.accept_queue = <<>>
      BY <2>6, <3>1, Zenon
    <3> QED
      BY <2>5, <3>1, <3>2, Requeued, ZenonT(60)
  <2>9. /\ SocketInv(p) /\ p.accept_queue = Tail(q) /\ p.parent = T[l].parent
        /\ p.state = T[l].state /\ p.used = T[l].used /\ p.owner = T[l].owner
    <3>1. /\ DOMAIN p = Fields /\ p.accept_queue = Tail(q) /\ p.parent = T[l].parent
          /\ \A f \in Fields \ {"accept_queue", "parent"} : p[f] = T[l][f]
      BY <2>6, <2>7, Zenon
    <3> HIDE DEF p
    <3> QED
      BY <2>1, <3>1, Requeued, Zenon
  <2>10. DOMAIN U = Slot /\ U[h] = c /\ U[l] = p /\ \A j \in Slot : j # h /\ j # l => U[j] = T[j]
    BY <2>1, <2>3, <2>5, Zenon DEF q
  <2> HIDE DEF U, c, p
  <2>11. \A j \in Slot : U[j].used = T[j].used /\ U[j].state = T[j].state /\ U[j].owner = T[j].owner
    <3> SUFFICES ASSUME NEW j \in Slot
                 PROVE  U[j].used = T[j].used /\ U[j].state = T[j].state /\ U[j].owner = T[j].owner
      BY Zenon
    <3>1. CASE j = h
      BY <2>8, <2>10, <3>1, Zenon
    <3>2. CASE j = l
      BY <2>9, <2>10, <3>2, Zenon
    <3>3. CASE j # h /\ j # l
      BY <2>10, <3>3, Zenon
    <3> QED
      BY <3>1, <3>2, <3>3, Zenon
  <2>12. U[h].parent = NoParent /\ \A j \in Slot : j # h => U[j].parent = T[j].parent
    BY <2>8, <2>9, <2>10, Zenon
  <2>13. \A j \in Slot : SocketInv(U[j])
    BY <2>8, <2>9, <2>10, Zenon DEF TableInv
  <2>14. Family(U)
    <3> SUFFICES ASSUME NEW j \in Slot, U[j].parent # NoParent
                 PROVE  U[U[j].parent].state = "LISTEN" /\ U[U[j].parent].owner = U[j].owner
      BY Zenon DEF Family
    <3>1. U[j].parent = T[j].parent
      BY <2>12, Zenon
    <3>2. T[j].parent # NoParent
      BY <3>1, Zenon
    <3>3. T[j].parent \in Slot /\ T[T[j].parent].state = "LISTEN" /\ T[T[j].parent].owner = T[j].owner
      BY <3>2, ParentListens, Zenon
    <3> QED
      BY <2>11, <3>1, <3>3, Zenon
  <2>15. ASSUME NEW k \in Slot, U[k].state = "LISTEN" PROVE QueueInv(U, k, U[k].accept_queue)
    <3>0. k # NoParent
      BY NoSlotIsNoParent, Zenon
    <3>1. CASE k # l
      <4>1. T[k].state = "LISTEN" /\ k # h
        BY <2>5, <2>11, <2>15, Zenon
      <4>2. U[k] = T[k] /\ QueueInv(T, k, T[k].accept_queue)
        BY <2>10, <3>1, <4>1, Zenon DEF TableInv
      <4>3. \A j \in Slot : U[j].parent = k <=> T[j].parent = k
        BY <2>4, <2>12, <3>0, <3>1, Zenon
      <4>4. \A j \in Slot : T[j].used /\ T[j].parent = k /\ T[j].state # "SYN_RECEIVED" =>
              U[j].used /\ U[j].parent = k /\ U[j].state # "SYN_RECEIVED"
        BY <2>11, <4>3, Zenon
      <4>5. \A j \in Slot : U[j].used /\ U[j].parent = k =>
              /\ T[j].used /\ T[j].parent = k
              /\ U[j].state = "SYN_RECEIVED" => T[j].state = "SYN_RECEIVED"
              /\ Through(U[j]) => Through(T[j])
        BY <2>11, <4>3, Zenon DEF Through, Handshake
      <4>6. QueueInv(U, k, T[k].accept_queue)
        BY <4>2, <4>4, <4>5, QueueKept, Zenon
      <4> QED
        BY <4>2, <4>6, Zenon
    <3>2. CASE k = l
      <4> DEFINE r == Tail(q)
      <4>1. /\ r \in Seq(Slot) /\ Len(r) = Len(q) - 1
            /\ 1 .. Len(r) = 1 .. Len(q) - 1
        BY <2>3, Zenon
      <4>2. ASSUME NEW n \in 1 .. Len(q) - 1
            PROVE  r[n] = q[n + 1] /\ r[n] \in Slot /\ n + 1 \in 1 .. Len(q) /\ r[n] # h
        <5>1. r[n] = q[n + 1] /\ q[n + 1] \in Slot /\ n + 1 \in 1 .. Len(q) /\ n + 1 # 1
          BY <2>3, Zenon
        <5>2. q[n + 1] # q[1]
          BY <2>2, <2>3, <5>1, Zenon
        <5> QED
          BY <2>3, <5>1, <5>2, Zenon
      <4> HIDE DEF r
      <4>3. ASSUME NEW j \in 1 .. Len(q) - 1, NEW n \in 1 .. Len(q) - 1, r[j] = r[n] PROVE j = n
        <5>1. q[j + 1] = q[n + 1] /\ j + 1 \in 1 .. Len(q) /\ n + 1 \in 1 .. Len(q)
          BY <4>2, <4>3, Zenon
        <5>2. j + 1 = n + 1
          BY <2>2, <5>1, Zenon
        <5> QED
          BY <2>3, <5>2, Zenon
      <4>4. ASSUME NEW n \in 1 .. Len(q) - 1
            PROVE  U[r[n]].used /\ U[r[n]].parent = l /\ U[r[n]].state # "SYN_RECEIVED"
        <5>1. r[n] \in Slot /\ r[n] # h /\ r[n] = q[n + 1] /\ n + 1 \in 1 .. Len(q)
          BY <4>2, Zenon
        <5>2. T[q[n + 1]].used /\ T[q[n + 1]].parent = l /\ T[q[n + 1]].state # "SYN_RECEIVED"
          BY <2>2, <5>1, Zenon
        <5>3. T[r[n]].used /\ T[r[n]].parent = l /\ T[r[n]].state # "SYN_RECEIVED"
          BY <5>1, <5>2, Zenon
        <5>4. /\ U[r[n]].used = T[r[n]].used /\ U[r[n]].state = T[r[n]].state
              /\ U[r[n]].parent = T[r[n]].parent
          BY <2>11, <2>12, <5>1, Zenon
        <5> QED
          BY <5>3, <5>4, Zenon
      <4>5. ASSUME NEW j \in Slot, U[j].used, U[j].parent = l, Through(U[j])
            PROVE  \E n \in 1 .. Len(q) - 1 : r[n] = j
        <5>1. j # h
          BY <2>1, <2>12, <4>5, Zenon
        <5>2. T[j].used /\ T[j].parent = l /\ Through(T[j])
          BY <2>11, <2>12, <4>5, <5>1, Zenon DEF Through, Handshake
        <5>3. PICK n \in 1 .. Len(q) : q[n] = j
          BY <2>2, <5>2, Zenon
        <5>4. n # 1
          BY <2>3, <5>1, <5>3, Zenon
        <5>5. n - 1 \in 1 .. Len(q) - 1 /\ r[n - 1] = q[n]
          BY <2>3, <5>4, ZenonT(60) DEF r
        <5> QED
          BY <5>3, <5>5, Zenon
      <4>6. Len(r) + Cardinality(Pending(U, l)) <= Backlog
        <5>1. Pending(U, l) \in SUBSET Pending(T, l)
          BY <2>1, <2>11, <2>12, Zenon DEF Pending
        <5>2. /\ Cardinality(Pending(U, l)) \in Nat /\ Cardinality(Pending(T, l)) \in Nat
              /\ Cardinality(Pending(U, l)) <= Cardinality(Pending(T, l))
          BY <5>1, PendingCounts, Zenon
        <5>3. Backlog \in Nat
          BY TcpAssumption, Zenon
        <5> QED
          BY <2>2, <2>3, <4>1, <5>2, <5>3
      <4>7. \A j, n \in 1 .. Len(r) : r[j] = r[n] => j = n
        BY <4>1, <4>3, Zenon
      <4>8. \A n \in 1 .. Len(r) : U[r[n]].used /\ U[r[n]].parent = l /\ U[r[n]].state # "SYN_RECEIVED"
        BY <4>1, <4>4, Zenon
      <4>9. \A j \in Slot : U[j].used /\ U[j].parent = l /\ Through(U[j])
                              => \E n \in 1 .. Len(r) : r[n] = j
        BY <4>1, <4>5, Zenon
      <4>10. QueueInv(U, l, r)
        BY <4>1, <4>6, <4>7, <4>8, <4>9, Zenon DEF QueueInv
      <4> QED
        BY <2>9, <2>10, <3>2, <4>10, Zenon DEF r
    <3> QED
      BY <3>1, <3>2, Zenon
  <2> QED
    BY <2>10, <2>13, <2>14, <2>15, Zenon DEF TableInv, U, h, q
<1> SUFFICES ASSUME SlotSets,
                    TcpInv, NEW l \in Slot, Accept(l)
             PROVE  TcpInv'
  BY Zenon
<1>1. /\ sockets[l].state = "LISTEN" /\ sockets[l].accept_queue # <<>>
      /\ sockets' = [sockets EXCEPT ![Head(sockets[l].accept_queue)].parent = NoParent,
                                    ![l].accept_queue = Tail(@)]
      /\ network' = network /\ isn' = isn /\ sent' = sent
  BY Zenon DEF Accept, flowVars
<1>2. TableInv([sockets EXCEPT ![Head(sockets[l].accept_queue)].parent = NoParent,
                               ![l].accept_queue = Tail(@)])
  BY <1>1, InvGives, <1>AcceptKeeps, Zenon
<1>3. RestInv'
  BY <1>1, InvGives, Zenon DEF RestInv
<1> QED
  BY <1>1, <1>2, <1>3, Zenon DEF TcpInv

(* tcp_send. *)
LEMMA SendStep ==
  \A p, i, n :
      /\ SlotSets
      /\ TcpInv
      /\ i \in Slot
      /\ n \in Nat
      /\ Send(p, i, n)
    => TcpInv'
(* tcp_send puts bytes into the ring and calls tcp_output. *)
<1>SendEvolves. ASSUME NEW s, SocketInv(s), s.state \in {"ESTABLISHED", "CLOSE_WAIT"},
                       NEW tx \in Seq(Nat), Len(tx) <= Buffer, NEW cwnd \in Mss .. Buffer,
                       NEW u, u = [s EXCEPT !.tx = tx]
                PROVE  LET o == Output(u, cwnd)
                       IN Evolves(s, o.s) /\ \A m \in o.out : SegmentType(m)
  <2> USE <1>SendEvolves
  <2> DEFINE o == Output(u, cwnd)
  <2>1. Joined(s) /\ DOMAIN s = Fields
    BY SocketJoined, Zenon DEF SocketInv, Typed
  <2>2. /\ DOMAIN u = Fields /\ u.tx = tx /\ Kept(s, u)
        /\ u.state = s.state /\ u.rx = s.rx /\ u.rcv_nxt = s.rcv_nxt
        /\ u.snd_una = s.snd_una /\ u.iss = s.iss /\ u.snd_wnd = s.snd_wnd
        /\ u.fin_seq = s.fin_seq /\ u.fin_seq_set = s.fin_seq_set
        /\ u.timer_armed = s.timer_armed /\ u.snd_max = s.snd_max /\ u.snd_nxt = s.snd_nxt
    BY <2>1, FieldNames, Zenon DEF Kept
  <2>3. Typed(u)
    BY <2>2, Zenon DEF SocketInv, Typed, Kept
  <2>4. Windowed(u) /\ OnFlow(u)
    BY <2>1, <2>2, Zenon DEF SocketInv, Windowed, InFlight, Joined, OnFlow, Kept
  <2>5. s.state \in OutputStates /\ ~s.fin_seq_set /\ (s.timer_armed \/ s.snd_nxt = s.snd_una)
    BY Zenon DEF SocketInv, Attended, OutputStates
  <2>6. Steady(u) /\ Ready(u) /\ u.state \in OutputStates
    BY <2>2, <2>3, <2>4, <2>5, Zenon DEF Steady, Ready
  <2>7. /\ Steady(o.s) /\ Kept(u, o.s) /\ o.s.state \in OutputStates
        /\ o.s.timer_armed \/ Idle(o.s)
        /\ \A m \in o.out : SegmentType(m)
    BY <2>6, OutputKeeps, Zenon
  <2> HIDE DEF o
  <2>8. Kept(s, o.s)
    BY <2>2, <2>7, Zenon DEF Kept
  <2>9. Moves(s, o.s)
    BY <2>7, <2>8, Zenon DEF Moves, Connected
  <2> QED
    BY <2>1, <2>7, <2>9, MovesEvolve, Zenon DEF o
<1> SUFFICES ASSUME SlotSets,
                    TcpInv, NEW p, NEW i \in Slot, NEW n \in Nat, Send(p, i, n)
             PROVE  TcpInv'
  BY Zenon
<1> DEFINE s == sockets[i]
           take == Least(n, Buffer - Len(s.tx))
           from == sent[Outgoing(i)]
           more == [k \in 1 .. take |-> from + k]
           u == [s EXCEPT !.tx = s.tx \o more]
<1>1. PICK cwnd \in Mss .. Buffer :
        /\ s.state \in {"ESTABLISHED", "CLOSE_WAIT"} /\ take > 0
        /\ sent' = [sent EXCEPT ![Outgoing(i)] = from + take]
        /\ sockets' = [sockets EXCEPT ![i] = Output(u, cwnd).s]
        /\ Transmit(network, Output(u, cwnd).out, 0)
        /\ isn' = isn
  BY Zenon DEF Send
<1> DEFINE o == Output(u, cwnd)
<1>2. /\ SocketInv(s) /\ isn \in Nat /\ sent \in [Flow -> Nat]
      /\ s.state \notin {"CLOSED", "LISTEN", "SYN_RECEIVED"}
  BY <1>1, InvGives, Zenon
<1>3. s.tx \in Seq(Nat) /\ Len(s.tx) <= Buffer /\ Outgoing(i) \in Flow
  BY <1>2, Zenon DEF SocketInv, Typed, Placed, Outgoing
<1>4. from \in Nat
  BY <1>2, <1>3, Zenon
<1>5. take \in 0 .. Buffer - Len(s.tx)
  <2> DEFINE room == Buffer - Len(s.tx)
  <2>1. room \in Nat
    BY <1>3, Halves
  <2>2. take > 0 /\ take = Least(n, room)
    BY <1>1, Zenon
  <2>3. n \in Nat
    OBVIOUS
  <2> HIDE DEF room, take
  <2>4. take \in 0 .. room
    BY <2>1, <2>2, <2>3 DEF Least
  <2> QED
    BY <2>4, Zenon DEF room
<1> HIDE DEF s, take, from
<1>6. more \in Seq(Nat) /\ Len(more) = take
  BY <1>4, <1>5, <1>3, Halves
<1> HIDE DEF more
<1>7. s.tx \o more \in Seq(Nat) /\ Len(s.tx \o more) <= Buffer
  <2>1. /\ s.tx \o more \in Seq(Nat) /\ Len(s.tx \o more) = Len(s.tx) + take
        /\ Len(s.tx) \in Nat
    BY <1>3, <1>6, Concatenated, Zenon
  <2>2. Len(s.tx) + take <= Buffer
    BY <1>5, <2>1, Halves
  <2> QED
    BY <2>1, <2>2, Zenon
<1>8. Evolves(s, o.s) /\ \A m \in o.out : SegmentType(m)
  BY <1>1, <1>2, <1>7, <1>SendEvolves, Zenon
<1>9. \A m \in network' : SegmentType(m)
  BY <1>1, <1>8, InvGives, Transmitted, Zenon
<1>10. sent' \in [Flow -> Nat]
  <2>1. from + take \in Nat
    BY <1>3, <1>4, <1>5, Halves
  <2> QED
    BY <1>1, <1>2, <1>3, <2>1, Zenon
<1>11. RestInv'
  BY <1>1, <1>2, <1>9, <1>10, Zenon DEF RestInv
<1>12. sockets' = [sockets EXCEPT ![i] = o.s]
  BY <1>1, Zenon
<1> HIDE DEF o
<1>13. SocketInv(o.s) /\ Calm(s, o.s)
  BY <1>2, <1>8, EvolvesCalm, Zenon
<1> QED
  BY <1>11, <1>12, <1>13, StepKeeps, Zenon DEF s

(* tcp_receive. *)
LEMMA ReceiveStep ==
  \A p, i, n :
      /\ SlotSets
      /\ TcpInv
      /\ i \in Slot
      /\ n \in Nat
      /\ Receive(p, i, n)
    => TcpInv'
(* tcp_receive takes bytes out of the ring. *)
<1>ReceiveMoves. ASSUME NEW s, SocketInv(s), s.state # "LISTEN", NEW rx \in Seq(Nat), Len(rx) <= Buffer,
                        NEW t, t = [s EXCEPT !.rx = rx]
                 PROVE  SocketInv(t) /\ Calm(s, t) /\ (s.state # "CLOSED" => SegmentType(AckOf(t)))
  <2> USE <1>ReceiveMoves
  <2>1. DOMAIN s = Fields
    BY Zenon DEF SocketInv, Typed
  <2>2. /\ DOMAIN t = Fields /\ t.rx = rx
        /\ \A f \in Fields \ {"rx", "retries"} : t[f] = s[f]
    BY <2>1, FieldNames, Zenon
  <2>3. SocketInv(t) /\ Kept(s, t) /\ t.state = s.state
    BY <2>2, Untouched, ZenonT(60)
  <2>4. Calm(s, t)
    BY <2>3, Zenon DEF Calm, Kept, Through, Handshake
  <2>5. ASSUME s.state # "CLOSED" PROVE SegmentType(AckOf(t))
    <3>1. Typed(t) /\ OnFlow(t)
      BY <2>3, <2>5, Zenon DEF SocketInv, Placed, OnFlow
    <3> QED
      BY <3>1, AckTyped, Zenon
  <2> QED
    BY <2>3, <2>4, <2>5, Zenon
<1> SUFFICES ASSUME SlotSets,
                    TcpInv, NEW p, NEW i \in Slot, NEW n \in Nat, Receive(p, i, n)
             PROVE  TcpInv'
  BY Zenon
<1> DEFINE s == sockets[i]
           take == Least(n, Len(s.rx))
           rx == SubSeq(s.rx, take + 1, Len(s.rx))
           t == [s EXCEPT !.rx = rx]
           out == IF /\ s.state \notin {"CLOSED", "TIME_WAIT"}
                     /\ ReceiveWindow(s) < Mss \/ take >= 2 * Mss
                  THEN {AckOf(t)} ELSE {}
<1>1. /\ s.state # "LISTEN" /\ sockets' = [sockets EXCEPT ![i] = t]
      /\ Transmit(network, out, 0) /\ isn' = isn /\ sent' = sent
  BY Zenon DEF Receive
<1>2. SocketInv(s) /\ s.rx \in Seq(Nat) /\ Len(s.rx) <= Buffer
  BY InvGives, Zenon DEF SocketInv, Typed
<1> HIDE DEF s
<1>3. take \in 0 .. Len(s.rx)
  BY <1>2 DEF Least
<1> HIDE DEF take
<1>4. rx \in Seq(Nat) /\ Len(rx) <= Buffer
  <2>1. \A k \in take + 1 .. Len(s.rx) : s.rx[k] \in Nat
    BY <1>2, <1>3
  <2> QED
    BY <1>2, <1>3, <2>1, Halves
<1> HIDE DEF rx
<1>5. SocketInv(t) /\ Calm(s, t) /\ (s.state # "CLOSED" => SegmentType(AckOf(t)))
  BY <1>1, <1>2, <1>4, <1>ReceiveMoves, Zenon
<1> HIDE DEF t
<1>6. \A m \in out : SegmentType(m)
  BY <1>5, Zenon
<1> HIDE DEF out
<1>7. \A m \in network' : SegmentType(m)
  BY <1>1, <1>6, InvGives, Transmitted, Zenon
<1>8. RestInv'
  BY <1>1, <1>7, InvGives, Zenon DEF RestInv
<1> QED
  BY <1>1, <1>5, <1>8, StepKeeps, Zenon DEF s

(* tcp_receive, at the end of the stream. *)
LEMMA ReceiveEndStep ==
  ASSUME TcpInv, NEW p, NEW i \in Slot, ReceiveEnd(p, i)
  PROVE  TcpInv'
<1>1. sockets' = sockets /\ isn' = isn /\ sent' = sent /\ network' = network
  BY Zenon DEF ReceiveEnd
<1> QED
  BY <1>1, InvGives, SilentKeeps, Zenon

(* The resets of abort_children, tcp_abort and tcp_release_owner go to     *)
(* peers.                                                                  *)
LEMMA ResetsTyped ==
  ASSUME TcpInv, NEW gone, gone \subseteq Slot, NEW quiet, "CLOSED" \in quiet, "LISTEN" \in quiet
  PROVE  \A m \in ResetsFor(gone, quiet) : SegmentType(m)
<1>1. ASSUME NEW i \in Slot, sockets[i].state \notin quiet
      PROVE  SegmentType(ResetSegment(sockets[i].local_port, sockets[i].remote_port,
                                      sockets[i].snd_nxt, 0, {"RST"}))
  <2>1. SocketInv(sockets[i]) /\ sockets[i].state \notin {"CLOSED", "LISTEN"}
    BY <1>1, InvGives, Zenon
  <2>2. <<sockets[i].local_port, sockets[i].remote_port>> \in Flow /\ sockets[i].snd_nxt \in SeqNo
    BY <2>1, Zenon DEF SocketInv, Placed, Typed
  <2> QED
    BY <2>2, Halves, ResetTyped, Zenon
<1> QED
  BY <1>1, Zenon DEF ResetsFor

(* A step that releases sockets, with their children. *)
LEMMA ReleaseStep ==
  ASSUME SlotSets,
         TcpInv, NEW gone, sockets' = Released(gone),
         \A j \in Slot : sockets[j].parent # NoParent => (j \in gone <=> sockets[j].parent \in gone),
         isn' = isn, sent' = sent, \A m \in network' : SegmentType(m)
  PROVE  TcpInv'
<1> DEFINE U == Released(gone)
<1>1. DOMAIN U = Slot /\ sockets' = U
  BY Zenon DEF Released
<1>5. /\ \A j \in Slot : j \in gone => U[j] = Free
      /\ \A j \in Slot : j \notin gone => U[j] = sockets[j]
  BY Zenon DEF Released
<1> HIDE DEF U
<1>2. TableInv(sockets)
  BY InvGives, Zenon
<1>3. TableInv(U)
  BY <1>1, <1>2, <1>5, ReleasedKeeps, Zenon
<1>4. RestInv'
  BY InvGives, Zenon DEF RestInv
<1> QED
  BY <1>1, <1>3, <1>4, Zenon DEF TcpInv

(* tcp_close of a listening socket. *)
LEMMA CloseListenerStep ==
  ASSUME SlotSets,
         TcpInv, NEW i \in Slot, CloseListener(i)
  PROVE  TcpInv'
<1> DEFINE gone == {i} \cup Children(i)
           out == ResetsFor(Children(i), {"CLOSED", "LISTEN"})
<1>1. /\ sockets[i].state = "LISTEN" /\ sockets[i].parent = NoParent
      /\ sockets' = Released(gone) /\ Transmit(network, out, 0) /\ isn' = isn /\ sent' = sent
  BY Zenon DEF CloseListener, Holds, flowVars
<1>2. \A m \in out : SegmentType(m)
  <2>1. Children(i) \subseteq Slot
    BY Zenon DEF Children
  <2> QED
    BY <2>1, ResetsTyped, Zenon
<1> HIDE DEF out
<1>3. \A m \in network' : SegmentType(m)
  BY <1>1, <1>2, InvGives, Transmitted, Zenon
<1>4. ASSUME NEW j \in Slot, sockets[j].parent # NoParent
      PROVE  j \in gone <=> sockets[j].parent \in gone
  <2> DEFINE l == sockets[j].parent
  <2>1. /\ l \in Slot /\ sockets[l].state = "LISTEN" /\ sockets[j].used /\ j # i
    BY <1>1, <1>4, InvGives, ParentListens, Zenon
  <2>2. sockets[l].parent = NoParent
    BY <2>1, InvGives, Zenon DEF SocketInv, Placed
  <2>3. i # NoParent
    BY NoSlotIsNoParent, Zenon
  <2>4. j \in gone <=> l = i
    BY <2>1, Zenon DEF Children
  <2>5. l \in gone <=> l = i
    BY <2>2, <2>3, Zenon DEF Children
  <2> QED
    BY <2>4, <2>5, Zenon
<1> HIDE DEF gone
<1> QED
  BY <1>1, <1>3, <1>4, ReleaseStep, Zenon

(* tcp_release_owner. *)
LEMMA OwnerStep ==
  ASSUME SlotSets,
         TcpInv, NEW p, ReleaseOwner(p)
  PROVE  TcpInv'
<1> DEFINE gone == {i \in Slot : sockets[i].used /\ sockets[i].owner = p}
           out == ResetsFor(gone, QuietStates)
<1>1. sockets' = Released(gone) /\ Transmit(network, out, 1) /\ isn' = isn /\ sent' = sent
  BY Zenon DEF ReleaseOwner, flowVars
<1>2. \A m \in out : SegmentType(m)
  <2>1. gone \subseteq Slot /\ "CLOSED" \in QuietStates /\ "LISTEN" \in QuietStates
    BY Zenon DEF QuietStates
  <2> QED
    BY <2>1, ResetsTyped, Zenon
<1> HIDE DEF out
<1>3. \A m \in network' : SegmentType(m)
  BY <1>1, <1>2, InvGives, Transmitted, Zenon
<1>4. ASSUME NEW j \in Slot, sockets[j].parent # NoParent
      PROVE  j \in gone <=> sockets[j].parent \in gone
  <2> DEFINE l == sockets[j].parent
  <2>1. /\ l \in Slot /\ sockets[l].state = "LISTEN" /\ sockets[j].used
        /\ sockets[l].owner = sockets[j].owner
    <3>1. TableInv(sockets)
      BY InvGives, Zenon
    <3>2. /\ sockets[j].parent \in Slot /\ sockets[sockets[j].parent].state = "LISTEN"
          /\ sockets[sockets[j].parent].owner = sockets[j].owner /\ sockets[j].used
      BY <1>4, <3>1, ParentListens, Zenon
    <3> QED
      BY <3>2, Zenon
  <2> HIDE DEF l
  <2>2. sockets[l].used
    <3>1. SocketInv(sockets[l])
      BY <2>1, InvGives, Zenon
    <3> QED
      BY <2>1, <3>1, Zenon DEF SocketInv, Placed, Typed
  <2>3. j \in gone <=> sockets[j].owner = p
    BY <2>1, Zenon
  <2>4. l \in gone <=> sockets[l].owner = p
    BY <2>1, <2>2, Zenon
  <2> QED
    BY <2>1, <2>3, <2>4, Zenon DEF l
<1> HIDE DEF gone
<1> QED
  BY <1>1, <1>3, <1>4, ReleaseStep, Zenon

(* tcp_close of a socket without a connection, and tcp_abort.              *)
LEMMA UnconnectedStep ==
  \A p, i :
      /\ SlotSets
      /\ TcpInv
      /\ i \in Slot
      /\ CloseUnconnected(p, i) \/ Abort(p, i)
    => TcpInv'
(* A socket that is nobody's child, and does not listen, has none either. *)
<1>SingleKeeps. ASSUME SlotSets,
                       NEW T, TableInv(T), NEW i \in Slot, T[i].parent = NoParent, T[i].state # "LISTEN",
                       NEW U, DOMAIN U = Slot, U[i] = Free, \A j \in Slot : j # i => U[j] = T[j]
                PROVE  TableInv(U)
  <2> USE <1>SingleKeeps
  <2> DEFINE gone == {i}
  <2>1. ASSUME NEW j \in Slot, T[j].parent # NoParent PROVE j # i /\ T[j].parent # i
    <3>1. T[T[j].parent].state = "LISTEN"
      BY <2>1, ParentListens, ZenonT(60)
    <3> QED
      BY <2>1, <3>1, Zenon
  <2>2. /\ \A j \in Slot : T[j].parent # NoParent => (j \in gone <=> T[j].parent \in gone)
        /\ \A j \in Slot : j \in gone => U[j] = Free
        /\ \A j \in Slot : j \notin gone => U[j] = T[j]
    BY <2>1, Zenon
  <2> HIDE DEF gone
  <2> QED
    BY <2>2, ReleasedKeeps, Zenon
(* A step that releases one socket, which neither listens nor is a child.  *)
<1>SingleStep. ASSUME SlotSets,
                      TcpInv, NEW i \in Slot, sockets' = Released({i}), sockets[i].parent = NoParent,
                      sockets[i].state # "LISTEN", isn' = isn, sent' = sent, \A m \in network' : SegmentType(m)
               PROVE  TcpInv'
  <2> USE <1>SingleStep
  <2> DEFINE U == sockets'
  <2>1. DOMAIN U = Slot /\ U[i] = Free /\ \A j \in Slot : j # i => U[j] = sockets[j]
    BY Zenon DEF Released
  <2>2. TableInv(sockets)
    BY InvGives, Zenon
  <2>3. TableInv(U)
    BY <2>1, <2>2, <1>SingleKeeps, ZenonT(60)
  <2>4. RestInv'
    BY InvGives, Zenon DEF RestInv
  <2> QED
    BY <2>3, <2>4, Zenon DEF TcpInv
<1> SUFFICES ASSUME SlotSets,
                    TcpInv, NEW p, NEW i \in Slot, CloseUnconnected(p, i) \/ Abort(p, i)
             PROVE  TcpInv'
  BY Zenon
<1>1. CASE CloseUnconnected(p, i)
  <2>1. /\ sockets[i].parent = NoParent /\ sockets[i].state # "LISTEN" /\ sockets' = Released({i})
        /\ network' = network /\ isn' = isn /\ sent' = sent
    BY <1>1, Zenon DEF CloseUnconnected, Holds, flowVars
  <2> QED
    BY <2>1, InvGives, <1>SingleStep, Zenon
<1>2. CASE Abort(p, i)
  <2> DEFINE out == ResetsFor({i}, QuietStates)
  <2>1. "CLOSED" \in QuietStates /\ "LISTEN" \in QuietStates
    BY Zenon DEF QuietStates
  <2>2. /\ sockets[i].parent = NoParent /\ sockets[i].state # "LISTEN" /\ sockets' = Released({i})
        /\ Transmit(network, out, 1) /\ isn' = isn /\ sent' = sent
    BY <1>2, <2>1, Zenon DEF Abort, Holds, flowVars
  <2>3. \A m \in out : SegmentType(m)
    BY <2>1, ResetsTyped, Zenon
  <2> HIDE DEF out
  <2>4. \A m \in network' : SegmentType(m)
    BY <2>2, <2>3, InvGives, Transmitted, Zenon
  <2> QED
    BY <2>2, <2>4, <1>SingleStep, Zenon
<1> QED
  BY <1>1, <1>2, Zenon

(* tcp_close of a connection. *)
LEMMA CloseStep ==
  \A p, i :
      /\ SlotSets
      /\ TcpInv
      /\ i \in Slot
      /\ CloseConnected(p, i)
    => TcpInv'
(* tcp_close of a connection queues the FIN and calls tcp_output. *)
<1>CloseMoves. ASSUME NEW s, SocketInv(s), s.state \in {"SYN_RECEIVED", "ESTABLISHED", "CLOSE_WAIT"},
                      s.parent = NoParent, NEW cwnd \in Mss .. Buffer,
                      NEW u, u = [s EXCEPT !.app_closed = TRUE, !.fin_queued = TRUE]
               PROVE  LET o == Output(u, cwnd)
                      IN SocketInv(o.s) /\ Calm(s, o.s) /\ \A m \in o.out : SegmentType(m)
  <2> USE <1>CloseMoves
  <2> DEFINE o == Output(u, cwnd)
  <2>1. Joined(s) /\ DOMAIN s = Fields
    BY SocketJoined, Zenon DEF SocketInv, Typed
  <2>2. /\ DOMAIN u = Fields /\ u.app_closed = TRUE /\ u.fin_queued = TRUE /\ u.used = s.used
        /\ u.owner = s.owner /\ u.parent = s.parent /\ u.accept_queue = s.accept_queue
        /\ u.local_port = s.local_port /\ u.remote_port = s.remote_port
        /\ u.state = s.state /\ u.tx = s.tx /\ u.rx = s.rx /\ u.rcv_nxt = s.rcv_nxt
        /\ u.snd_una = s.snd_una /\ u.iss = s.iss /\ u.snd_wnd = s.snd_wnd
        /\ u.fin_seq = s.fin_seq /\ u.fin_seq_set = s.fin_seq_set
        /\ u.timer_armed = s.timer_armed /\ u.snd_max = s.snd_max /\ u.snd_nxt = s.snd_nxt
    BY <2>1, FieldNames, Zenon
  <2>3. Typed(u)
    BY <2>2, Zenon DEF SocketInv, Typed
  <2>4. Windowed(u) /\ OnFlow(u) /\ Joined(u)
    BY <2>1, <2>2, Zenon DEF SocketInv, Windowed, InFlight, Joined, OnFlow
  <2>5. CASE s.state = "SYN_RECEIVED"
    <3>1. o.s = u /\ o.out = {}
      BY <2>2, <2>5, Zenon DEF Output, Result, OutputStates
    <3>2. Shaking(s)
      BY <2>5, Zenon DEF SocketInv, Attended, Handshake
    <3>3. Attended(u)
      BY <2>2, <2>4, <2>5, <3>2, ZenonT(60) DEF Attended, Shaking, Handshake, OutputStates, Joined
    <3>4. Placed(u)
      BY <2>2, <2>4, <2>5, Zenon DEF Placed, Joined, OnFlow
    <3>5. SocketInv(u)
      BY <2>3, <2>4, <3>3, <3>4, Zenon DEF SocketInv
    <3>6. Calm(s, u)
      BY <2>2, <2>5, Zenon DEF Calm
    <3> HIDE DEF o
    <3> QED
      BY <3>1, <3>5, <3>6, Zenon DEF o
  <2>6. CASE s.state \in {"ESTABLISHED", "CLOSE_WAIT"}
    <3>1. s.state \in OutputStates /\ ~s.fin_seq_set /\ (s.timer_armed \/ s.snd_nxt = s.snd_una)
      BY <2>6, Zenon DEF SocketInv, Attended, OutputStates
    <3>2. Steady(u) /\ Ready(u) /\ u.state \in OutputStates
      BY <2>2, <2>3, <2>4, <3>1, Zenon DEF Steady, Ready
    <3>3. /\ Steady(o.s) /\ Kept(u, o.s) /\ o.s.state \in OutputStates
          /\ o.s.timer_armed \/ Idle(o.s)
          /\ \A m \in o.out : SegmentType(m)
      BY <3>2, OutputKeeps, Zenon
    <3> HIDE DEF o
    <3>4. Moves(u, o.s)
      BY <3>3, Zenon DEF Moves, Connected
    <3>5. SocketInv(o.s)
      BY <2>4, <3>4, MovesEvolve, Zenon DEF Evolves
    <3>6. o.s.parent = NoParent /\ o.s.state # "LISTEN" /\ s.state # "LISTEN"
      BY <2>2, <2>6, <3>3, Zenon DEF Kept, OutputStates
    <3>7. Calm(s, o.s)
      BY <3>6, Zenon DEF Calm
    <3> QED
      BY <3>3, <3>5, <3>7, Zenon DEF o
  <2> QED
    BY <2>5, <2>6, Zenon
<1> SUFFICES ASSUME SlotSets,
                    TcpInv, NEW p, NEW i \in Slot, CloseConnected(p, i)
             PROVE  TcpInv'
  BY Zenon
<1> DEFINE s == sockets[i]
           u == [s EXCEPT !.app_closed = TRUE, !.fin_queued = TRUE]
<1>1. PICK cwnd \in Mss .. Buffer :
        /\ s.parent = NoParent /\ s.state \in {"SYN_RECEIVED", "ESTABLISHED", "CLOSE_WAIT"}
        /\ sockets' = [sockets EXCEPT ![i] = Output(u, cwnd).s]
        /\ Transmit(network, Output(u, cwnd).out, 0)
        /\ isn' = isn /\ sent' = sent
  BY Zenon DEF CloseConnected, Holds
<1> DEFINE o == Output(u, cwnd)
<1>2. SocketInv(s)
  BY InvGives, Zenon
<1>3. SocketInv(o.s) /\ Calm(s, o.s) /\ \A m \in o.out : SegmentType(m)
  BY <1>1, <1>2, <1>CloseMoves, Zenon
<1>4. sockets' = [sockets EXCEPT ![i] = o.s] /\ Transmit(network, o.out, 0)
  BY <1>1, Zenon
<1> HIDE DEF o
<1>5. \A m \in network' : SegmentType(m)
  BY <1>3, <1>4, InvGives, Transmitted, Zenon
<1>6. RestInv'
  BY <1>1, <1>5, InvGives, Zenon DEF RestInv
<1> QED
  BY <1>3, <1>4, <1>6, StepKeeps, Zenon

-----------------------------------------------------------------------------
(* The theorems.                                                           *)

(* The table is right when the system starts. *)
LEMMA TcpInitially ==
  ASSUME Init
  PROVE  TcpInv
<1>1. /\ sockets = [i \in Slot |-> Free] /\ network = {} /\ isn = 0
      /\ sent = [f \in Flow |-> 0]
  BY Zenon DEF Init, Stream!StreamInit
<1>2. DOMAIN sockets = Slot /\ \A i \in Slot : sockets[i] = Free
  BY <1>1, Zenon
<1>3. Free.parent = NoParent /\ Free.state = "CLOSED"
  BY Zenon DEF Free
<1>4. TableInv(sockets)
  BY <1>2, <1>3, FreeIsFine, Zenon DEF TableInv, Family
<1>5. isn \in Nat /\ sent \in [Flow -> Nat]
  BY <1>1, Zenon
<1>6. RestInv
  BY <1>1, <1>5, Zenon DEF RestInv
<1> QED
  BY <1>4, <1>6, Zenon DEF TcpInv

(* Every step keeps it right. *)
LEMMA TcpStep ==
  ASSUME SlotSets,
         TcpInv, [Next]_vars
  PROVE  TcpInv'
<1>1. CASE UNCHANGED vars
  <2>1. sockets' = sockets /\ isn' = isn /\ sent' = sent /\ network' = network
    BY <1>1, Zenon DEF vars, flowVars
  <2> QED
    BY <2>1, InvGives, SilentKeeps, Zenon
<1>2. CASE Deliver
  BY <1>2, DeliverStep, Zenon
<1>3. ASSUME NEW i \in Slot, Timeout(i) \/ ArpTimeout(i) \/ WaitOver(i)
      PROVE  TcpInv'
  BY <1>3, TimeoutStep, ArpStep, WaitStep, Zenon
<1>4. ASSUME NEW i \in Slot, Listen(i) \/ Connect(i) \/ Accept(i) \/ CloseListener(i)
      PROVE  TcpInv'
  BY <1>4, ListenStep, ConnectStep, AcceptStep, CloseListenerStep, Zenon
<1>5. ASSUME NEW p \in Process, Socket(p) \/ ReleaseOwner(p)
      PROVE  TcpInv'
  BY <1>5, SocketStart, OwnerStep, Zenon
<1>6. ASSUME NEW p \in Process, NEW i \in Slot,
             \/ ReceiveEnd(p, i) \/ CloseUnconnected(p, i) \/ CloseConnected(p, i)
             \/ Abort(p, i)
      PROVE  TcpInv'
  BY <1>6, ReceiveEndStep, UnconnectedStep, CloseStep, Zenon
<1>7. ASSUME NEW p \in Process, NEW i \in Slot, NEW n \in 1 .. MaxCount,
             Send(p, i, n) \/ Receive(p, i, n)
      PROVE  TcpInv'
  <2>1. n \in Nat
    BY TcpAssumption
  <2> QED
    BY <1>7, <2>1, SendStep, ReceiveStep, Zenon
<1> QED
  BY <1>1, <1>2, <1>3, <1>4, <1>5, <1>6, <1>7, Zenon DEF Next

INSTANCE FiniteSetTheorems

(* The slots are finitely many numbers. *)
LEMMA SlotsCount == SlotSets
<1>1. IsFiniteSet(Slot) /\ Slot \subseteq Nat
  BY TcpAssumption, Zenon
<1>2. \A S \in SUBSET Slot : IsFiniteSet(S)
  BY <1>1, FS_Subset, Zenon
<1>3. \A S \in SUBSET Slot : Cardinality(S) \in Nat
  BY <1>2, FS_CardinalityType, Zenon
<1>4. \A S \in SUBSET Slot : \A P \in SUBSET S : Cardinality(P) <= Cardinality(S)
  BY <1>2, FS_Subset, Zenon
<1>5. \A S \in SUBSET Slot : \A x \in S : Cardinality(S \ {x}) = Cardinality(S) - 1
  BY <1>2, FS_RemoveElement, Zenon
<1>6. \A S \in SUBSET Slot : \A x \in Slot \ S : Cardinality(S \cup {x}) = Cardinality(S) + 1
  BY <1>2, FS_AddElement, Zenon
<1>7. ASSUME NEW S \in SUBSET Slot, S # {} PROVE \E x \in S : \A y \in S : x <= y
  <2>1. S \in SUBSET Nat
    BY <1>1, Zenon
  <2>2. \E x \in S : \A y \in S : ~(<<y, x>> \in OpToRel(<, Nat))
    BY <1>7, <2>1, NatLessThanWellFounded, WFMin, ZenonT(60)
  <2>3. ASSUME NEW x \in Nat, NEW y \in Nat, ~(<<y, x>> \in OpToRel(<, Nat))
        PROVE  x <= y
    BY <2>3 DEF OpToRel
  <2> QED
    BY <2>1, <2>2, <2>3, ZenonT(60)
<1>8. Cardinality({}) = 0
  BY FS_EmptySet, Zenon
<1> QED
  BY <1>3, <1>4, <1>5, <1>6, <1>7, <1>8, ZenonT(60) DEF SlotSets

(* Whatever the network loses, duplicates, delays and reorders, and        *)
(* whatever the processes call: tcp.c keeps snd_nxt between snd_una and    *)
(* snd_max, fills no ring past its size, runs a timer for what it waits    *)
(* for, and keeps the accept queues in step with the table.                *)
THEOREM TcpInvariant == Spec => []TcpInv
<1>1. Init => TcpInv
  BY TcpInitially, Zenon
<1>2. TcpInv /\ [Next]_vars => TcpInv'
  BY SlotsCount, TcpStep, Zenon
<1> QED
  BY <1>1, <1>2, PTL DEF Spec

(* No socket waits for its peer without a timer, for every number of       *)
(* slots, every buffer and segment size, and sequence numbers that wrap.   *)
THEOREM NeverStalls == Spec => []NoStall
<1>1. ASSUME TcpInv PROVE NoStall
  <2> SUFFICES ASSUME NEW i \in Slot, sockets[i].used
               PROVE  LET s == sockets[i]
                      IN /\ Handshake(s) => s.timer_armed
                         /\ s.state \in OutputStates /\ (s.tx # <<>> \/ s.fin_queued) => s.timer_armed
                         /\ s.app_closed => s.timer_armed \/ s.state \in {"TIME_WAIT", "FIN_WAIT_2"}
    BY Zenon DEF NoStall
  <2> DEFINE s == sockets[i]
  <2>1. Typed(s) /\ Attended(s)
    BY <1>1, InvGives, Zenon DEF SocketInv
  <2> HIDE DEF s
  <2>2. Handshake(s) => s.timer_armed
    BY <2>1, Zenon DEF Attended, Shaking
  <2>3. s.state \in OutputStates /\ (s.tx # <<>> \/ s.fin_queued) => s.timer_armed
    BY <2>1, Zenon DEF Attended
  <2>4. ASSUME s.app_closed, ~s.timer_armed PROVE s.state \in {"TIME_WAIT", "FIN_WAIT_2"}
    <3>1. s.fin_queued /\ s.state \in State /\ s.state \notin {"CLOSED", "LISTEN", "SYN_SENT"}
      BY <2>1, <2>4, Zenon DEF Attended, Typed
    <3>2. ~Handshake(s) /\ s.state \notin OutputStates
      BY <2>2, <2>3, <2>4, <3>1, ZenonT(60)
    <3> QED
      BY <3>1, <3>2, Zenon DEF Handshake, OutputStates, State
  <2> QED
    BY <2>2, <2>3, <2>4, Zenon DEF s
<1> QED
  BY <1>1, TcpInvariant, PTL

(* The indices of a sequence of length n are n. *)
LEMMA IntervalCounts ==
  ASSUME NEW n \in Nat
  PROVE  IsFiniteSet(1 .. n) /\ Cardinality(1 .. n) = n
<1>1. 1 \in Int /\ n \in Int
  OBVIOUS
<1>2. IsFiniteSet(1 .. n) /\ Cardinality(1 .. n) = IF 1 > n THEN 0 ELSE n - 1 + 1
  BY <1>1, FS_Interval, Zenon
<1> QED
  BY <1>2

(* A queue without duplicates is as long as it has members. *)
LEMMA QueueCounts ==
  ASSUME NEW q \in Seq(Slot), \A j, k \in 1 .. Len(q) : q[j] = q[k] => j = k
  PROVE  Len(q) = Cardinality({q[k] : k \in DOMAIN q})
<1> DEFINE queued == {q[k] : k \in 1 .. Len(q)}
<1>1. Len(q) \in Nat /\ DOMAIN q = 1 .. Len(q) /\ q = [k \in 1 .. Len(q) |-> q[k]]
  OBVIOUS
<1>2. q \in [1 .. Len(q) -> queued] /\ \A t \in queued : \E k \in 1 .. Len(q) : q[k] = t
  BY <1>1, Zenon
<1>3. q \in Injection(1 .. Len(q), queued) /\ q \in Surjection(1 .. Len(q), queued)
  <2>1. IsInjective(q)
    BY <1>1, Zenon DEF IsInjective
  <2>2. q \in Injection(1 .. Len(q), queued)
    BY <1>2, <2>1, Zenon DEF Injection
  <2>3. q \in Surjection(1 .. Len(q), queued)
    BY <1>2, Zenon DEF Surjection
  <2> QED
    BY <2>2, <2>3, Zenon
<1>4. IsFiniteSet(1 .. Len(q)) /\ Cardinality(1 .. Len(q)) = Len(q)
  BY <1>1, IntervalCounts, Zenon
<1> HIDE DEF queued
<1>5. Cardinality(queued) = Cardinality(1 .. Len(q))
  BY <1>3, <1>4, FS_Surjection
<1> QED
  BY <1>1, <1>4, <1>5, Zenon DEF queued

(* The queue of a listening socket has the children that are through the   *)
(* handshake, each once, none that tcp_accept has handed out or whose slot *)
(* belongs to somebody else, and stays within the backlog; for every       *)
(* number of slots and every backlog.                                      *)
THEOREM AcceptQueueHolds == Spec => []AcceptQueueRight
<1>1. ASSUME TcpInv PROVE AcceptQueueRight
  <2> SUFFICES ASSUME NEW l \in Slot, sockets[l].state = "LISTEN"
               PROVE  LET q == sockets[l].accept_queue
                          queued == {q[k] : k \in DOMAIN q}
                      IN /\ Len(q) = Cardinality(queued)
                         /\ Len(q) + Cardinality(PendingChildren(l)) <= Backlog
                         /\ queued \subseteq Children(l) \ PendingChildren(l)
                         /\ {i \in Children(l) : ~Handshake(sockets[i]) /\ sockets[i].state # "CLOSED"}
                              \subseteq queued
    BY Zenon DEF AcceptQueueRight
  <2> DEFINE q == sockets[l].accept_queue
             queued == {q[k] : k \in DOMAIN q}
  <2>1. QueueInv(sockets, l, q)
    BY <1>1, InvGives, Zenon DEF TableInv
  <2> HIDE DEF q
  <2>2. /\ q \in Seq(Slot) /\ (\A j, k \in 1 .. Len(q) : q[j] = q[k] => j = k)
        /\ \A k \in 1 .. Len(q) : /\ sockets[q[k]].used /\ sockets[q[k]].parent = l
                                  /\ sockets[q[k]].state # "SYN_RECEIVED"
        /\ \A i \in Slot : sockets[i].used /\ sockets[i].parent = l /\ Through(sockets[i])
                             => \E k \in 1 .. Len(q) : q[k] = i
        /\ Len(q) + Cardinality(Pending(sockets, l)) <= Backlog
    BY <2>1, Zenon DEF QueueInv
  <2>3. DOMAIN q = 1 .. Len(q) /\ \A k \in 1 .. Len(q) : q[k] \in Slot
    BY <2>2
  <2>4. Len(q) = Cardinality(queued)
    BY <2>2, QueueCounts, Zenon
  <2>5. PendingChildren(l) = Pending(sockets, l)
    BY Zenon DEF PendingChildren, Children, Pending
  <2>6. Len(q) + Cardinality(PendingChildren(l)) <= Backlog
    BY <2>2, <2>5, Zenon
  <2>7. queued \subseteq Children(l) \ PendingChildren(l)
    <3> SUFFICES ASSUME NEW k \in DOMAIN q PROVE q[k] \in Children(l) \ PendingChildren(l)
      BY Zenon
    <3>1. /\ q[k] \in Slot /\ sockets[q[k]].used /\ sockets[q[k]].parent = l
          /\ sockets[q[k]].state # "SYN_RECEIVED"
      BY <2>2, <2>3, Zenon
    <3> QED
      BY <3>1, Zenon DEF Children, PendingChildren
  <2>8. {i \in Children(l) : ~Handshake(sockets[i]) /\ sockets[i].state # "CLOSED"} \subseteq queued
    BY <2>2, <2>3, Zenon DEF Children, Through
  <2> QED
    BY <2>4, <2>6, <2>7, <2>8, ZenonT(60) DEF q
<1> QED
  BY <1>1, TcpInvariant, PTL

=============================================================================
