-------------------------------- MODULE Tcp --------------------------------
(***************************************************************************)
(* TCP (net/transport/tcp.c): the socket table, the handling of segments   *)
(* and timeouts, and the calls of two processes that talk to each other    *)
(* through a network that loses, duplicates, delays and reorders segments. *)
(* Both ends are sockets of one table, as on a loopback and in             *)
(* tests/tcp_test.c.  Everything runs under tcp_lock; a call that has to   *)
(* wait drops it and looks again, so that it is one step, taken when it    *)
(* returns.                                                                *)
(*                                                                         *)
(* Sequence numbers have SeqMod values and are compared as the code does,  *)
(* by the sign of their difference.  The two rings are sequences.          *)
(* Abstracted: the clock (a timer that is armed may run out at any time)   *)
(* and with it round-trip times; the congestion window, which is any       *)
(* number from one segment up; the count of duplicate acknowledgements,    *)
(* any of which may start a fast retransmission; whether a timeout finds   *)
(* the segment waiting for ARP; checksums and options.                     *)
(***************************************************************************)
EXTENDS Integers, Sequences, FiniteSets

CONSTANTS
  Slot,        \* indices of the socket table
  Buffer,      \* TCP_BUFFER_SIZE
  Mss,
  Backlog,
  MaxRetries, MaxSynRetries,
  SeqMod,      \* 2^32
  FirstIsn, IsnStep,
  ServerPort,
  ClientPort,  \* the ephemeral ports, 1 .. n
  MaxOpened,   \* bound on the sockets made by the processes
  MaxIsn,      \* bound on the initial sequence numbers that are generated
  MaxNet,      \* bound on the segments under way
  MaxFaults,   \* bound on the faults
  MaxCount,    \* bound on the bytes of one call
  MaxBytes     \* bound on the bytes that each process sends

ASSUME TcpAssumption ==
  /\ Slot \subseteq Nat /\ IsFiniteSet(Slot) /\ Backlog \in Nat
  /\ Buffer \in Nat /\ Mss \in 1 .. Buffer
  /\ SeqMod \in Nat /\ SeqMod % 2 = 0 /\ 2 * Buffer < SeqMod
  /\ FirstIsn \in Nat /\ IsnStep \in Nat
  /\ ServerPort \notin ClientPort \cup {0} /\ 0 \notin ClientPort

Flow == (ClientPort \X {ServerPort}) \cup ({ServerPort} \X ClientPort)

VARIABLES
  sockets,
  network,         \* segments under way
  faults,          \* losses, duplicates, early timeouts, aborts and exits so far
  opened,          \* sockets the processes have made
  next_ephemeral,  \* ephemeral ports given out
  isn,             \* initial sequence numbers generated
  sent, received, closed, ended  \* TcpStream

flowVars == <<sent, received, closed, ended>>
vars == <<sockets, network, faults, opened, next_ephemeral, isn, flowVars>>

Stream == INSTANCE TcpStream

-----------------------------------------------------------------------------
(* Sequence numbers.                                                       *)

Plus(a, n) == (a + n) % SeqMod
Minus(a, b) == (a - b) % SeqMod
SEQ_LT(a, b) == Minus(a, b) >= SeqMod \div 2
SEQ_LEQ(a, b) == a = b \/ SEQ_LT(a, b)
SEQ_GT(a, b) == ~SEQ_LEQ(a, b)

Least(m, n) == IF m < n THEN m ELSE n
Most(m, n) == IF m > n THEN m ELSE n

(* generate_isn, without the clock. *)
GenerateIsn == (FirstIsn + isn * IsnStep) % SeqMod

-----------------------------------------------------------------------------
(* Sockets and segments.                                                   *)

NoParent == -1

(* socket_reset. *)
Free ==
  [used |-> FALSE, app_closed |-> FALSE, owner |-> "none", state |-> "CLOSED",
   error |-> FALSE, local_port |-> 0, remote_port |-> 0,
   parent |-> NoParent, accept_queue |-> <<>>,
   iss |-> 0, snd_una |-> 0, snd_nxt |-> 0, snd_max |-> 0,
   snd_wnd |-> 0, snd_wl1 |-> 0, snd_wl2 |-> 0, irs |-> 0, rcv_nxt |-> 0,
   fin_queued |-> FALSE, fin_seq_set |-> FALSE, fin_seq |-> 0, fin_received |-> FALSE,
   timer_armed |-> FALSE, retries |-> 0, tx |-> <<>>, rx |-> <<>>]

FreeSlots == {i \in Slot : ~sockets[i].used}

(* socket_allocate: the first slot that is not used. *)
FirstFree == CHOOSE i \in FreeSlots : \A j \in FreeSlots : i <= j

(* receive_window. *)
ReceiveWindow(s) == Buffer - Len(s.rx)

(* emit_segment. *)
Segment(s, seq, flags, data) ==
  [src |-> s.local_port, dst |-> s.remote_port, seq |-> seq, flags |-> flags,
   ack |-> IF "ACK" \in flags THEN s.rcv_nxt ELSE 0,
   wnd |-> ReceiveWindow(s), data |-> data]

(* send_reset. *)
ResetSegment(local, remote, seq, ack, flags) ==
  [src |-> local, dst |-> remote, seq |-> seq, flags |-> flags, ack |-> ack,
   wnd |-> 0, data |-> <<>>]

AckOf(s) == Segment(s, s.snd_nxt, {"ACK"}, <<>>)

(* send_syn. *)
SynOf(s) ==
  Segment(s, s.iss, IF s.state = "SYN_RECEIVED" THEN {"SYN", "ACK"} ELSE {"SYN"}, <<>>)

(* What a handler makes of a socket, and what it sends. *)
Result(s, out) == [s |-> s, out |-> out]

(* enter_closed; whether an error is noted. *)
EnterClosed(s, error) ==
  IF s.app_closed
  THEN Free
  ELSE [s EXCEPT !.error = @ \/ error, !.state = "CLOSED", !.timer_armed = FALSE,
                 !.fin_received = TRUE]

StartTimeWait(s) == [s EXCEPT !.state = "TIME_WAIT", !.timer_armed = FALSE]

-----------------------------------------------------------------------------
(* Output.                                                                 *)

OutputStates == {"ESTABLISHED", "CLOSE_WAIT", "FIN_WAIT_1", "CLOSING", "LAST_ACK"}

InFlight(s) == Minus(s.snd_nxt, s.snd_una)

(* unsent_bytes. *)
Unsent(s) == Most(Len(s.tx) - InFlight(s), 0)

(* Mutant: a closed window is not probed. *)
NextLengthNoProbe(s, window) ==
  LET full == Least(Unsent(s), Mss)
      fits == Least(full, window - InFlight(s))
  IN IF InFlight(s) >= window \/ (fits < full /\ InFlight(s) > 0) THEN 0 ELSE fits

(* The length of the next data segment, 0 when none is to be sent: nothing *)
(* short while data is in flight, and one byte to probe a closed window.   *)
NextLength(s, window) ==
  LET full == Least(Unsent(s), Mss)
      fits == Least(full, window - InFlight(s))
  IN IF InFlight(s) >= window
     THEN IF s.snd_wnd = 0 /\ InFlight(s) = 0 THEN Least(full, 1) ELSE 0
     ELSE IF fits < full /\ InFlight(s) > 0 THEN 0 ELSE fits

(* n more sequence numbers have been sent. *)
Sent(s, n) ==
  LET nxt == Plus(s.snd_nxt, n)
  IN [s EXCEPT !.snd_nxt = nxt, !.timer_armed = TRUE,
               !.snd_max = IF SEQ_GT(nxt, @) THEN nxt ELSE @]

(* What the loop sends in all.  It goes on after a segment of Mss only: a  *)
(* shorter one is the rest of the data, fills the window or probes it.     *)
SendLength(s, window) ==
  LET n == NextLength(s, window)
      room == window - InFlight(s)
  IN IF n < Mss \/ room < Mss THEN n
     ELSE IF Unsent(s) <= room THEN Unsent(s) ELSE room - (room % Mss)

(* The loop, whose segments begin at every Mss-th byte of what it sends;   *)
(* MCTcp compares this with a recursive definition.                        *)
SendData(s, window) ==
  LET n == SendLength(s, window)
      data(k) == SubSeq(s.tx, InFlight(s) + k + 1, InFlight(s) + Least(k + Mss, n))
  IN Result(IF n = 0 THEN s ELSE Sent(s, n),
            {Segment(s, Plus(s.snd_nxt, k), {"ACK"}, data(k))
               : k \in {j \in 0 .. n - 1 : j % Mss = 0}})

FinDue(s) ==
  /\ s.fin_queued /\ Unsent(s) = 0
  /\ ~(s.fin_seq_set /\ SEQ_GT(s.snd_nxt, s.fin_seq))

(* The FIN, and the state that comes with it. *)
SendFin(s) ==
  [Sent(s, 1) EXCEPT
     !.fin_seq_set = TRUE,
     !.fin_seq = IF s.fin_seq_set THEN @ ELSE s.snd_nxt,
     !.state = CASE @ = "ESTABLISHED" -> "FIN_WAIT_1"
                 [] @ = "CLOSE_WAIT" -> "LAST_ACK"
                 [] OTHER -> @]

(* tcp_output, with the congestion window of the moment. *)
Output(s, cwnd) ==
  LET data == SendData(s, Least(s.snd_wnd, cwnd))
  IN IF s.state \notin OutputStates
     THEN Result(s, {})
     ELSE IF ~FinDue(data.s)
     THEN data
     ELSE Result(SendFin(data.s),
                 data.out \cup {Segment(data.s, data.s.snd_nxt, {"ACK", "FIN"}, <<>>)})

(* retransmit_head. *)
HeadOf(s) ==
  LET n == Least(Least(Len(s.tx), Mss), InFlight(s))
  IN IF InFlight(s) = 0 THEN {}
     ELSE IF s.tx # <<>> THEN {Segment(s, s.snd_una, {"ACK"}, SubSeq(s.tx, 1, n))}
     ELSE IF s.fin_seq_set THEN {Segment(s, s.fin_seq, {"ACK", "FIN"}, <<>>)}
     ELSE {}

-----------------------------------------------------------------------------
(* A segment that arrives for a socket.                                    *)

(* The outcome of an acknowledgement for the socket's own FIN. *)
FinAcked(s) ==
  CASE s.state = "FIN_WAIT_1" -> [s EXCEPT !.state = "FIN_WAIT_2"]
    [] s.state = "CLOSING" -> StartTimeWait(s)
    [] s.state = "LAST_ACK" -> EnterClosed(s, FALSE)
    [] OTHER -> s

(* An acknowledgement that counts as a duplicate. *)
Duplicate(s, m) ==
  /\ m.ack = s.snd_una /\ m.data = <<>> /\ s.snd_una # s.snd_max /\ m.wnd = s.snd_wnd

(* handle_ack; fast: this duplicate starts a fast retransmission. *)
HandleAck(s, m, fast) ==
  LET new == SEQ_LT(s.snd_una, m.ack) /\ SEQ_LEQ(m.ack, s.snd_max)
      fin == s.fin_seq_set /\ SEQ_GT(m.ack, s.fin_seq)
      n == Least(Minus(m.ack, s.snd_una) - (IF fin THEN 1 ELSE 0), Len(s.tx))
      moved == [s EXCEPT !.tx = SubSeq(@, n + 1, Len(@)),
                         !.snd_una = m.ack,
                         !.snd_nxt = IF SEQ_LT(@, m.ack) THEN m.ack ELSE @,
                         !.retries = 0,
                         !.timer_armed = m.ack # s.snd_max]
      acked == IF ~new THEN s ELSE IF fin THEN FinAcked(moved) ELSE moved
      fresh == \/ SEQ_LT(s.snd_wl1, m.seq)
               \/ s.snd_wl1 = m.seq /\ SEQ_LEQ(s.snd_wl2, m.ack)
  IN Result(IF acked.state # "CLOSED" /\ fresh
            THEN [acked EXCEPT !.snd_wnd = m.wnd, !.snd_wl1 = m.seq, !.snd_wl2 = m.ack]
            ELSE acked,
            IF fast THEN HeadOf(s) ELSE {})

BecomeEstablished(s) ==
  [s EXCEPT !.state = "ESTABLISHED", !.retries = 0, !.timer_armed = FALSE]

InSynSent(s, m, cwnd) ==
  LET bad == "ACK" \in m.flags /\ (SEQ_LEQ(m.ack, s.iss) \/ SEQ_GT(m.ack, s.snd_nxt))
      peer == [s EXCEPT !.irs = m.seq, !.rcv_nxt = Plus(m.seq, 1),
                        !.snd_wnd = m.wnd, !.snd_wl1 = m.seq, !.snd_wl2 = m.ack]
      up == BecomeEstablished([peer EXCEPT !.snd_una = m.ack])
      both == [peer EXCEPT !.state = "SYN_RECEIVED", !.timer_armed = TRUE]
  IN CASE bad -> Result(s, IF "RST" \in m.flags THEN {}
                           ELSE {ResetSegment(s.local_port, s.remote_port, m.ack, 0, {"RST"})})
       [] ~bad /\ "RST" \in m.flags ->
            Result(IF "ACK" \in m.flags THEN EnterClosed(s, TRUE) ELSE s, {})
       [] ~bad /\ "RST" \notin m.flags /\ "SYN" \notin m.flags -> Result(s, {})
       [] OTHER -> IF "ACK" \in m.flags
                   THEN LET o == Output(up, cwnd) IN Result(o.s, o.out \cup {AckOf(up)})
                   ELSE Result(both, {SynOf(both)})

FinLength(m) == IF "FIN" \in m.flags THEN 1 ELSE 0

(* The segment starts at or overlaps rcv_nxt. *)
Acceptable(s, m) ==
  LET length == Len(m.data) + FinLength(m)
      edge == Plus(s.rcv_nxt, Most(ReceiveWindow(s), 1))
  IN IF length = 0
     THEN m.seq = s.rcv_nxt \/ (SEQ_GT(m.seq, s.rcv_nxt) /\ SEQ_LT(m.seq, edge))
     ELSE SEQ_LT(m.seq, edge) /\ SEQ_GT(Plus(m.seq, length), s.rcv_nxt)

ReceiveStates == {"ESTABLISHED", "FIN_WAIT_1", "FIN_WAIT_2"}

(* Mutant: what has been received already is not cut off. *)
TakeDataUntrimmed(s, m) ==
  LET n == Least(Len(m.data), Buffer - Len(s.rx))
  IN IF s.state \in ReceiveStates /\ n > 0 /\ SEQ_LEQ(m.seq, s.rcv_nxt)
     THEN [s EXCEPT !.rx = @ \o SubSeq(m.data, 1, n), !.rcv_nxt = Plus(@, n)]
     ELSE s

(* The data of a segment without what has been received already, as much   *)
(* as there is room for.                                                   *)
TakeData(s, m) ==
  LET old == IF SEQ_LT(m.seq, s.rcv_nxt) THEN Minus(s.rcv_nxt, m.seq) ELSE 0
      n == Least(Len(m.data) - old, Buffer - Len(s.rx))
  IN IF /\ s.state \in ReceiveStates /\ n > 0
        /\ Plus(m.seq, old) = s.rcv_nxt
     THEN [s EXCEPT !.rx = @ \o SubSeq(m.data, old + 1, old + n), !.rcv_nxt = Plus(@, n)]
     ELSE s

HasNewData(s, m) ==
  /\ s.state \in ReceiveStates
  /\ Len(m.data) > IF SEQ_LT(m.seq, s.rcv_nxt) THEN Minus(s.rcv_nxt, m.seq) ELSE 0

FinArrives(s, m) ==
  /\ "FIN" \in m.flags /\ s.state \in ReceiveStates
  /\ Plus(m.seq, Len(m.data)) = s.rcv_nxt

TakeFin(s) ==
  LET t == [s EXCEPT !.rcv_nxt = Plus(@, 1), !.fin_received = TRUE]
  IN CASE s.state = "ESTABLISHED" -> [t EXCEPT !.state = "CLOSE_WAIT"]
       [] s.state = "FIN_WAIT_1" /\ ~(s.fin_seq_set /\ SEQ_GT(s.snd_una, s.fin_seq)) ->
            [t EXCEPT !.state = "CLOSING"]
       [] OTHER -> StartTimeWait(t)

(* The acknowledgement, the data, the FIN, and the answer. *)
InConnection(s, m, cwnd, fast) ==
  LET a == HandleAck(s, m, fast)
      d == TakeData(a.s, m)
      f == IF FinArrives(d, m) THEN TakeFin(d) ELSE d
      o == Output(f, cwnd)
      need_ack == HasNewData(a.s, m) \/ FinArrives(d, m)
  IN IF a.s.state = "CLOSED"
     THEN a
     ELSE Result(o.s, a.out \cup o.out \cup IF need_ack THEN {AckOf(o.s)} ELSE {})

InSynReceived(s, m, cwnd, fast) ==
  LET up == BecomeEstablished([s EXCEPT !.snd_una = m.ack, !.snd_wnd = m.wnd,
                                        !.snd_wl1 = m.seq, !.snd_wl2 = m.ack])
  IN IF SEQ_LT(s.snd_una, m.ack) /\ SEQ_LEQ(m.ack, s.snd_nxt)
     THEN InConnection(up, m, cwnd, fast)
     ELSE Result(s, {ResetSegment(s.local_port, s.remote_port, m.ack, 0, {"RST"})})

(* process_segment. *)
ProcessSegment(s, m, cwnd, fast) ==
  LET is(flag) == flag \in m.flags
      ok == Acceptable(s, m)
  IN CASE s.state = "SYN_SENT" -> InSynSent(s, m, cwnd)
       [] s.state = "TIME_WAIT" ->
            Result(s, IF ~is("RST") /\ (is("FIN") \/ m.data # <<>>) THEN {AckOf(s)} ELSE {})
       [] OTHER ->
            IF is("RST")
            THEN Result(IF m.seq = s.rcv_nxt \/ (ok /\ s.state # "SYN_RECEIVED")
                        THEN EnterClosed(s, TRUE) ELSE s, {})
            ELSE IF ~ok THEN Result(s, {AckOf(s)})
            ELSE IF is("SYN")
            THEN IF s.state = "SYN_RECEIVED" /\ m.seq = s.irs
                 THEN Result(s, {SynOf(s)})
                 ELSE Result(EnterClosed(s, TRUE),
                             {ResetSegment(s.local_port, s.remote_port, s.snd_nxt, 0, {"RST"})})
            ELSE IF ~is("ACK") THEN Result(s, {})
            ELSE IF s.state = "SYN_RECEIVED"
            THEN InSynReceived(s, m, cwnd, fast)
            ELSE InConnection(s, m, cwnd, fast)

-----------------------------------------------------------------------------
(* The table.                                                              *)

Init ==
  /\ sockets = [i \in Slot |-> Free]
  /\ network = {} /\ faults = 0
  /\ opened = 0 /\ next_ephemeral = 0 /\ isn = 0
  /\ Stream!StreamInit

(* The network takes what is sent and loses some of it; cost counts the    *)
(* fault that led here, if any.                                            *)
Transmit(kept, out, cost) ==
  \E lost \in SUBSET out :
    /\ network' = kept \cup (out \ lost)
    /\ Cardinality(network') <= MaxNet
    /\ faults' = faults + cost + Cardinality(lost)
    /\ faults' <= MaxFaults

Children(l) == {i \in Slot : sockets[i].used /\ sockets[i].parent = l}

(* parent_pending_children. *)
PendingChildren(l) == {i \in Children(l) : sockets[i].state = "SYN_RECEIVED"}

(* Mutant: only the connections that wait for tcp_accept count. *)
BacklogFullOfQueued(l) == Len(sockets[l].accept_queue) >= Backlog

(* The listening socket takes no more connections. *)
BacklogFull(l) == Len(sockets[l].accept_queue) + Cardinality(PendingChildren(l)) >= Backlog

(* find_socket: the socket of the connection, else the one that listens. *)
Matching(m) ==
  LET here == {i \in Slot : /\ sockets[i].used /\ sockets[i].state # "CLOSED"
                            /\ sockets[i].local_port = m.dst}
      exact == {i \in here : sockets[i].state # "LISTEN" /\ sockets[i].remote_port = m.src}
  IN IF exact # {} THEN exact ELSE {i \in here : sockets[i].state = "LISTEN"}

(* The part of become_established that concerns the listening socket. *)
Established(i, s) ==
  LET l == sockets[i].parent
      table == [sockets EXCEPT ![i] = s]
  IN IF /\ sockets[i].state = "SYN_RECEIVED" /\ s.state \notin {"SYN_RECEIVED", "CLOSED"}
        /\ l # NoParent /\ sockets[l].state = "LISTEN"
     THEN [table EXCEPT ![l].accept_queue = Append(@, i)]
     ELSE table

(* receive_segment. *)
DeliverToSocket(m, kept, cost) ==
  \E i \in Matching(m), cwnd \in Mss .. Buffer :
  \E fast \in {FALSE, Duplicate(sockets[i], m)} :
    LET r == ProcessSegment(sockets[i], m, cwnd, fast)
    IN /\ sockets[i].state # "LISTEN"
       /\ sockets' = Established(i, r.s)
       /\ Transmit(kept, r.out, cost)
       /\ UNCHANGED <<opened, next_ephemeral, isn, flowVars>>

DeliverToListener(m, kept, cost) ==
  \E l \in Matching(m) :
    /\ sockets[l].state = "LISTEN"
    /\ IF "RST" \in m.flags \/ "ACK" \in m.flags \/ "SYN" \notin m.flags
          \/ BacklogFull(l) \/ FreeSlots = {}
       THEN /\ Transmit(kept, IF "ACK" \in m.flags /\ "RST" \notin m.flags
                              THEN {ResetSegment(m.dst, m.src, m.ack, 0, {"RST"})} ELSE {},
                        cost)
            /\ UNCHANGED <<sockets, isn>>
       ELSE LET child == [Free EXCEPT
                  !.used = TRUE, !.parent = l, !.owner = sockets[l].owner,
                  !.local_port = m.dst, !.remote_port = m.src,
                  !.irs = m.seq, !.rcv_nxt = Plus(m.seq, 1), !.snd_wnd = m.wnd,
                  !.iss = GenerateIsn, !.snd_una = GenerateIsn,
                  !.snd_nxt = Plus(GenerateIsn, 1), !.snd_max = Plus(GenerateIsn, 1),
                  !.snd_wl1 = m.seq, !.state = "SYN_RECEIVED", !.timer_armed = TRUE]
            IN /\ isn < MaxIsn
               /\ isn' = isn + 1
               /\ sockets' = [sockets EXCEPT ![FirstFree] = child]
               /\ Transmit(kept, {SynOf(child)}, cost)
    /\ UNCHANGED <<opened, next_ephemeral, flowVars>>

DeliverToNobody(m, kept, cost) ==
  /\ Matching(m) = {}
  /\ Transmit(kept,
       IF "RST" \in m.flags THEN {}
       ELSE IF "ACK" \in m.flags
       THEN {ResetSegment(m.dst, m.src, m.ack, 0, {"RST"})}
       ELSE {ResetSegment(m.dst, m.src, 0,
               Plus(m.seq, Len(m.data) + FinLength(m) + IF "SYN" \in m.flags THEN 1 ELSE 0),
               {"RST", "ACK"})},
       cost)
  /\ UNCHANGED <<sockets, opened, next_ephemeral, isn, flowVars>>

(* A segment arrives; a duplicate of it may stay under way. *)
Deliver ==
  \E m \in network, again \in {0, 1} :
    LET kept == IF again = 1 THEN network ELSE network \ {m}
    IN DeliverToSocket(m, kept, again) \/ DeliverToListener(m, kept, again)
         \/ DeliverToNobody(m, kept, again)

Handshake(s) == s.state \in {"SYN_SENT", "SYN_RECEIVED"}

(* A timer that runs out while segments are under way counts as a fault. *)
Early == IF network = {} THEN 0 ELSE 1

(* handle_timeout. *)
Timeout(i) ==
  LET s == sockets[i]
      tries == 1 + IF s.snd_wnd = 0 /\ ~Handshake(s) THEN 0 ELSE s.retries
      t == [s EXCEPT !.retries = tries]
      o == Output([t EXCEPT !.snd_nxt = s.snd_una], Mss)
  IN /\ s.used /\ s.timer_armed
     /\ IF tries > IF Handshake(s) THEN MaxSynRetries ELSE MaxRetries
        THEN /\ sockets' = [sockets EXCEPT ![i] = EnterClosed(t, TRUE)]
             /\ Transmit(network, {}, Early)
        ELSE IF Handshake(s)
        THEN /\ sockets' = [sockets EXCEPT ![i] = t]
             /\ Transmit(network, {SynOf(s)}, Early)
        ELSE /\ sockets' = [sockets EXCEPT ![i] = o.s]
             /\ Transmit(network, o.out, Early)
     /\ UNCHANGED <<opened, next_ephemeral, isn, flowVars>>

(* handle_timeout, for a segment that was waiting for ARP; the wait is a   *)
(* fault.                                                                  *)
ArpTimeout(i) ==
  LET s == sockets[i]
  IN /\ s.used /\ s.timer_armed
     /\ Transmit(network, IF Handshake(s) THEN {SynOf(s)} ELSE HeadOf(s), 1)
     /\ UNCHANGED <<sockets, opened, next_ephemeral, isn, flowVars>>

(* tcp_poll: the end of TIME_WAIT, or of FIN_WAIT_2 after tcp_close. *)
WaitOver(i) ==
  LET s == sockets[i]
  IN /\ s.used
     /\ s.state = "TIME_WAIT" \/ (s.state = "FIN_WAIT_2" /\ s.app_closed)
     /\ sockets' = [sockets EXCEPT ![i] = EnterClosed(s, FALSE)]
     /\ UNCHANGED <<network, faults, opened, next_ephemeral, isn, flowVars>>

-----------------------------------------------------------------------------
(* The calls of the processes: "server" listens, "client" connects.  They  *)
(* use the handles that calls have returned, which excludes a child before *)
(* tcp_accept and a socket after tcp_close, and connect a socket once.     *)

Holds(o, i) ==
  /\ sockets[i].used /\ sockets[i].owner = o /\ sockets[i].parent = NoParent
  /\ ~sockets[i].app_closed

(* tcp_socket_owned.  The server comes first, as the slots are alike. *)
Socket(o) ==
  /\ FreeSlots # {} /\ opened < MaxOpened /\ (opened = 0 => o = "server")
  /\ \A i \in Slot : Holds(o, i) => sockets[i].remote_port # 0
  /\ opened' = opened + 1
  /\ sockets' = [sockets EXCEPT ![FirstFree] = [Free EXCEPT !.used = TRUE, !.owner = o]]
  /\ UNCHANGED <<network, faults, next_ephemeral, isn, flowVars>>

PortInUse(p) ==
  \E i \in Slot : sockets[i].used /\ sockets[i].local_port = p /\ sockets[i].state # "CLOSED"

(* tcp_listen. *)
Listen(i) ==
  /\ Holds("server", i) /\ sockets[i].state = "CLOSED" /\ ~PortInUse(ServerPort)
  /\ sockets' = [sockets EXCEPT ![i].local_port = ServerPort, ![i].state = "LISTEN"]
  /\ UNCHANGED <<network, faults, opened, next_ephemeral, isn, flowVars>>

(* tcp_connect, with allocate_ephemeral_port.  What it returns in the end  *)
(* follows from the state of the socket.                                   *)
Connect(i) ==
  LET s == [sockets[i] EXCEPT
              !.local_port = next_ephemeral + 1, !.remote_port = ServerPort,
              !.error = FALSE, !.fin_received = FALSE,
              !.iss = GenerateIsn, !.snd_una = GenerateIsn,
              !.snd_nxt = Plus(GenerateIsn, 1), !.snd_max = Plus(GenerateIsn, 1),
              !.state = "SYN_SENT", !.timer_armed = TRUE]
  IN /\ Holds("client", i) /\ sockets[i].state = "CLOSED" /\ sockets[i].local_port = 0
     /\ next_ephemeral + 1 \in ClientPort /\ isn < MaxIsn
     /\ next_ephemeral' = next_ephemeral + 1
     /\ isn' = isn + 1
     /\ sockets' = [sockets EXCEPT ![i] = s]
     /\ Transmit(network, {SynOf(s)}, 0)
     /\ UNCHANGED <<opened, flowVars>>

(* tcp_accept. *)
Accept(l) ==
  /\ Holds("server", l) /\ sockets[l].state = "LISTEN" /\ sockets[l].accept_queue # <<>>
  /\ sockets' = [sockets EXCEPT ![Head(sockets[l].accept_queue)].parent = NoParent,
                                ![l].accept_queue = Tail(@)]
  /\ UNCHANGED <<network, faults, opened, next_ephemeral, isn, flowVars>>

Outgoing(i) == <<sockets[i].local_port, sockets[i].remote_port>>
Incoming(i) == <<sockets[i].remote_port, sockets[i].local_port>>

(* tcp_send of n bytes, when there is room. *)
Send(o, i, n) ==
  LET take == Least(n, Buffer - Len(sockets[i].tx))
      from == sent[Outgoing(i)]
  IN \E cwnd \in Mss .. Buffer :
       LET r == Output([sockets[i] EXCEPT !.tx = @ \o [k \in 1 .. take |-> from + k]], cwnd)
       IN /\ Holds(o, i) /\ sockets[i].state \in {"ESTABLISHED", "CLOSE_WAIT"}
          /\ take > 0 /\ from + take <= MaxBytes[o]
          /\ sent' = [sent EXCEPT ![Outgoing(i)] = from + take]
          /\ sockets' = [sockets EXCEPT ![i] = r.s]
          /\ Transmit(network, r.out, 0)
          /\ UNCHANGED <<opened, next_ephemeral, isn, received, closed, ended>>

(* tcp_receive of at most n bytes, when there are some: a window that was  *)
(* small or grows by much is announced.                                    *)
Receive(o, i, n) ==
  LET s == sockets[i]
      take == Least(n, Len(s.rx))
      t == [s EXCEPT !.rx = SubSeq(@, take + 1, Len(@))]
  IN /\ Holds(o, i) /\ s.state # "LISTEN" /\ s.rx # <<>>
     /\ received' = [received EXCEPT ![Incoming(i)] = @ \o SubSeq(s.rx, 1, take)]
     /\ sockets' = [sockets EXCEPT ![i] = t]
     /\ Transmit(network,
          IF /\ s.state \notin {"CLOSED", "TIME_WAIT"}
             /\ ReceiveWindow(s) < Mss \/ take >= 2 * Mss
          THEN {AckOf(t)} ELSE {}, 0)
     /\ UNCHANGED <<opened, next_ephemeral, isn, sent, closed, ended>>

(* tcp_receive returns 0. *)
ReceiveEnd(o, i) ==
  LET s == sockets[i]
  IN /\ Holds(o, i) /\ s.state # "LISTEN" /\ s.rx = <<>> /\ ~s.error
     /\ \/ s.fin_received
        \/ s.state \notin {"CLOSED", "SYN_SENT", "SYN_RECEIVED", "ESTABLISHED",
                           "FIN_WAIT_1", "FIN_WAIT_2"}
     /\ Incoming(i) \notin ended
     /\ ended' = ended \cup {Incoming(i)}
     /\ UNCHANGED <<sockets, network, faults, opened, next_ephemeral, isn, sent, received, closed>>

(* abort_children and the release of the sockets in gone: the table, and   *)
(* the resets for those whose state is not among quiet.                    *)
Released(gone) == [i \in Slot |-> IF i \in gone THEN Free ELSE sockets[i]]
ResetsFor(gone, quiet) ==
  {ResetSegment(sockets[i].local_port, sockets[i].remote_port, sockets[i].snd_nxt, 0, {"RST"})
     : i \in {j \in gone : sockets[j].state \notin quiet}}

(* tcp_close. *)
CloseListener(i) ==
  /\ Holds("server", i) /\ sockets[i].state = "LISTEN"
  /\ sockets' = Released({i} \cup Children(i))
  /\ Transmit(network, ResetsFor(Children(i), {"CLOSED", "LISTEN"}), 0)
  /\ UNCHANGED <<opened, next_ephemeral, isn, flowVars>>

CloseUnconnected(o, i) ==
  /\ Holds(o, i) /\ sockets[i].state \in {"CLOSED", "SYN_SENT"}
  /\ sockets' = Released({i})
  /\ UNCHANGED <<network, faults, opened, next_ephemeral, isn, flowVars>>

CloseConnected(o, i) ==
  \E cwnd \in Mss .. Buffer :
    LET r == Output([sockets[i] EXCEPT !.app_closed = TRUE, !.fin_queued = TRUE], cwnd)
    IN /\ Holds(o, i) /\ sockets[i].state \in {"SYN_RECEIVED", "ESTABLISHED", "CLOSE_WAIT"}
       /\ closed' = closed \cup {Outgoing(i)}
       /\ sockets' = [sockets EXCEPT ![i] = r.s]
       /\ Transmit(network, r.out, 0)
       /\ UNCHANGED <<opened, next_ephemeral, isn, sent, received, ended>>

QuietStates == {"CLOSED", "SYN_SENT", "TIME_WAIT", "LISTEN"}

(* tcp_abort of a connection. *)
Abort(o, i) ==
  /\ Holds(o, i) /\ sockets[i].state \notin QuietStates
  /\ sockets' = Released({i})
  /\ Transmit(network, ResetsFor({i}, QuietStates), 1)
  /\ UNCHANGED <<opened, next_ephemeral, isn, flowVars>>

(* tcp_release_owner, when the process exits: the children of a socket     *)
(* have the owner of the socket.                                           *)
ReleaseOwner(o) ==
  LET gone == {i \in Slot : sockets[i].used /\ sockets[i].owner = o}
  IN /\ gone # {}
     /\ sockets' = Released(gone)
     /\ Transmit(network, ResetsFor(gone, QuietStates), 1)
     /\ UNCHANGED <<opened, next_ephemeral, isn, flowVars>>

Process == {"client", "server"}

Next ==
  \/ Deliver
  \/ \E i \in Slot : Timeout(i) \/ ArpTimeout(i) \/ WaitOver(i)
  \/ \E i \in Slot : Listen(i) \/ Connect(i) \/ Accept(i) \/ CloseListener(i)
  \/ \E o \in Process :
       \/ Socket(o) \/ ReleaseOwner(o)
       \/ \E i \in Slot :
            \/ ReceiveEnd(o, i) \/ CloseUnconnected(o, i) \/ CloseConnected(o, i) \/ Abort(o, i)
            \/ \E n \in 1 .. MaxCount : Send(o, i, n) \/ Receive(o, i, n)

Spec == Init /\ [][Next]_vars

-----------------------------------------------------------------------------
(* Properties.                                                             *)

(* Whatever the network does, each direction of a connection delivers the  *)
(* bytes that tcp_send took, in order and once, and tcp_receive reports    *)
(* the end of the stream only after the last byte before tcp_close.        *)
ImplementsTcpStream == Stream!StreamSpec

(* A socket that waits for something from its peer has a timer running: no *)
(* loss of a segment, of an acknowledgement or of a window update leaves a *)
(* connection, or a socket that its process has closed, waiting for ever.  *)
NoStall ==
  \A i \in Slot : sockets[i].used =>
    LET s == sockets[i]
    IN /\ Handshake(s) => s.timer_armed
       /\ s.state \in OutputStates /\ (s.tx # <<>> \/ s.fin_queued) => s.timer_armed
       /\ s.app_closed => s.timer_armed \/ s.state \in {"TIME_WAIT", "FIN_WAIT_2"}

(* tcp_accept returns every connection that has been established, once:    *)
(* the queue of a listening socket has its children that got through the   *)
(* handshake, without those that have been handed out or whose slot has    *)
(* been given to somebody else; with those still in the handshake they are *)
(* no more than the backlog.                                               *)
AcceptQueueRight ==
  \A l \in Slot : sockets[l].state = "LISTEN" =>
    LET q == sockets[l].accept_queue
        queued == {q[k] : k \in DOMAIN q}
    IN /\ Len(q) = Cardinality(queued)
       /\ Len(q) + Cardinality(PendingChildren(l)) <= Backlog
       /\ queued \subseteq Children(l) \ PendingChildren(l)
       /\ {i \in Children(l) : ~Handshake(sockets[i]) /\ sockets[i].state # "CLOSED"}
            \subseteq queued

=============================================================================
