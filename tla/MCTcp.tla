------------------------------- MODULE MCTcp -------------------------------
(* A small instance of Tcp.  The sequence numbers wrap, a segment and a    *)
(* buffer hold two bytes, and two connections may wait for tcp_accept.     *)
EXTENDS Tcp

MCMaxBytes == [client |-> 3, server |-> 0]

(* What is explored: a client that sends three bytes and closes, or two    *)
(* bytes to a server that may close as well; two clients that send         *)
(* nothing, one of which may close; and three, one more than the backlog,  *)
(* on a network without faults.                                            *)
Scenario ==
  LET quiet == \A f \in Flow : sent[f] = 0
      first == <<1, ServerPort>>
  IN \/ opened <= 2 /\ isn <= 3 /\ (sent[first] <= 2 \/ closed \subseteq {first})
     \/ opened <= 3 /\ isn <= 4 /\ quiet /\ closed \subseteq {first}
     \/ isn <= 5 /\ faults = 0 /\ quiet /\ closed = {}

(* The loop of tcp_output step by step, with buffers that hold several     *)
(* segments.                                                               *)
Wide == INSTANCE Tcp WITH Buffer <- 8, Mss <- 3

RECURSIVE SendLoop(_, _, _)
SendLoop(s, window, out) ==
  LET n == Wide!NextLength(s, window)
      at == Wide!InFlight(s)
      data == SubSeq(s.tx, at + 1, at + n)
  IN IF n = 0
     THEN Result(s, out)
     ELSE SendLoop(Wide!Sent(s, n), window,
                   out \cup {Wide!Segment(s, s.snd_nxt, {"ACK"}, data)})

(* SendData is what the loop does, for every fill of the buffer, every     *)
(* number of bytes in flight or sent before a timeout, and every window.   *)
ASSUME SendDataIsTheLoop ==
  \A length \in 0 .. 8, wnd \in 0 .. 8, cwnd \in {3, 5, 8}, una \in {0, SeqMod - 4} :
  \A flight \in 0 .. length + 1 : \A most \in flight .. length + 1 :
    LET s == [Free EXCEPT !.tx = [k \in 1 .. length |-> k], !.snd_wnd = wnd,
                          !.snd_una = una, !.snd_nxt = Plus(una, flight),
                          !.snd_max = Plus(una, most)]
        window == Least(wnd, cwnd)
    IN Wide!SendData(s, window) = SendLoop(s, window, {})

=============================================================================
