----------------------------- MODULE TcpStream -----------------------------
(***************************************************************************)
(* What net/transport/tcp.c promises to the two processes of a connection. *)
(* A flow is one direction of it.  The bytes of a flow are numbered: what  *)
(* has been sent is 1, 2, ... , sent[f].  They arrive complete and in      *)
(* order, and the end of a flow is reported when its sender has closed it  *)
(* and all its bytes have been received, and not before.                   *)
(***************************************************************************)
EXTENDS Integers, Sequences

CONSTANTS
  Flow,
  MaxCount  \* bound on the bytes that one call takes

VARIABLES
  sent,      \* the number of bytes tcp_send has taken
  received,  \* the bytes tcp_receive has returned
  closed,    \* flows whose sender has called tcp_close
  ended      \* flows whose receiver has seen the end

streamVars == <<sent, received, closed, ended>>

StreamInit ==
  /\ sent = [f \in Flow |-> 0]
  /\ received = [f \in Flow |-> <<>>]
  /\ closed = {} /\ ended = {}

SendBytes(f) ==
  /\ f \notin closed
  /\ \E n \in 1 .. MaxCount : sent' = [sent EXCEPT ![f] = @ + n]
  /\ UNCHANGED <<received, closed, ended>>

(* The next bytes of the flow, at least one. *)
ReceiveBytes(f) ==
  /\ f \notin ended
  /\ \E n \in Len(received[f]) + 1 .. sent[f] :
       received' = [received EXCEPT ![f] = [i \in 1 .. n |-> i]]
  /\ UNCHANGED <<sent, closed, ended>>

CloseFlow(f) ==
  /\ closed' = closed \cup {f}
  /\ UNCHANGED <<sent, received, ended>>

EndFlow(f) ==
  /\ f \in closed /\ Len(received[f]) = sent[f]
  /\ ended' = ended \cup {f}
  /\ UNCHANGED <<sent, received, closed>>

StreamNext == \E f \in Flow : SendBytes(f) \/ ReceiveBytes(f) \/ CloseFlow(f) \/ EndFlow(f)

StreamSpec == StreamInit /\ [][StreamNext]_streamVars

=============================================================================
