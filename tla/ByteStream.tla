----------------------------- MODULE ByteStream -----------------------------
(***************************************************************************)
(* What a pipe promises to the processes at its two ends: a first-in       *)
(* first-out stream of at most Capacity bytes that takes bytes only while  *)
(* the read end is open, hands over each byte once and in order, and       *)
(* reports the end of the stream only when it is empty and the write end   *)
(* is closed.                                                              *)
(***************************************************************************)
EXTENDS Integers, Sequences

CONSTANTS Byte, Capacity

VARIABLES
  queue,  \* the bytes written and not yet read
  open,   \* the ends that are open
  last    \* what the latest successful read returned, <<>> at end of stream

bsVars == <<queue, open, last>>

BSInit == queue = <<>> /\ open = {} /\ last = <<>>

Open == open = {} /\ open' = {"read", "write"} /\ queue' = <<>> /\ UNCHANGED last

Put(bytes) ==
  /\ "read" \in open
  /\ Len(queue) + Len(bytes) <= Capacity
  /\ queue' = queue \o bytes
  /\ UNCHANGED <<open, last>>

Take(n) ==
  /\ n <= Len(queue)
  /\ last' = SubSeq(queue, 1, n)
  /\ queue' = SubSeq(queue, n + 1, Len(queue))
  /\ UNCHANGED open

EndOfStream ==
  /\ queue = <<>>
  /\ "write" \notin open
  /\ last' = <<>>
  /\ UNCHANGED <<queue, open>>

(* What is still queued is lost with the last end. *)
Shut(end) ==
  /\ end \in open
  /\ open' = open \ {end}
  /\ queue' = IF open' = {} THEN <<>> ELSE queue
  /\ UNCHANGED last

BSNext ==
  \/ Open \/ EndOfStream
  \/ \E n \in 1 .. Capacity :
       Take(n) \/ \E bytes \in [1 .. n -> Byte] : Put(bytes)
  \/ \E end \in {"read", "write"} : Shut(end)

BSSpec == BSInit /\ [][BSNext]_bsVars

=============================================================================
