------------------------------ MODULE MCProcess ------------------------------
(* Small instances of Process. *)
EXTENDS Process, TLC

CONSTANTS init, p1, p2

MCProc == {init, p1, p2}
MCFirst == {p1}

=============================================================================
