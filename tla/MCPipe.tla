------------------------------- MODULE MCPipe -------------------------------
(* Small instances of Pipe for TLC. *)
EXTENDS Pipe, TLC

CONSTANTS p1, p2

MCThread == {p1, p2}

(* The processes are interchangeable. *)
Symmetry == Permutations(Thread)

=============================================================================
