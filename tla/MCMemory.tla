------------------------------ MODULE MCMemory ------------------------------
(* Small instances of Memory. *)
EXTENDS Memory, TLC

CONSTANTS s1, s2, f1, f2, f3, f4

MCSpace == {s1, s2}
MCFrame == {f1, f2, f3, f4}
Symmetry == Permutations(Space) \cup Permutations(Frame)

=============================================================================
