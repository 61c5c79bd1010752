----------------------------- MODULE FrameStore -----------------------------
(***************************************************************************)
(* What the physical memory manager promises: a frame has as many owners   *)
(* as were given out, an allocation gets frames without an owner, and      *)
(* asking for one frame fails only when every frame has an owner.          *)
(***************************************************************************)
EXTENDS Integers

CONSTANTS
  Managed,   \* the frames there are to give out
  MaxRun     \* the longest run asked for

VARIABLES
  owners,  \* owners of each frame
  got      \* <<n, f>>: the latest request, for n frames, got those from f on; 0 is none

fsVars == <<owners, got>>

Unowned == {f \in Managed : owners[f] = 0}

FSInit ==
  /\ owners \in [Managed -> {0, 1}]
  /\ got = <<0, 0>>

Give(F) ==
  /\ F \subseteq Unowned
  /\ owners' = [f \in Managed |-> IF f \in F THEN 1 ELSE owners[f]]

GetPage ==
  \/ \E f \in Unowned : Give({f}) /\ got' = <<1, f>>
  \/ Unowned = {} /\ got' = <<1, 0>> /\ UNCHANGED owners

GetRun(n) ==
  \/ \E f \in Managed : Give(f .. f + n - 1) /\ got' = <<n, f>>
  \/ got' = <<n, 0>> /\ UNCHANGED owners

Share(f) ==
  /\ owners[f] > 0
  /\ owners' = [owners EXCEPT ![f] = @ + 1]
  /\ UNCHANGED got

PutPage(f) ==
  /\ owners[f] > 0
  /\ owners' = [owners EXCEPT ![f] = @ - 1]
  /\ UNCHANGED got

PutRun(f, n) ==
  /\ \A g \in f .. f + n - 1 : g \in Managed /\ owners[g] = 1
  /\ owners' = [g \in Managed |-> IF g \in f .. f + n - 1 THEN 0 ELSE owners[g]]
  /\ UNCHANGED got

FSNext ==
  \/ GetPage
  \/ \E f \in Managed : Share(f) \/ PutPage(f)
  \/ \E n \in 2 .. MaxRun : GetRun(n) \/ \E f \in Managed : PutRun(f, n)

FSSpec == FSInit /\ [][FSNext]_fsVars

=============================================================================
