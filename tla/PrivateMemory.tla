---------------------------- MODULE PrivateMemory ----------------------------
(***************************************************************************)
(* What a process may expect of its memory: every address space is a       *)
(* private map from pages to contents.  A new page holds zero, fork copies *)
(* the whole map, and a page changes only when its own process writes it.  *)
(***************************************************************************)
CONSTANTS
  Space, Page, Value, Zero,
  NoPage   \* the contents of a page that is not mapped

VARIABLES
  live,    \* address spaces in use
  memory   \* contents of every page of every address space

pmVars == <<live, memory>>

Unmapped == [p \in Page |-> NoPage]

PMInit ==
  /\ live = {}
  /\ memory = [s \in Space |-> Unmapped]

New(s) ==
  /\ s \notin live
  /\ live' = live \cup {s}
  /\ UNCHANGED memory

Map(s, p) ==
  /\ s \in live
  /\ memory[s][p] = NoPage
  /\ memory' = [memory EXCEPT ![s][p] = Zero]
  /\ UNCHANGED live

Store(s, p, v) ==
  /\ s \in live
  /\ memory[s][p] # NoPage
  /\ memory' = [memory EXCEPT ![s][p] = v]
  /\ UNCHANGED live

Unmap(s, p) ==
  /\ s \in live
  /\ memory' = [memory EXCEPT ![s][p] = NoPage]
  /\ UNCHANGED live

Copy(s, c) ==
  /\ s \in live
  /\ c \notin live
  /\ live' = live \cup {c}
  /\ memory' = [memory EXCEPT ![c] = memory[s]]

Drop(s) ==
  /\ s \in live
  /\ live' = live \ {s}
  /\ memory' = [memory EXCEPT ![s] = Unmapped]

PMNext ==
  \E s \in Space :
    \/ New(s) \/ Drop(s)
    \/ \E p \in Page : Map(s, p) \/ Unmap(s, p) \/ \E v \in Value : Store(s, p, v)
    \/ \E c \in Space : Copy(s, c)

PMSpec == PMInit /\ [][PMNext]_pmVars

=============================================================================
