------------------------------ MODULE SleepWake ------------------------------
(***************************************************************************)
(* What the kernel's blocking primitives promise to the code that calls    *)
(* them (scheduler_block, scheduler_sleep and scheduler_unblock), without  *)
(* processors, run queues or context switches.                             *)
(*                                                                         *)
(* A live thread is awake, or blocked, or blocked with a timeout.  A       *)
(* wake-up sent to a thread that is not blocked is remembered, once, and   *)
(* consumed by the next scheduler_block, which then returns at once.       *)
(* scheduler_sleep forgets it instead: every caller that sleeps looks at   *)
(* its condition again afterwards.                                         *)
(***************************************************************************)

CONSTANT Thread

VARIABLES
  phase,  \* "dead", "awake", "blocked" or "timed"
  token   \* a wake-up arrived while the thread was not blocked

swVars == <<phase, token>>

SWTypeOK ==
  /\ phase \in [Thread -> {"dead", "awake", "blocked", "timed"}]
  /\ token \in [Thread -> BOOLEAN]

SWInit ==
  /\ phase = [t \in Thread |-> "dead"]
  /\ token = [t \in Thread |-> FALSE]

Asleep(t) == phase[t] \in {"blocked", "timed"}

(* Timeouts run out at any time: p once those of the threads in S have.    *)
Expired(p, S) ==
  [t \in Thread |-> IF t \in S /\ p[t] = "timed" THEN "awake" ELSE p[t]]

Spawn(t) ==
  /\ phase[t] = "dead"
  /\ phase' = [phase EXCEPT ![t] = "awake"]
  /\ token' = [token EXCEPT ![t] = FALSE]

(* scheduler_block: consume the remembered wake-up, or block. *)
Block(t, S) ==
  /\ phase[t] = "awake"
  /\ IF token[t] THEN UNCHANGED phase
     ELSE phase' = Expired([phase EXCEPT ![t] = "blocked"], S)
  /\ token' = [token EXCEPT ![t] = FALSE]

(* scheduler_sleep: block until the timeout or a wake-up. *)
Sleep(t, S) ==
  /\ phase[t] = "awake"
  /\ phase' = Expired([phase EXCEPT ![t] = "timed"], S)
  /\ token' = [token EXCEPT ![t] = FALSE]

(* scheduler_unblock: wake a blocked thread, or leave it a token. *)
Unblock(t) ==
  \/ /\ Asleep(t)
     /\ phase' = [phase EXCEPT ![t] = "awake"]
     /\ UNCHANGED token
  \/ /\ phase[t] = "awake"
     /\ token' = [token EXCEPT ![t] = TRUE]
     /\ UNCHANGED phase

Die(t, S) ==
  /\ phase[t] = "awake"
  /\ phase' = Expired([phase EXCEPT ![t] = "dead"], S)
  /\ UNCHANGED token

Expire(S) ==
  /\ phase' = Expired(phase, S)
  /\ UNCHANGED token

SWNext ==
  \/ \E t \in Thread : Spawn(t) \/ Unblock(t)
  \/ \E t \in Thread, S \in SUBSET Thread : Block(t, S) \/ Sleep(t, S) \/ Die(t, S)
  \/ \E S \in SUBSET Thread : Expire(S)

SWSpec == SWInit /\ [][SWNext]_swVars

=============================================================================
