------------------------------- MODULE Rounds -------------------------------
(***************************************************************************)
(* What the synchronizer promises the parties (synchronizer.rs, "a simple  *)
(* implementation of an alpha-synchronizer"): the computation proceeds in  *)
(* rounds, one instruction each, and a party begins a round only after     *)
(* every party has finished the one before.  How messages achieve this is  *)
(* left to Lockstep, which implements this module.                         *)
(***************************************************************************)
EXTENDS Integers

CONSTANT Party

VARIABLES
  begun,      \* begun[p]: the rounds party p has begun
  finished    \* finished[p]: the rounds party p has reported as finished

vars == <<begun, finished>>

Init ==
  /\ begun = [p \in Party |-> 0]
  /\ finished = [p \in Party |-> 0]

Begin(p) ==
  /\ \A q \in Party : finished[q] >= begun[p]
  /\ finished[p] = begun[p]
  /\ begun' = [begun EXCEPT ![p] = @ + 1]
  /\ UNCHANGED finished

Finish(p) ==
  /\ finished[p] < begun[p]
  /\ finished' = [finished EXCEPT ![p] = @ + 1]
  /\ UNCHANGED begun

Next == \E p \in Party : Begin(p) \/ Finish(p)

Spec == Init /\ [][Next]_vars
=============================================================================
