-------------------------------- MODULE Link --------------------------------
(***************************************************************************)
(* What the protocol takes a connection between two threads to be, whether *)
(* it is a pair of channels or a TCP stream wrapped in them: messages      *)
(* arrive in the order in which they were sent, none twice and none left   *)
(* out.  Nothing is promised about the last messages of an end that has    *)
(* ended, nor about when one arrives.                                      *)
(***************************************************************************)
EXTENDS Integers, Sequences

CONSTANT K    \* the messages each end sends, numbered 1 to K

End == {0, 1}
Other(e) == 1 - e

VARIABLES
  sent,     \* sent[e]: how many messages end e has sent
  got       \* got[e]: the messages end e has received, in order

vars == <<sent, got>>

Init ==
  /\ sent = [e \in End |-> 0]
  /\ got = [e \in End |-> <<>>]

Put(e) ==
  /\ sent[e] < K
  /\ sent' = [sent EXCEPT ![e] = @ + 1]
  /\ UNCHANGED got

Get(e) ==
  /\ Len(got[e]) < sent[Other(e)]
  /\ got' = [got EXCEPT ![e] = Append(@, Len(@) + 1)]
  /\ UNCHANGED sent

Next == \E e \in End : Put(e) \/ Get(e)

Spec == Init /\ [][Next]_vars
=============================================================================
