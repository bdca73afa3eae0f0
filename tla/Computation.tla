---------------------------- MODULE Computation -----------------------------
(***************************************************************************)
(* What the parties compute together, seen from outside: the functionality *)
(* with abort that SPDZ promises.  A party takes a value for opened only   *)
(* if it is the sum of everybody's shares of one and the same sharing, and *)
(* all parties that take a value for the same instruction take the same    *)
(* one.  A party returns a result only after it has all values; it may     *)
(* fail at any time, others or not.                                        *)
(***************************************************************************)
CONSTANTS
  Party,     \* the parties
  Opening    \* the instructions of their program that open a value

VARIABLES
  checked,   \* checked[p]: the opened values party p relies on
  end        \* end[p]: how its computation has ended

vars == <<checked, end>>

Init ==
  /\ checked = [p \in Party |-> {}]
  /\ end = [p \in Party |-> "running"]

\* Everybody has contributed a share, and the shares are of the same sharing.
Authentic(x) == DOMAIN x = Party /\ \A q, r \in Party : x[q] = x[r]

Agrees(v) == \A q \in Party : \A w \in checked[q] : w.at = v.at => w.x = v.x

\* What p has in hand passes the MAC check.
Check(p) ==
  /\ end[p] # "ok"
  /\ checked' = [checked EXCEPT ![p] = checked'[p]]
  /\ checked[p] \subseteq checked'[p]
  /\ \A v \in checked'[p] \ checked[p] :
       /\ v.at \in Opening
       /\ Authentic(v.x)
       /\ Agrees(v)
       /\ \A w \in checked'[p] : w.at = v.at => w = v
  /\ UNCHANGED end

Return(p) ==
  /\ end[p] = "running"
  /\ {v.at : v \in checked[p]} = Opening
  /\ end' = [end EXCEPT ![p] = "ok"]
  /\ UNCHANGED checked

Fail(p) ==
  /\ end[p] = "running"
  /\ end' = [end EXCEPT ![p] = "failed"]
  /\ UNCHANGED checked

Next == \E p \in Party : Check(p) \/ Return(p) \/ Fail(p)

Spec == Init /\ [][Next]_vars
=============================================================================
