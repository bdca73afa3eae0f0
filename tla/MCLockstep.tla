----------------------------- MODULE MCLockstep -----------------------------
(***************************************************************************)
(* Programs for the model checker: the same one for everybody, with and    *)
(* without its Stop, and programs that differ between two parties, one of  *)
(* which may abort.                                                        *)
(***************************************************************************)
EXTENDS Lockstep

Short == {<<"stop">>, <<"op">>, <<"op", "stop">>, <<"op", "op", "stop">>}
Aborting == {<<"abort", "stop">>, <<"op", "abort", "stop">>}

Same == {[p \in Party |-> s] : s \in Short}
Differing == {[p \in Party |-> IF p = 1 THEN s ELSE <<"op", "stop">>] :
  s \in Short \cup Aborting}
MCPrograms == Same \cup Differing
=============================================================================
