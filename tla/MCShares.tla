------------------------------ MODULE MCShares ------------------------------
(***************************************************************************)
(* Jobs for the model checker.                                             *)
(***************************************************************************)
EXTENDS Shares

COut(a) == Inst3("COutput", 0, a, 0)

\* Two inputs of one party, openings of a register that is overwritten before
\* it is checked, clear operations, and a public value added by party 1.
LinearCode == <<
  Input(0, 0, 1), Open(2, 0), Inst3("MMul", 0, 0, 2), Input(1, 1, 1),
  Inst3("SAdd", 0, 0, 1), Open(3, 0), Inst3("CAdd", 3, 3, 2),
  Inst3("CSub", 3, 3, 2), MAdd(0, 1, 3, 1), COut(3), Open(4, 0), Stop>>

\* The output of an input register: empty for the parties that it is not of.
ForeignCode == <<Input(0, 0, 0), COut(0), Stop>>

\* Each party multiplies the sharing by its own input, which is not public: the
\* result is a sharing of nothing, and a MAC check tells.
PrivateCode == <<Input(0, 0, 0), Input(1, 0, 1), Inst3("MMul", 2, 0, 0), SOutput(2), Stop>>

MCJobs == {[code |-> MulCode, masks |-> {1}], [code |-> LinearCode, masks |-> {1, 2}],
           [code |-> ForeignCode, masks |-> Fp], [code |-> PrivateCode, masks |-> {1}]}

\* HonestPasses is about all but the last.
ASSUME \A j \in MCJobs : PublicOperands(j.code) <=> j.code # PrivateCode
=============================================================================
