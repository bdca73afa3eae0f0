-------------------------------- MODULE MCMpc --------------------------------
(***************************************************************************)
(* Programs and preprocessing for the model checker.                       *)
(***************************************************************************)
EXTENDS Mpc, TLC

Inst(op, dst, src, cdst, csrc) ==
  [op |-> op, dst |-> dst, src |-> src, cdst |-> cdst, csrc |-> csrc]
Input(s0, c1, id) == Inst("Input", {s0}, {}, {}, {c1}) @@ [id |-> id]
Triple(dst) == Inst("Triple", dst, {}, {}, {})
Local(dst, src, cdst, csrc) == Inst("Local", dst, src, cdst, csrc)
Open(c0, s1) == Inst("Open", {}, {s1}, {c0}, {})
SOutput(s0) == Inst("SOutput", {}, {s0}, {}, {})
COutput(c0) == Inst("COutput", {}, {}, {}, {c0})
Stop == Inst("Stop", {}, {}, {}, {})

\* As MUL_PROG: two inputs, a triple, two openings, a result that uses what was
\* opened and the product of it.
MulCode == <<Input(0, 0, 0), Input(1, 1, 1), Triple({2}), Local({3}, {0, 2}, {}, {}),
             Local({4}, {1, 2}, {}, {}), Open(5, 3), Open(6, 4),
             Local({0}, {2, 3, 4}, {9}, {5, 6}), SOutput(0), Stop>>

\* Two inputs of one party, both opened and checked together by Stop; the first
\* input is output as IO_PROG does, from the clear register of every party.
TwoInputsCode == <<Input(0, 0, 0), Input(1, 1, 0), Open(2, 0), Open(3, 1),
                   COutput(0), Stop>>

\* The same, with an opening of the second input only.
SecondInputCode == <<Input(0, 0, 0), Input(1, 1, 0), Open(2, 1), Stop>>

\* A triple, of which one element is opened.
TripleCode == <<Triple({0}), Open(0, 0), Stop>>

\* Clear registers as from_prog sets them, each party its own inputs; as the
\* tests set them, a zero where another party has its input; and with no input.
InputRegs(p) == UNION {Code[i].csrc : i \in
  {j \in DOMAIN Code : Code[j].op = "Input" /\ Code[j].id = p}}
FromProg == [p \in Party |-> InputRegs(p)]
FromVec == [p \in Party |-> UNION {InputRegs(q) : q \in Party}]
NoInputs == [p \in Party |-> {}]
OwnInputs == {FromProg}
AllInputs == {FromVec}
AnyInputs == {FromProg, FromVec, NoInputs}

\* As gen_fake_prep: the sharings for each party's inputs, with the clear value
\* for that party, then the triples.
Rand(id, k) == [kind |-> "Rand", id |-> id, k |-> k, clear |-> {id}]
TripleMsg(k) == [kind |-> "Triple", k |-> k]
MulPrep == <<Rand(0, 1), Rand(1, 1), TripleMsg(1), TripleMsg(2), TripleMsg(3)>>
TriplePrep == <<TripleMsg(1)>>
TwoPrep == <<Rand(0, 1), Rand(0, 2)>>

ProgramsOf(code) == {[p \in Party |->
  [i \in DOMAIN code |-> IF code[i].op = "Stop" THEN "stop" ELSE "op"]]}
MCPrograms == ProgramsOf(Code)

ASSUME Code \in {MulCode, TripleCode} => Suits /\ ClearSuits
=============================================================================
