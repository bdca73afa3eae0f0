------------------------------- MODULE Shares -------------------------------
(***************************************************************************)
(* The arithmetic of the virtual machines (vm.rs) on authenticated shares  *)
(* (crypto.rs), over a small prime field.  Mpc takes sharings as opaque    *)
(* and follows the messages; here the parties execute each instruction     *)
(* together, which is what Lockstep achieves, and the values are followed. *)
(*                                                                         *)
(* A random sharing or a triple is drawn when it is used.                  *)
(***************************************************************************)
EXTENDS Integers, Sequences

CONSTANTS
  N,        \* the number of parties
  P,        \* the prime that Fp counts modulo
  Jobs      \* [code, masks]: a program, and what the random number generator
            \* may yield for the share of a party

Party == 0 .. N - 1
Fp == 0 .. P - 1
Reg == 0 .. 10    \* of the 32 registers; MUL_PROG uses 11
None == -1                                  \* an empty clear register
NoShare == [share |-> None, mac |-> None]   \* an empty secret register

ASSUME SharesAssumption == N \in Nat \ {0} /\ P \in Nat /\ P > 1

\* P is prime.
ASSUME PrimeAssumption == \A a, b \in Fp : a * b % P = 0 => 0 \in {a, b}

Instruction ==
  [op : {"CAdd", "CSub", "CMul", "SAdd", "SSub", "MAdd", "MMul", "Input",
         "Triple", "Open", "COutput", "SOutput", "Stop"},
   to : Reg, a : Reg, b : Reg, id : Party]

\* A program must not end without Stop (party.rs:133), and names parties there are.
ASSUME JobsAssumption == \A j \in Jobs :
  /\ j.code \in Seq(Instruction)
  /\ \E i \in DOMAIN j.code : j.code[i].op = "Stop"
  /\ j.masks \subseteq Fp

VARIABLES
  job,        \* the job the parties have been given
  inputs,     \* inputs[p][i]: what p inputs with instruction i
  alpha,      \* alpha[p]: the share p has of the MAC key (alpha_share)
  pc,         \* the instructions executed
  status,     \* "run", "ok", or the error the computation has ended with
  clear,      \* clear[p]: the clear registers of p
  secret,     \* secret[p]: its secret registers
  openings,   \* openings[p]: the values opened but not checked (partial_openings)
  output,     \* output[p]: its output
  plain       \* history: what the secret registers stand for

regVars == <<clear, secret, plain>>
resultVars == <<openings, output>>
vars == <<job, inputs, alpha, pc, status, regVars, resultVars>>

(* A definition named X_Y is X with a mistake Y: it is no part of the      *)
(* specification, and stands before the definition it is a variant of.     *)

-----------------------------------------------------------------------------
(* crypto.rs                                                               *)

Add(x, y) == (x + y) % P
Sub_Unreduced(x, y) == x - y
Sub(x, y) == (x - y) % P
Mul(x, y) == (x * y) % P

MulClear(a, x) == [share |-> Mul(a.share, x), mac |-> Mul(a.mac, x)]

AddClear_Everyone(a, x, alphaShare, update) ==
  [share |-> Add(a.share, x), mac |-> Add(a.mac, Mul(alphaShare, x))]
AddClear_KeepsMac(a, x, alphaShare, update) ==
  [share |-> IF update THEN Add(a.share, x) ELSE a.share,
   mac |-> IF update THEN Add(a.mac, Mul(alphaShare, x)) ELSE a.mac]
AddClear(a, x, alphaShare, update) ==
  [share |-> IF update THEN Add(a.share, x) ELSE a.share,
   mac |-> Add(a.mac, Mul(alphaShare, x))]

Plus(a, b) == [share |-> Add(a.share, b.share), mac |-> Add(a.mac, b.mac)]
Minus_Reversed(a, b) ==
  [share |-> Sub(b.share, a.share), mac |-> Sub(b.mac, a.mac)]
Minus(a, b) == [share |-> Sub(a.share, b.share), mac |-> Sub(a.mac, b.mac)]

\* f[0] + ... + f[n - 1], one addition after the other.
Total(f, n) ==
  LET sum[i \in 0 .. n] == IF i = 0 THEN 0 ELSE Add(sum[i - 1], f[i - 1])
  IN sum[n]

UnauthCombine(shares) == Total(shares, N)

\* The sharings of x that may come out: all but the last party have a value
\* from the random number generator.
UnauthShare(x) ==
  {[p \in Party |-> IF p < N - 1 THEN m[p] ELSE Sub(x, Total(m, N - 1))] :
     m \in [0 .. N - 2 -> job.masks]}

Alpha == UnauthCombine(alpha)

AuthShare(x) ==
  {[p \in Party |-> [share |-> xs[p], mac |-> ms[p]]] :
     xs \in UnauthShare(x), ms \in UnauthShare(Mul(x, Alpha))}

-----------------------------------------------------------------------------
(* The instruction to execute.                                             *)

Inst == job.code[pc + 1]

Is(ops) == status = "run" /\ Inst.op \in ops

\* The operands are read before anything else is done; one that is empty ends
\* the party with EmptyError.
ClearOperands == CASE Inst.op \in {"CAdd", "CSub", "CMul"} -> {Inst.a, Inst.b}
                   [] Inst.op \in {"MAdd", "MMul"} -> {Inst.b}
                   [] Inst.op = "COutput" -> {Inst.a}
                   [] OTHER -> {}
SecretOperands == CASE Inst.op \in {"SAdd", "SSub"} -> {Inst.a, Inst.b}
                    [] Inst.op \in {"MAdd", "MMul", "Open", "SOutput"} -> {Inst.a}
                    [] OTHER -> {}

\* Only the input party reads the register that an Input is from.
Has(p) ==
  /\ \A r \in ClearOperands : clear[p][r] # None
  /\ \A r \in SecretOperands : secret[p][r] # NoShare
  /\ Inst.op = "Input" /\ p = Inst.id => clear[p][Inst.a] # None

Ready(ops) == Is(ops) /\ \A p \in Party : Has(p)

ToClear(value) == clear' = [p \in Party |-> [clear[p] EXCEPT ![Inst.to] = value[p]]]
ToSecret(value, ideal) ==
  /\ secret' = [p \in Party |-> [secret[p] EXCEPT ![Inst.to] = value[p]]]
  /\ plain' = [plain EXCEPT ![Inst.to] = ideal]

Continue == pc' = pc + 1 /\ UNCHANGED <<job, inputs, alpha, status>>

EmptyError ==
  /\ status = "run"
  /\ \E p \in Party : ~Has(p)
  /\ status' = "EmptyError"
  /\ UNCHANGED <<job, inputs, alpha, pc, regVars, resultVars>>

DoClearOp ==
  /\ Ready({"CAdd", "CSub", "CMul"})
  /\ ToClear([p \in Party |-> LET x == clear[p][Inst.a]
                                  y == clear[p][Inst.b]
       IN CASE Inst.op = "CAdd" -> Add(x, y)
            [] Inst.op = "CSub" -> Sub(x, y)
            [] OTHER -> Mul(x, y)])
  /\ Continue
  /\ UNCHANGED <<secret, plain, resultVars>>

\* Parties may hold different clear values in a register that is not opened:
\* then there is nothing the result is meant to stand for.
Public(r) ==
  IF \A p \in Party : clear[p][r] = clear[0][r] THEN clear[0][r] ELSE None
Ideal(op(_, _), x, y) == IF None \in {x, y} THEN None ELSE op(x, y)

DoSecretOp ==
  /\ Ready({"SAdd", "SSub"})
  /\ LET add == Inst.op = "SAdd"
         x(p) == secret[p][Inst.a]
         y(p) == secret[p][Inst.b]
     IN ToSecret([p \in Party |-> IF add THEN Plus(x(p), y(p)) ELSE Minus(x(p), y(p))],
                 IF add THEN Ideal(Add, plain[Inst.a], plain[Inst.b])
                        ELSE Ideal(Sub, plain[Inst.a], plain[Inst.b]))
  /\ Continue
  /\ UNCHANGED <<clear, resultVars>>

DoMixedAdd ==
  /\ Ready({"MAdd"})
  /\ ToSecret([p \in Party |->
                 AddClear(secret[p][Inst.a], clear[p][Inst.b], alpha[p], p = Inst.id)],
              Ideal(Add, plain[Inst.a], Public(Inst.b)))
  /\ Continue
  /\ UNCHANGED <<clear, resultVars>>

DoMixedMul ==
  /\ Ready({"MMul"})
  /\ ToSecret([p \in Party |-> MulClear(secret[p][Inst.a], clear[p][Inst.b])],
              Ideal(Mul, plain[Inst.a], Public(Inst.b)))
  /\ Continue
  /\ UNCHANGED <<clear, resultVars>>

\* The input party publishes e, its input less the random value that only it
\* knows; everyone adds e to the sharing of that value.
DoInput ==
  /\ Ready({"Input"})
  /\ \E r \in Fp : \E rand \in AuthShare(r) :
       LET e == Sub(clear[Inst.id][Inst.a], r) IN
       ToSecret([p \in Party |-> AddClear(rand[p], e, alpha[p], p = Inst.id)],
                clear[Inst.id][Inst.a])
  /\ Continue
  /\ UNCHANGED <<clear, resultVars>>

\* a and b are put in registers to and a of the instruction, their product in b.
DoTriple ==
  /\ Ready({"Triple"})
  /\ \E a, b \in Fp : \E as \in AuthShare(a), bs \in AuthShare(b), cs \in AuthShare(Mul(a, b)) :
       /\ secret' = [p \in Party |-> [secret[p] EXCEPT
            ![Inst.to] = as[p], ![Inst.a] = bs[p], ![Inst.b] = cs[p]]]
       /\ plain' = [plain EXCEPT ![Inst.to] = a, ![Inst.a] = b, ![Inst.b] = Mul(a, b)]
  /\ Continue
  /\ UNCHANGED <<clear, resultVars>>

-----------------------------------------------------------------------------
(* Openings and the MAC check.                                             *)

\* What Open yields: the sum of everybody's share, and each party keeps the
\* value with its share, to be checked later.
Opened(r) == UnauthCombine([p \in Party |-> secret[p][r].share])

WithOpening(r) ==
  [p \in Party |-> Append(openings[p], [x |-> Opened(r), of |-> secret[p][r]])]

\* mac_check: the ds of all parties sum to zero.
D_OfShare(p, x, a) == Sub(Mul(alpha[p], a.share), a.mac)
D(p, x, a) == Sub(Mul(alpha[p], x), a.mac)

Checks(list) == \A i \in DOMAIN list[0] :
  UnauthCombine([p \in Party |-> D(p, list[p][i].x, list[p][i].of)]) = 0

DoOpen ==
  /\ Ready({"Open"})
  /\ ToClear([p \in Party |-> Opened(Inst.a)])
  /\ openings' = WithOpening(Inst.a)
  /\ Continue
  /\ UNCHANGED <<secret, plain, output>>

COutput ==
  /\ Ready({"COutput"})
  /\ output' = [p \in Party |-> Append(output[p], clear[p][Inst.a])]
  /\ Continue
  /\ UNCHANGED <<regVars, openings>>

\* Every opening that has not been checked is, and if all is well the party
\* outputs its share.
DoSecretOutput ==
  /\ Ready({"SOutput"})
  /\ IF Checks(WithOpening(Inst.a))
     THEN /\ output' = [p \in Party |-> Append(output[p], secret[p][Inst.a].share)]
          /\ openings' = [p \in Party |-> <<>>]
          /\ Continue
     ELSE /\ status' = "MACCheckError"
          /\ UNCHANGED <<job, inputs, alpha, pc, resultVars>>
  /\ UNCHANGED regVars

DoStop ==
  /\ Ready({"Stop"})
  /\ status' = IF Checks(openings) THEN "ok" ELSE "MACCheckError"
  /\ openings' = IF Checks(openings) THEN [p \in Party |-> <<>>] ELSE openings
  /\ UNCHANGED <<job, inputs, alpha, pc, regVars, output>>

-----------------------------------------------------------------------------
\* The instructions that input a value of p.
InputsOf(p, code) == {i \in DOMAIN code : code[i].op = "Input" /\ code[i].id = p}

\* Reg::from_prog: a register that has two inputs keeps the later one, and
\* what is not an input of p is empty.
FromProg(p, code, given) ==
  LET for(r) == {i \in InputsOf(p, code) : code[i].a = r}
      last(r) == CHOOSE i \in for(r) : \A j \in for(r) : j <= i
  IN [r \in Reg |-> IF for(r) = {} THEN None ELSE given[last(r)]]

Init ==
  /\ job \in Jobs
  /\ inputs \in {f \in [Party -> UNION {[InputsOf(p, job.code) -> Fp] : p \in Party}] :
       \A p \in Party : DOMAIN f[p] = InputsOf(p, job.code)}
  /\ alpha \in [Party -> Fp]
  /\ pc = 0
  /\ status = "run"
  /\ clear = [p \in Party |-> FromProg(p, job.code, inputs[p])]
  /\ secret = [p \in Party |-> [r \in Reg |-> NoShare]]
  /\ plain = [r \in Reg |-> None]
  /\ openings = [p \in Party |-> <<>>]
  /\ output = [p \in Party |-> <<>>]

Next ==
  \/ EmptyError \/ DoClearOp \/ DoSecretOp \/ DoMixedAdd \/ DoMixedMul
  \/ DoInput \/ DoTriple \/ DoOpen \/ COutput \/ DoSecretOutput \/ DoStop
  \/ status # "run" /\ UNCHANGED vars

Spec == Init /\ [][Next]_vars

-----------------------------------------------------------------------------
(* Properties.                                                             *)

\* Registers, openings and outputs hold elements of the field, reduced: two
\* that are equal modulo P are equal (==, and the bytes that are committed to).
Share == [share : Fp, mac : Fp]

TypeOK ==
  /\ pc \in 0 .. Len(job.code) - 1
  /\ status \in {"run", "ok", "EmptyError", "MACCheckError"}
  /\ clear \in [Party -> [Reg -> Fp \cup {None}]]
  /\ secret \in [Party -> [Reg -> Share \cup {NoShare}]]
  /\ plain \in [Reg -> Fp \cup {None}]
  /\ openings \in [Party -> Seq([x : Fp, of : Share])]
  /\ output \in [Party -> Seq(Fp)]

Shared(r) == plain[r] # None

\* Whatever instructions have been executed, the shares of a secret register
\* add up to the value it stands for, and the MACs to that value times the
\* MAC key, of which nobody has more than a share (AuthShare; add_clear's
\* "only one party should have `update_share`").
Authentic == \A r \in Reg : Shared(r) =>
  /\ Opened(r) = plain[r]
  /\ UnauthCombine([p \in Party |-> secret[p][r].mac]) = Mul(plain[r], Alpha)

\* The MAC check accepts a value for a register if it is the one the register
\* stands for, and no other unless the MAC key is zero (mac_check).
CheckIsExact == \A r \in Reg : Shared(r) => \A x \in Fp :
  Checks([p \in Party |-> <<[x |-> x, of |-> secret[p][r]]>>]) <=>
    x = plain[r] \/ Alpha = 0

\* The clear registers known to be public, that is to hold the same value at
\* every party, after an instruction: what it opens, or computes of public ones.
PublicThen(known, i) ==
  CASE i.op = "Open" -> known \cup {i.to}
    [] i.op \in {"CAdd", "CSub", "CMul"} ->
         IF {i.a, i.b} \subseteq known THEN known \cup {i.to} ELSE known \ {i.to}
    [] OTHER -> known

PublicAfter(code) ==
  LET known[i \in 0 .. Len(code)] == IF i = 0 THEN {} ELSE PublicThen(known[i - 1], code[i])
  IN known

\* MAdd and MMul take public values ("The identity `id` must be the same across
\* all parties for the computation to be correct", and so must the value).
PublicOperands(code) == \A i \in DOMAIN code :
  code[i].op \in {"MAdd", "MMul"} => code[i].b \in PublicAfter(code)[i - 1]

\* Parties that hold shares of the same sharings never fail a MAC check, not
\* even of values opened several instructions ago, from registers overwritten
\* since, if MAdd and MMul are of PublicOperands.
HonestPasses ==
  PublicOperands(job.code) => status # "MACCheckError"

-----------------------------------------------------------------------------
(* A program of the repository.                                            *)

Inst3(op, to, a, b) == [op |-> op, to |-> to, a |-> a, b |-> b, id |-> 0]
Input(to, a, id) == [op |-> "Input", to |-> to, a |-> a, b |-> 0, id |-> id]
MAdd(to, a, b, id) == [op |-> "MAdd", to |-> to, a |-> a, b |-> b, id |-> id]
Open(to, a) == Inst3("Open", to, a, 0)
SOutput(a) == Inst3("SOutput", 0, a, 0)
Stop == Inst3("Stop", 0, 0, 0)

\* MUL_PROG of vm.rs: the product of the inputs of parties 0 and 1.
MulCode == <<
  Input(0, 0, 0), Input(1, 1, 1), Inst3("Triple", 2, 3, 4),
  Inst3("SSub", 5, 0, 2), Inst3("SSub", 6, 1, 3), Open(5, 5), Open(6, 6),
  Inst3("MMul", 7, 3, 5), Inst3("MMul", 8, 2, 6), Inst3("CMul", 9, 5, 6),
  Inst3("SAdd", 10, 4, 7), Inst3("SAdd", 10, 10, 8), MAdd(10, 10, 9, 0),
  SOutput(10), Stop>>

\* MUL_PROG yields shares of the product of the two inputs, whatever they are,
\* the triple, the masks and the MAC key (integration_test_mul).
ProductIsRight == job.code = MulCode /\ status = "ok" =>
  UnauthCombine([p \in Party |-> output[p][1]]) = Mul(inputs[0][1], inputs[1][2])
=============================================================================
