---------------------------- MODULE SharesProofs ----------------------------
(***************************************************************************)
(* For any number of parties, prime and jobs: registers, openings and      *)
(* outputs hold elements of the field, the registers that stand for a      *)
(* value are sharings of it, the MAC check accepts exactly that value,     *)
(* honest parties pass it, and MUL_PROG multiplies.                        *)
(***************************************************************************)
EXTENDS Shares, WellFoundedInduction, TLAPS

-----------------------------------------------------------------------------
(* Natural numbers.                                                        *)

\* A set of natural numbers has a least element.
LEMMA LeastNat ==
  ASSUME NEW T, T \subseteq Nat, T # {}
  PROVE  \E x \in T : \A y \in T : x <= y
<1>1. OpToRel(<, Nat) = {ss \in Nat \X Nat : ss[1] < ss[2]}
  BY DEF OpToRel
<1> DEFINE less == {ss \in Nat \X Nat : ss[1] < ss[2]}
<1>2. IsWellFoundedOn(less, Nat)
  BY <1>1, NatLessThanWellFounded
<1>3. \A x, y \in T : <<y, x>> \in less <=> y < x
  OBVIOUS
<1> HIDE DEF less
<1>4. \E x \in T : \A y \in T : ~ (<<y, x>> \in less)
  BY <1>2, WFMin
<1>5. T \subseteq Nat
  OBVIOUS
<1>6. \A x, y \in T : ~(y < x) => x <= y
  BY <1>5
<1>7. QED
  BY <1>3, <1>4, <1>6

\* A set with 0 and with the successors of its elements has them all.
LEMMA InductionOnSet ==
  ASSUME NEW S, 0 \in S, \A n \in Nat : n \in S => n + 1 \in S
  PROVE  \A n \in Nat : n \in S
<1> DEFINE T == Nat \ S
<1>1. SUFFICES ASSUME T # {} PROVE FALSE
  OBVIOUS
<1>2. PICK x \in T : \A y \in T : x <= y
  <2>1. T \subseteq Nat
    OBVIOUS
  <2> HIDE DEF T
  <2> QED
    BY <1>1, <2>1, LeastNat
<1>3. x # 0 /\ x - 1 \in Nat /\ ~(x - 1 \in T) /\ x - 1 + 1 = x
  BY <1>2
<1>4. QED
  BY <1>3

-----------------------------------------------------------------------------
(* Arithmetic modulo P.                                                    *)

\* A multiple of P more does not change the remainder.
LEMMA Residue ==
  ASSUME NEW x \in Int, NEW k \in Int
  PROVE  (x + k * P) % P = x % P
<1>1. P \in Nat \ {0}
  BY SharesAssumption
<1> DEFINE y == x + k * P
           r == x % P
           s == y % P
           q == x \div P
           t == y \div P
<1>2. y \in Int
  BY <1>1
<1>3. q \in Int /\ r \in 0 .. P - 1 /\ x = P * q + r
  BY <1>1
<1>4. t \in Int /\ s \in 0 .. P - 1 /\ y = P * t + s
  BY <1>1, <1>2
<1>5. P * (t - q - k) = r - s
  BY <1>1, <1>3, <1>4
<1>6. \A d \in Int : d >= 1 => P * d >= P
  BY <1>1
<1>7. \A d \in Int : d <= -1 => P * d <= -P
  BY <1>1
<1>8. t - q - k = 0
  BY <1>1, <1>3, <1>4, <1>5, <1>6, <1>7
<1>9. QED
  BY <1>1, <1>3, <1>4, <1>5, <1>8

\* A number differs from its remainder by a multiple of P.
LEMMA Reduced ==
  ASSUME NEW x \in Int
  PROVE  /\ x % P \in Fp /\ x % P \in Int
         /\ \E k \in Int : x % P = x + k * P
<1>1. P \in Nat \ {0}
  BY SharesAssumption
<1> DEFINE q == x \div P
<1>2. q \in Int /\ x % P \in 0 .. P - 1 /\ x = P * q + (x % P)
  BY <1>1
<1>3. -q \in Int /\ x % P = x + (-q) * P
  BY <1>1, <1>2
<1>4. \E k \in Int : x % P = x + k * P
  BY <1>3
<1>5. x % P \in Fp /\ x % P \in Int
  BY <1>1, <1>2 DEF Fp
<1>6. QED
  BY <1>4, <1>5

LEMMA InFp ==
  ASSUME NEW x \in Fp
  PROVE  x \in Int /\ x % P = x
  BY SharesAssumption DEF Fp

\* It makes no difference whether an operand is reduced first.
LEMMA ModSum ==
  ASSUME NEW x \in Int, NEW y \in Int
  PROVE  /\ ((x % P) + y) % P = (x + y) % P /\ (x + (y % P)) % P = (x + y) % P
         /\ ((x % P) - y) % P = (x - y) % P /\ (x - (y % P)) % P = (x - y) % P
<1>1. P \in Int
  BY SharesAssumption
<1>2. PICK k \in Int : x % P = x + k * P
  BY Reduced
<1>3. PICK l \in Int : y % P = y + l * P
  BY Reduced
<1>4. (x + y + k * P) % P = (x + y) % P /\ (x + y + l * P) % P = (x + y) % P
  BY Residue
<1>5. (x - y + k * P) % P = (x - y) % P /\ (x - y + (-l) * P) % P = (x - y) % P
  BY Residue
<1>6. /\ (x % P) + y = x + y + k * P /\ x + (y % P) = x + y + l * P
      /\ (x % P) - y = x - y + k * P /\ x - (y % P) = x - y + (-l) * P
  BY <1>1, <1>2, <1>3
<1>7. QED
  BY <1>4, <1>5, <1>6

LEMMA ModProduct ==
  ASSUME NEW x \in Int, NEW y \in Int
  PROVE  ((x % P) * y) % P = (x * y) % P /\ (x * (y % P)) % P = (x * y) % P
<1>1. P \in Int
  BY SharesAssumption
<1>2. PICK k \in Int : x % P = x + k * P
  BY Reduced
<1>3. PICK l \in Int : y % P = y + l * P
  BY Reduced
<1>4. k * y \in Int /\ x * l \in Int /\ x * y \in Int
  OBVIOUS
<1>5. (x % P) * y = x * y + (k * y) * P /\ x * (y % P) = x * y + (x * l) * P
  BY <1>1, <1>2, <1>3
<1>6. QED
  BY <1>4, <1>5, Residue

\* The field operations yield elements of the field.
LEMMA Closed ==
  ASSUME NEW x \in Int, NEW y \in Int
  PROVE  Add(x, y) \in Fp /\ Sub(x, y) \in Fp /\ Mul(x, y) \in Fp
<1>1. x + y \in Int /\ x - y \in Int /\ x * y \in Int
  OBVIOUS
<1>2. QED
  BY <1>1, Reduced DEF Add, Sub, Mul

\* The laws of the field that sums and openings are moved by.
LEMMA AddLaws ==
  ASSUME NEW w \in Fp, NEW x \in Fp, NEW y \in Fp, NEW z \in Fp
  PROVE  /\ Add(x, 0) = x /\ Add(0, x) = x /\ Sub(x, 0) = x /\ Sub(x, x) = 0
         /\ Add(w, x) = Add(x, w) /\ Add(w, Sub(x, w)) = x /\ Add(Sub(x, w), w) = x
         /\ Add(Add(w, x), Add(y, z)) = Add(Add(w, y), Add(x, z))
         /\ Add(Sub(w, x), Sub(y, z)) = Sub(Add(w, y), Add(x, z))
<1>1. w \in Int /\ x \in Int /\ y \in Int /\ z \in Int /\ w % P = w /\ x % P = x
  BY InFp
<1>2. x - w \in Int
  BY <1>1
<1>3. Add(x, 0) = x /\ Add(0, x) = x /\ Sub(x, 0) = x
  <2>1. x + 0 = x /\ 0 + x = x /\ x - 0 = x
    BY <1>1
  <2>2. QED
    BY <1>1, <2>1 DEF Add, Sub
<1>4. Sub(x, x) = 0
  <2>1. x - x = 0 /\ 0 % P = 0
    BY <1>1, SharesAssumption
  <2>2. QED
    BY <2>1 DEF Sub
<1>5. Add(w, x) = Add(x, w)
  BY <1>1 DEF Add
<1>6. Add(w, Sub(x, w)) = x /\ Add(Sub(x, w), w) = x
  <2>1. (w + ((x - w) % P)) % P = (w + (x - w)) % P
    BY <1>1, <1>2, ModSum
  <2>2. (((x - w) % P) + w) % P = ((x - w) + w) % P
    BY <1>1, <1>2, ModSum
  <2>3. w + (x - w) = x /\ (x - w) + w = x
    BY <1>1
  <2>4. QED
    BY <1>1, <2>1, <2>2, <2>3 DEF Add, Sub
<1>7. \A a, b, c, d \in Int : Add(Add(a, b), Add(c, d)) = (a + b + c + d) % P
  <2> TAKE a, b, c, d \in Int
  <2>1. a + b \in Int /\ c + d \in Int /\ (a + b) % P \in Int
    BY Reduced
  <2>2. (((a + b) % P) + ((c + d) % P)) % P = (((a + b) % P) + (c + d)) % P
    BY <2>1, ModSum
  <2>3. (((a + b) % P) + (c + d)) % P = ((a + b) + (c + d)) % P
    BY <2>1, ModSum
  <2>4. (a + b) + (c + d) = a + b + c + d
    OBVIOUS
  <2>5. QED
    BY <2>2, <2>3, <2>4 DEF Add
<1>8. Add(Add(w, x), Add(y, z)) = Add(Add(w, y), Add(x, z))
  <2>1. w + x + y + z = w + y + x + z
    BY <1>1
  <2>2. QED
    BY <1>1, <1>7, <2>1
<1>9. Add(Sub(w, x), Sub(y, z)) = Sub(Add(w, y), Add(x, z))
  <2> DEFINE a == w - x
             b == y - z
             c == w + y
             d == x + z
  <2>1. a \in Int /\ b \in Int /\ c \in Int /\ d \in Int /\ a % P \in Int /\ c % P \in Int
    BY <1>1, Reduced
  <2>2. a + b = c - d
    BY <1>1
  <2> HIDE DEF a, b, c, d
  <2>3. ((a % P) + (b % P)) % P = ((a % P) + b) % P
    BY <2>1, ModSum
  <2>4. ((a % P) + b) % P = (a + b) % P
    BY <2>1, ModSum
  <2>5. ((c % P) - (d % P)) % P = ((c % P) - d) % P
    BY <2>1, ModSum
  <2>6. ((c % P) - d) % P = (c - d) % P
    BY <2>1, ModSum
  <2>7. ((a % P) + (b % P)) % P = ((c % P) - (d % P)) % P
    BY <2>2, <2>3, <2>4, <2>5, <2>6
  <2>8. QED
    BY <2>7 DEF Add, Sub, a, b, c, d
<1>10. QED
  BY <1>3, <1>4, <1>5, <1>6, <1>8, <1>9

\* Multiplication distributes over addition and subtraction.
LEMMA MulLaws ==
  ASSUME NEW x \in Fp, NEW y \in Fp, NEW z \in Fp
  PROVE  /\ Add(Mul(x, z), Mul(y, z)) = Mul(Add(x, y), z)
         /\ Sub(Mul(x, z), Mul(y, z)) = Mul(Sub(x, y), z)
         /\ Mul(0, z) = 0 /\ Mul(z, 0) = 0 /\ Mul(x, z) = Mul(z, x)
         /\ Mul(Mul(x, y), z) = Mul(Mul(x, z), y)
<1>1. x \in Int /\ y \in Int /\ z \in Int
  BY InFp
<1> DEFINE a == x * z
           b == y * z
           s == x + y
           d == x - y
           c == x * y
<1>2. /\ a \in Int /\ b \in Int /\ s \in Int /\ d \in Int /\ c \in Int
      /\ a % P \in Int /\ s % P \in Int /\ d % P \in Int /\ c % P \in Int
  BY <1>1, Reduced
<1>3. a + b = s * z /\ a - b = d * z /\ c * z = a * y
  BY <1>1
<1>4. Mul(x, z) = Mul(z, x) /\ Mul(0, z) = 0 /\ Mul(z, 0) = 0
  <2>1. x * z = z * x /\ 0 * z = 0 /\ z * 0 = 0 /\ 0 % P = 0
    BY <1>1, SharesAssumption
  <2>2. QED
    BY <2>1 DEF Mul
<1> HIDE DEF a, b, c, d, s
<1>5. ((a % P) + (b % P)) % P = (a + b) % P /\ ((a % P) - (b % P)) % P = (a - b) % P
  <2>1. ((a % P) + (b % P)) % P = ((a % P) + b) % P /\ ((a % P) - (b % P)) % P = ((a % P) - b) % P
    BY <1>2, ModSum
  <2>2. ((a % P) + b) % P = (a + b) % P /\ ((a % P) - b) % P = (a - b) % P
    BY <1>2, ModSum
  <2>3. QED
    BY <2>1, <2>2
<1>6. /\ ((s % P) * z) % P = (s * z) % P /\ ((d % P) * z) % P = (d * z) % P
      /\ ((c % P) * z) % P = (c * z) % P /\ ((a % P) * y) % P = (a * y) % P
  BY <1>1, <1>2, ModProduct
<1>7. /\ ((a % P) + (b % P)) % P = ((s % P) * z) % P
      /\ ((a % P) - (b % P)) % P = ((d % P) * z) % P
      /\ ((c % P) * z) % P = ((a % P) * y) % P
  BY <1>3, <1>5, <1>6
<1>8. QED
  BY <1>4, <1>7 DEF Add, Sub, Mul, a, b, c, d, s

-----------------------------------------------------------------------------
(* Sums.                                                                   *)

\* s[i] is the sum of f[0] to f[i - 1], for every i up to n.
Sums(s, f, n) == s = [i \in 0 .. n |-> IF i = 0 THEN 0 ELSE Add(s[i - 1], f[i - 1])]

LEMMA TotalOfSums ==
  ASSUME NEW f, NEW n
  PROVE  Total(f, n) = (CHOOSE s : Sums(s, f, n))[n]
  BY DEF Total, Sums

LEMMA SumsExist ==
  ASSUME NEW f, NEW n \in Nat
  PROVE  \E s : Sums(s, f, n)
<1> DEFINE S == {k \in Nat : \E s : Sums(s, f, k)}
<1>1. 0 \in S
  <2>1. Sums([i \in 0 .. 0 |-> 0], f, 0)
    BY DEF Sums
  <2>2. QED
    BY <2>1
<1>2. ASSUME NEW k \in Nat, k \in S PROVE k + 1 \in S
  <2>1. PICK s : Sums(s, f, k)
    BY <1>2
  <2> DEFINE t == [i \in 0 .. k + 1 |-> IF i = k + 1 THEN Add(s[k], f[k]) ELSE s[i]]
  <2>2. s = [i \in 0 .. k |-> IF i = 0 THEN 0 ELSE Add(s[i - 1], f[i - 1])]
    BY <2>1 DEF Sums
  <2>3. \A i \in 0 .. k : t[i] = s[i]
    OBVIOUS
  <2>4. \A i \in 0 .. k + 1 : t[i] = IF i = 0 THEN 0 ELSE Add(t[i - 1], f[i - 1])
    <3> TAKE i \in 0 .. k + 1
    <3>1. CASE i = 0
      BY <2>2, <2>3, <3>1
    <3>2. CASE i = k + 1
      <4>1. i - 1 = k /\ t[k] = s[k] /\ t[i] = Add(s[k], f[k])
        BY <2>3, <3>2
      <4>2. QED
        BY <3>2, <4>1
    <3>3. CASE i \in 1 .. k
      <4>1. i - 1 \in 0 .. k /\ i \in 0 .. k /\ t[i] = s[i] /\ t[i - 1] = s[i - 1]
        BY <2>3, <3>3
      <4>2. s[i] = Add(s[i - 1], f[i - 1])
        BY <2>2, <3>3, <4>1
      <4>3. QED
        BY <3>3, <4>1, <4>2
    <3>4. QED
      BY <3>1, <3>2, <3>3
  <2>5. Sums(t, f, k + 1)
    BY <2>4 DEF Sums
  <2>6. QED
    BY <2>5
<1> HIDE DEF S
<1>3. n \in S
  BY <1>1, <1>2, InductionOnSet
<1>4. QED
  BY <1>3 DEF S

\* What is added up like the sum is the sum.
LEMMA TotalIs ==
  ASSUME NEW f, NEW n \in Nat, NEW g,
         g[0] = 0, \A i \in 0 .. n - 1 : g[i + 1] = Add(g[i], f[i])
  PROVE  Total(f, n) = g[n]
<1>1. PICK s : s = (CHOOSE t : Sums(t, f, n))
  OBVIOUS
<1>2. Sums(s, f, n)
  BY <1>1, SumsExist
<1> DEFINE S == {k \in Nat : k <= n => s[k] = g[k]}
<1>3. 0 \in S
  BY <1>2 DEF Sums
<1>4. ASSUME NEW k \in Nat, k \in S PROVE k + 1 \in S
  <2>1. SUFFICES ASSUME k + 1 <= n PROVE s[k + 1] = g[k + 1]
    OBVIOUS
  <2>2. k + 1 \in 0 .. n /\ k + 1 # 0 /\ k + 1 - 1 = k /\ k \in 0 .. n - 1
    BY <2>1
  <2>3. s[k + 1] = Add(s[k], f[k])
    BY <1>2, <2>2 DEF Sums
  <2>4. s[k] = g[k]
    BY <1>4, <2>1
  <2>5. QED
    BY <2>2, <2>3, <2>4
<1> HIDE DEF S
<1>5. n \in S
  BY <1>3, <1>4, InductionOnSet
<1>6. QED
  BY <1>1, <1>5, TotalOfSums DEF S

\* A sum is made of the sum of all but the last and the last.
LEMMA TotalUnfolds ==
  ASSUME NEW f, NEW n \in Nat
  PROVE  Total(f, 0) = 0 /\ Total(f, n + 1) = Add(Total(f, n), f[n])
<1>1. PICK s : Sums(s, f, n + 1)
  BY SumsExist
<1>2. s[0] = 0
  BY <1>1 DEF Sums
<1>3. \A i \in 0 .. n : s[i + 1] = Add(s[i], f[i])
  <2> TAKE i \in 0 .. n
  <2>1. i + 1 \in 0 .. n + 1 /\ i + 1 # 0 /\ i + 1 - 1 = i
    OBVIOUS
  <2>2. QED
    BY <1>1, <2>1 DEF Sums
<1>4. Total(f, 0) = s[0]
  BY <1>2, TotalIs
<1>5. Total(f, n) = s[n]
  BY <1>2, <1>3, TotalIs
<1>6. Total(f, n + 1) = s[n + 1]
  BY <1>2, <1>3, TotalIs
<1>7. QED
  BY <1>2, <1>3, <1>4, <1>5, <1>6

\* A sum of elements of the field is one, and depends on nothing else.
LEMMA TotalType ==
  ASSUME NEW n \in Nat, NEW f, \A i \in 0 .. n - 1 : f[i] \in Fp
  PROVE  Total(f, n) \in Fp
<1> DEFINE S == {k \in Nat : k <= n => Total(f, k) \in Fp}
<1>1. 0 \in S
  BY TotalUnfolds, SharesAssumption DEF Fp
<1>2. ASSUME NEW k \in Nat, k \in S PROVE k + 1 \in S
  <2>1. SUFFICES ASSUME k + 1 <= n PROVE Total(f, k + 1) \in Fp
    OBVIOUS
  <2>2. Total(f, k) \in Fp /\ f[k] \in Fp
    BY <1>2, <2>1
  <2>3. QED
    BY <2>2, InFp, Closed, TotalUnfolds
<1> HIDE DEF S
<1>3. n \in S
  BY <1>1, <1>2, InductionOnSet
<1>4. QED
  BY <1>3 DEF S

LEMMA TotalSame ==
  ASSUME NEW n \in Nat, NEW f, NEW g, \A i \in 0 .. n - 1 : f[i] = g[i]
  PROVE  Total(f, n) = Total(g, n)
<1>1. PICK s : Sums(s, f, n)
  BY SumsExist
<1>2. s[0] = 0
  BY <1>1 DEF Sums
<1>3. \A i \in 0 .. n - 1 : s[i + 1] = Add(s[i], f[i])
  <2> TAKE i \in 0 .. n - 1
  <2>1. i + 1 \in 0 .. n /\ i + 1 # 0 /\ i + 1 - 1 = i
    OBVIOUS
  <2>2. QED
    BY <1>1, <2>1 DEF Sums
<1>4. Total(f, n) = s[n]
  BY <1>2, <1>3, TotalIs
<1>5. Total(g, n) = s[n]
  BY <1>2, <1>3, TotalIs
<1>6. QED
  BY <1>4, <1>5

\* The sum of what is added, and subtracted, party by party.
LEMMA TotalAdd ==
  ASSUME NEW n \in Nat, NEW f, NEW g, NEW h,
         \A i \in 0 .. n - 1 : f[i] \in Fp /\ g[i] \in Fp /\ h[i] = Add(f[i], g[i])
  PROVE  Total(h, n) = Add(Total(f, n), Total(g, n))
<1> DEFINE t == [i \in 0 .. n |-> Add(Total(f, i), Total(g, i))]
<1>1. \A i \in 0 .. n : Total(f, i) \in Fp /\ Total(g, i) \in Fp
  <2> TAKE i \in 0 .. n
  <2>1. i \in Nat /\ \A j \in 0 .. i - 1 : j \in 0 .. n - 1
    OBVIOUS
  <2>2. QED
    BY <2>1, TotalType
<1>2. t[0] = 0
  <2>1. 0 \in Fp
    BY SharesAssumption DEF Fp
  <2>2. QED
    BY <2>1, AddLaws, TotalUnfolds
<1>3. \A i \in 0 .. n - 1 : t[i + 1] = Add(t[i], h[i])
  <2> TAKE i \in 0 .. n - 1
  <2>1. i \in Nat /\ i \in 0 .. n /\ i + 1 \in 0 .. n
    OBVIOUS
  <2>2. Total(f, i + 1) = Add(Total(f, i), f[i]) /\ Total(g, i + 1) = Add(Total(g, i), g[i])
    BY <2>1, TotalUnfolds
  <2>3. /\ Total(f, i) \in Fp /\ Total(g, i) \in Fp /\ f[i] \in Fp /\ g[i] \in Fp
        /\ h[i] = Add(f[i], g[i])
    BY <1>1, <2>1
  <2>4. Add(Add(Total(f, i), f[i]), Add(Total(g, i), g[i]))
          = Add(Add(Total(f, i), Total(g, i)), Add(f[i], g[i]))
    BY <2>3, AddLaws
  <2>5. QED
    BY <2>1, <2>2, <2>3, <2>4
<1>4. Total(h, n) = t[n]
  <2> HIDE DEF t
  <2> QED
    BY <1>2, <1>3, TotalIs
<1>5. QED
  BY <1>4

\* (unauth_combine is linear: test_unauth_sharing.)
LEMMA TotalSub ==
  ASSUME NEW n \in Nat, NEW f, NEW g, NEW h,
         \A i \in 0 .. n - 1 : f[i] \in Fp /\ g[i] \in Fp /\ h[i] = Sub(f[i], g[i])
  PROVE  Total(h, n) = Sub(Total(f, n), Total(g, n))
<1> DEFINE t == [i \in 0 .. n |-> Sub(Total(f, i), Total(g, i))]
<1>1. \A i \in 0 .. n : Total(f, i) \in Fp /\ Total(g, i) \in Fp
  <2> TAKE i \in 0 .. n
  <2>1. i \in Nat /\ \A j \in 0 .. i - 1 : j \in 0 .. n - 1
    OBVIOUS
  <2>2. QED
    BY <2>1, TotalType
<1>2. t[0] = 0
  <2>1. 0 \in Fp
    BY SharesAssumption DEF Fp
  <2>2. QED
    BY <2>1, AddLaws, TotalUnfolds
<1>3. \A i \in 0 .. n - 1 : t[i + 1] = Add(t[i], h[i])
  <2> TAKE i \in 0 .. n - 1
  <2>1. i \in Nat /\ i \in 0 .. n /\ i + 1 \in 0 .. n
    OBVIOUS
  <2>2. Total(f, i + 1) = Add(Total(f, i), f[i]) /\ Total(g, i + 1) = Add(Total(g, i), g[i])
    BY <2>1, TotalUnfolds
  <2>3. /\ Total(f, i) \in Fp /\ Total(g, i) \in Fp /\ f[i] \in Fp /\ g[i] \in Fp
        /\ h[i] = Sub(f[i], g[i])
    BY <1>1, <2>1
  <2>4. Sub(Add(Total(f, i), f[i]), Add(Total(g, i), g[i]))
          = Add(Sub(Total(f, i), Total(g, i)), Sub(f[i], g[i]))
    BY <2>3, AddLaws
  <2>5. QED
    BY <2>1, <2>2, <2>3, <2>4
<1>4. Total(h, n) = t[n]
  <2> HIDE DEF t
  <2> QED
    BY <1>2, <1>3, TotalIs
<1>5. QED
  BY <1>4

\* The sum of what is multiplied, party by party, by the same value.
LEMMA TotalMul ==
  ASSUME NEW n \in Nat, NEW f, NEW h, NEW x \in Fp,
         \A i \in 0 .. n - 1 : f[i] \in Fp /\ h[i] = Mul(f[i], x)
  PROVE  Total(h, n) = Mul(Total(f, n), x)
<1> DEFINE t == [i \in 0 .. n |-> Mul(Total(f, i), x)]
<1>1. t[0] = 0
  BY MulLaws, TotalUnfolds
<1>2. \A i \in 0 .. n - 1 : t[i + 1] = Add(t[i], h[i])
  <2> TAKE i \in 0 .. n - 1
  <2>1. i \in Nat /\ i \in 0 .. n /\ i + 1 \in 0 .. n /\ \A j \in 0 .. i - 1 : j \in 0 .. n - 1
    OBVIOUS
  <2>2. Total(f, i) \in Fp /\ f[i] \in Fp /\ h[i] = Mul(f[i], x)
    BY <2>1, TotalType
  <2>3. Total(f, i + 1) = Add(Total(f, i), f[i])
    BY <2>1, TotalUnfolds
  <2>4. Mul(Add(Total(f, i), f[i]), x) = Add(Mul(Total(f, i), x), Mul(f[i], x))
    BY <2>2, MulLaws
  <2>5. QED
    BY <2>1, <2>2, <2>3, <2>4
<1>3. Total(h, n) = t[n]
  <2> HIDE DEF t
  <2> QED
    BY <1>1, <1>2, TotalIs
<1>4. QED
  BY <1>3

\* What one party has and the others do not.
LEMMA TotalOne ==
  ASSUME NEW n \in Nat, NEW q \in 0 .. n - 1, NEW x \in Fp, NEW h,
         \A i \in 0 .. n - 1 : h[i] = IF i = q THEN x ELSE 0
  PROVE  Total(h, n) = x
<1> DEFINE t == [i \in 0 .. n |-> IF q < i THEN x ELSE 0]
<1>1. t[0] = 0
  OBVIOUS
<1>2. \A i \in 0 .. n - 1 : t[i + 1] = Add(t[i], h[i])
  <2> TAKE i \in 0 .. n - 1
  <2>1. 0 \in Fp /\ Add(x, 0) = x /\ Add(0, x) = x /\ Add(0, 0) = 0
    BY SharesAssumption, AddLaws DEF Fp
  <2>2. CASE q < i
    BY <2>1, <2>2
  <2>3. CASE q = i
    BY <2>1, <2>3
  <2>4. CASE i < q
    BY <2>1, <2>4
  <2>5. QED
    BY <2>2, <2>3, <2>4
<1>3. Total(h, n) = t[n]
  <2> HIDE DEF t
  <2> QED
    BY <1>1, <1>2, TotalIs
<1>4. QED
  BY <1>3

-----------------------------------------------------------------------------
(* Sharings.                                                               *)

\* The parties hold, with the shares of the MAC key that they have, shares of
\* x and of its MAC.
Sharing(v, x, key) ==
  /\ x \in Fp /\ v \in [Party -> Share]
  /\ UnauthCombine([p \in Party |-> v[p].share]) = x
  /\ UnauthCombine([p \in Party |-> v[p].mac]) = Mul(x, UnauthCombine(key))

LEMMA Parties == N \in Nat /\ N # 0 /\ Party = 0 .. N - 1
  BY SharesAssumption DEF Party

LEMMA CombineType ==
  ASSUME NEW f \in [Party -> Fp]
  PROVE  UnauthCombine(f) \in Fp
  BY Parties, TotalType DEF UnauthCombine

\* unauth_share yields shares of the value.
LEMMA UnauthShareIs ==
  ASSUME job.masks \subseteq Fp, NEW x \in Fp, NEW xs \in UnauthShare(x)
  PROVE  xs \in [Party -> Fp] /\ UnauthCombine(xs) = x
<1>1. PICK m \in [0 .. N - 2 -> job.masks] :
        xs = [p \in Party |-> IF p < N - 1 THEN m[p] ELSE Sub(x, Total(m, N - 1))]
  BY DEF UnauthShare
<1>2. N - 1 \in Nat /\ N - 1 \in Party /\ N - 1 + 1 = N /\ ~(N - 1 < N - 1)
  BY Parties
<1>3. \A i \in 0 .. N - 1 - 1 : xs[i] = m[i] /\ m[i] \in Fp
  BY <1>1, Parties
<1>4. Total(m, N - 1) \in Fp /\ Total(xs, N - 1) = Total(m, N - 1)
  BY <1>2, <1>3, TotalType, TotalSame
<1>5. xs[N - 1] = Sub(x, Total(m, N - 1)) /\ xs[N - 1] \in Fp
  BY <1>1, <1>2, <1>4, InFp, Closed
<1>6. Total(xs, N) = Add(Total(xs, N - 1), xs[N - 1])
  BY <1>2, TotalUnfolds
<1>7. UnauthCombine(xs) = x
  BY <1>4, <1>5, <1>6, AddLaws DEF UnauthCombine
<1>8. \A p \in Party : xs[p] \in Fp
  <2> TAKE p \in Party
  <2>1. CASE p < N - 1
    BY <1>3, <2>1, Parties
  <2>2. CASE ~(p < N - 1)
    BY <1>2, <1>5, <2>2, Parties
  <2>3. QED
    BY <2>1, <2>2
<1>9. xs = [p \in Party |-> xs[p]]
  BY <1>1
<1>10. QED
  BY <1>7, <1>8, <1>9

\* auth_share yields a sharing of the value.
LEMMA AuthShareIs ==
  ASSUME job.masks \subseteq Fp, alpha \in [Party -> Fp],
         NEW x \in Fp, NEW v \in AuthShare(x)
  PROVE  Sharing(v, x, alpha)
<1>1. Alpha \in Fp /\ Mul(x, Alpha) \in Fp
  BY CombineType, InFp, Closed DEF Alpha
<1>2. PICK xs \in UnauthShare(x), ms \in UnauthShare(Mul(x, Alpha)) :
        v = [p \in Party |-> [share |-> xs[p], mac |-> ms[p]]]
  BY DEF AuthShare
<1>3. xs \in [Party -> Fp] /\ UnauthCombine(xs) = x
  BY UnauthShareIs
<1>4. ms \in [Party -> Fp] /\ UnauthCombine(ms) = Mul(x, Alpha)
  BY <1>1, UnauthShareIs
<1>5. [p \in Party |-> v[p].share] = xs /\ [p \in Party |-> v[p].mac] = ms
  BY <1>2, <1>3, <1>4
<1>6. v \in [Party -> Share]
  BY <1>2, <1>3, <1>4 DEF Share
<1>7. QED
  BY <1>3, <1>4, <1>5, <1>6 DEF Sharing, Alpha

LEMMA SharingParts ==
  ASSUME NEW v, NEW x, NEW key, Sharing(v, x, key), NEW p \in Party
  PROVE  v[p] \in Share /\ v[p].share \in Fp /\ v[p].mac \in Fp
  BY DEF Sharing, Share

\* The sum of two sharings is a sharing of the sum.
LEMMA PlusShares ==
  ASSUME NEW v, NEW w, NEW x, NEW y, NEW key \in [Party -> Fp],
         Sharing(v, x, key), Sharing(w, y, key)
  PROVE  Sharing([p \in Party |-> Plus(v[p], w[p])], Add(x, y), key)
<1> DEFINE u == [p \in Party |-> Plus(v[p], w[p])]
           k == UnauthCombine(key)
           vs == [p \in Party |-> v[p].share]
           ws == [p \in Party |-> w[p].share]
           us == [p \in Party |-> u[p].share]
           vm == [p \in Party |-> v[p].mac]
           wm == [p \in Party |-> w[p].mac]
           um == [p \in Party |-> u[p].mac]
<1>1. x \in Fp /\ y \in Fp /\ k \in Fp
  BY CombineType DEF Sharing
<1>2. \A p \in Party :
        /\ vs[p] \in Fp /\ ws[p] \in Fp /\ us[p] = Add(vs[p], ws[p])
        /\ vm[p] \in Fp /\ wm[p] \in Fp /\ um[p] = Add(vm[p], wm[p])
  BY SharingParts DEF Plus
<1>3. u \in [Party -> Share]
  <2>1. \A p \in Party : Plus(v[p], w[p]) \in Share
    BY SharingParts, InFp, Closed DEF Plus, Share
  <2>2. QED
    BY <2>1
<1>4. /\ UnauthCombine(vs) = x /\ UnauthCombine(vm) = Mul(x, k)
      /\ UnauthCombine(ws) = y /\ UnauthCombine(wm) = Mul(y, k)
  BY DEF Sharing
<1> HIDE DEF u, k, vs, ws, us, vm, wm, um
<1>5. /\ UnauthCombine(us) = Add(UnauthCombine(vs), UnauthCombine(ws))
      /\ UnauthCombine(um) = Add(UnauthCombine(vm), UnauthCombine(wm))
  BY <1>2, Parties, TotalAdd DEF UnauthCombine
<1>6. Add(Mul(x, k), Mul(y, k)) = Mul(Add(x, y), k)
  BY <1>1, MulLaws
<1>7. Add(x, y) \in Fp
  BY <1>1, InFp, Closed
<1>8. QED
  BY <1>3, <1>4, <1>5, <1>6, <1>7 DEF Sharing, u, us, um, k

\* The difference of two sharings is a sharing of the difference.
LEMMA MinusShares ==
  ASSUME NEW v, NEW w, NEW x, NEW y, NEW key \in [Party -> Fp],
         Sharing(v, x, key), Sharing(w, y, key)
  PROVE  Sharing([p \in Party |-> Minus(v[p], w[p])], Sub(x, y), key)
<1> DEFINE u == [p \in Party |-> Minus(v[p], w[p])]
           k == UnauthCombine(key)
           vs == [p \in Party |-> v[p].share]
           ws == [p \in Party |-> w[p].share]
           us == [p \in Party |-> u[p].share]
           vm == [p \in Party |-> v[p].mac]
           wm == [p \in Party |-> w[p].mac]
           um == [p \in Party |-> u[p].mac]
<1>1. x \in Fp /\ y \in Fp /\ k \in Fp
  BY CombineType DEF Sharing
<1>2. \A p \in Party :
        /\ vs[p] \in Fp /\ ws[p] \in Fp /\ us[p] = Sub(vs[p], ws[p])
        /\ vm[p] \in Fp /\ wm[p] \in Fp /\ um[p] = Sub(vm[p], wm[p])
  BY SharingParts DEF Minus
<1>3. u \in [Party -> Share]
  <2>1. \A p \in Party : Minus(v[p], w[p]) \in Share
    BY SharingParts, InFp, Closed DEF Minus, Share
  <2>2. QED
    BY <2>1
<1>4. /\ UnauthCombine(vs) = x /\ UnauthCombine(vm) = Mul(x, k)
      /\ UnauthCombine(ws) = y /\ UnauthCombine(wm) = Mul(y, k)
  BY DEF Sharing
<1> HIDE DEF u, k, vs, ws, us, vm, wm, um
<1>5. /\ UnauthCombine(us) = Sub(UnauthCombine(vs), UnauthCombine(ws))
      /\ UnauthCombine(um) = Sub(UnauthCombine(vm), UnauthCombine(wm))
  BY <1>2, Parties, TotalSub DEF UnauthCombine
<1>6. Sub(Mul(x, k), Mul(y, k)) = Mul(Sub(x, y), k)
  BY <1>1, MulLaws
<1>7. Sub(x, y) \in Fp
  BY <1>1, InFp, Closed
<1>8. QED
  BY <1>3, <1>4, <1>5, <1>6, <1>7 DEF Sharing, u, us, um, k

\* mul_clear: a sharing times a public value.
LEMMA MulClearShares ==
  ASSUME NEW v, NEW x, NEW y \in Fp, NEW key \in [Party -> Fp], Sharing(v, x, key)
  PROVE  Sharing([p \in Party |-> MulClear(v[p], y)], Mul(x, y), key)
<1> DEFINE u == [p \in Party |-> MulClear(v[p], y)]
           k == UnauthCombine(key)
           vs == [p \in Party |-> v[p].share]
           us == [p \in Party |-> u[p].share]
           vm == [p \in Party |-> v[p].mac]
           um == [p \in Party |-> u[p].mac]
<1>1. x \in Fp /\ k \in Fp
  BY CombineType DEF Sharing
<1>2. \A p \in Party :
        /\ vs[p] \in Fp /\ us[p] = Mul(vs[p], y)
        /\ vm[p] \in Fp /\ um[p] = Mul(vm[p], y)
  BY SharingParts DEF MulClear
<1>3. u \in [Party -> Share]
  <2>1. \A p \in Party : MulClear(v[p], y) \in Share
    BY SharingParts, InFp, Closed DEF MulClear, Share
  <2>2. QED
    BY <2>1
<1>4. UnauthCombine(vs) = x /\ UnauthCombine(vm) = Mul(x, k)
  BY DEF Sharing
<1> HIDE DEF u, k, vs, us, vm, um
<1>5. /\ UnauthCombine(us) = Mul(UnauthCombine(vs), y)
      /\ UnauthCombine(um) = Mul(UnauthCombine(vm), y)
  BY <1>2, Parties, TotalMul DEF UnauthCombine
<1>6. Mul(Mul(x, k), y) = Mul(Mul(x, y), k)
  BY <1>1, MulLaws
<1>7. Mul(x, y) \in Fp
  BY <1>1, InFp, Closed
<1>8. QED
  BY <1>3, <1>4, <1>5, <1>6, <1>7 DEF Sharing, u, us, um, k

\* add_clear: a sharing plus a public value, if one party updates its share.
LEMMA AddClearShares ==
  ASSUME NEW v, NEW x, NEW y \in Fp, NEW key \in [Party -> Fp], Sharing(v, x, key),
         NEW q \in Party
  PROVE  Sharing([p \in Party |-> AddClear(v[p], y, key[p], p = q)], Add(x, y), key)
<1> DEFINE u == [p \in Party |-> AddClear(v[p], y, key[p], p = q)]
           k == UnauthCombine(key)
           d == [p \in Party |-> IF p = q THEN y ELSE 0]
           e == [p \in Party |-> Mul(key[p], y)]
           vs == [p \in Party |-> v[p].share]
           us == [p \in Party |-> u[p].share]
           vm == [p \in Party |-> v[p].mac]
           um == [p \in Party |-> u[p].mac]
<1>1. x \in Fp /\ k \in Fp /\ 0 \in Fp
  BY CombineType, SharesAssumption DEF Sharing, Fp
<1>2. \A p \in Party :
        /\ vs[p] \in Fp /\ vm[p] \in Fp /\ d[p] \in Fp /\ e[p] \in Fp
        /\ us[p] = IF p = q THEN Add(vs[p], y) ELSE vs[p]
        /\ um[p] = Add(vm[p], e[p])
  BY <1>1, SharingParts, InFp, Closed DEF AddClear
<1>3. \A p \in Party : d[p] = IF p = q THEN y ELSE 0
  OBVIOUS
<1>4. /\ \A p \in Party : u[p] = [share |-> us[p], mac |-> um[p]]
      /\ u = [p \in Party |-> u[p]]
  BY DEF AddClear
<1>5. UnauthCombine(vs) = x /\ UnauthCombine(vm) = Mul(x, k)
  BY DEF Sharing
<1>6. \A p \in Party : key[p] \in Fp /\ e[p] = Mul(key[p], y)
  OBVIOUS
<1> HIDE DEF u, d, e, vs, us, vm, um
<1>7. \A p \in Party : us[p] = Add(vs[p], d[p])
  <2> TAKE p \in Party
  <2>1. vs[p] \in Fp /\ Add(vs[p], 0) = vs[p]
    <3>1. vs[p] \in Fp /\ 0 \in Fp
      BY <1>1, <1>2
    <3>2. QED
      BY <3>1, AddLaws
  <2>2. CASE p = q
    <3>1. us[p] = Add(vs[p], y) /\ d[p] = y
      BY <1>2, <1>3, <2>2
    <3>2. QED
      BY <3>1
  <2>3. CASE p # q
    <3>1. us[p] = vs[p] /\ d[p] = 0
      BY <1>2, <1>3, <2>3
    <3>2. QED
      BY <2>1, <3>1
  <2>4. QED
    BY <2>2, <2>3
<1>8. UnauthCombine(d) = y /\ UnauthCombine(e) = Mul(k, y)
  <2>1. UnauthCombine(d) = y
    BY <1>3, Parties, TotalOne DEF UnauthCombine
  <2>2. UnauthCombine(e) = Mul(k, y)
    BY <1>6, Parties, TotalMul DEF UnauthCombine
  <2>3. QED
    BY <2>1, <2>2
<1> HIDE DEF k
<1>9. /\ UnauthCombine(us) = Add(UnauthCombine(vs), UnauthCombine(d))
      /\ UnauthCombine(um) = Add(UnauthCombine(vm), UnauthCombine(e))
  BY <1>2, <1>7, Parties, TotalAdd DEF UnauthCombine
<1>10. Add(Mul(x, k), Mul(k, y)) = Mul(Add(x, y), k)
  BY <1>1, MulLaws
<1>11. Add(x, y) \in Fp
  BY <1>1, InFp, Closed
<1>12. u \in [Party -> Share]
  <2>1. ASSUME NEW p \in Party PROVE us[p] \in Fp /\ um[p] \in Fp
    <3>1. vs[p] \in Int /\ y \in Int /\ vm[p] \in Int /\ e[p] \in Int /\ vs[p] \in Fp
      BY <1>2, InFp
    <3>2. Add(vs[p], y) \in Fp /\ Add(vm[p], e[p]) \in Fp
      BY <3>1, Closed
    <3>3. QED
      BY <1>2, <3>1, <3>2
  <2>2. \A p \in Party : u[p] \in Share
    BY <1>4, <2>1 DEF Share
  <2>3. QED
    BY <1>4, <2>2
<1>13. QED
  BY <1>5, <1>8, <1>9, <1>10, <1>11, <1>12 DEF Sharing, u, us, um, k

\* mac_check of a sharing of x: the ds add up to zero for y if y is x or the MAC
\* key is zero, and for no other y.
LEMMA CheckOfSharing ==
  ASSUME alpha \in [Party -> Fp], NEW v, NEW x, Sharing(v, x, alpha), NEW y \in Fp
  PROVE  UnauthCombine([p \in Party |-> D(p, y, v[p])]) = 0 <=> y = x \/ Alpha = 0
<1> DEFINE ds == [p \in Party |-> D(p, y, v[p])]
           e == [p \in Party |-> Mul(alpha[p], y)]
           vm == [p \in Party |-> v[p].mac]
<1>1. x \in Fp /\ Alpha \in Fp /\ Sub(y, x) \in Fp /\ UnauthCombine(vm) = Mul(x, Alpha)
  BY CombineType, InFp, Closed DEF Sharing, Alpha
<1>2. \A p \in Party :
        alpha[p] \in Fp /\ e[p] = Mul(alpha[p], y) /\ e[p] \in Fp /\ vm[p] \in Fp /\ ds[p] = Sub(e[p], vm[p])
  BY SharingParts, InFp, Closed DEF D
<1> HIDE DEF ds, e, vm
<1>3. UnauthCombine(e) = Mul(Alpha, y)
  BY <1>2, Parties, TotalMul DEF UnauthCombine, Alpha
<1>4. UnauthCombine(ds) = Sub(Mul(Alpha, y), Mul(x, Alpha))
  BY <1>1, <1>2, <1>3, Parties, TotalSub DEF UnauthCombine
<1>5. Sub(Mul(Alpha, y), Mul(x, Alpha)) = Mul(Sub(y, x), Alpha)
  BY <1>1, MulLaws
<1>6. Mul(Sub(y, x), Alpha) = 0 <=> Sub(y, x) = 0 \/ Alpha = 0
  <2>1. Mul(0, Alpha) = 0 /\ Mul(Sub(y, x), 0) = 0
    BY <1>1, MulLaws
  <2>2. Mul(Sub(y, x), Alpha) = 0 => 0 \in {Sub(y, x), Alpha}
    BY <1>1, PrimeAssumption DEF Mul
  <2>3. QED
    BY <2>1, <2>2
<1>7. Sub(y, x) = 0 <=> y = x
  <2>1. Add(x, Sub(y, x)) = y /\ Add(x, 0) = x /\ Sub(x, x) = 0
    BY <1>1, AddLaws
  <2>2. QED
    BY <2>1
<1>8. QED
  BY <1>4, <1>5, <1>6, <1>7 DEF ds

-----------------------------------------------------------------------------
(* The invariant: types, no Stop before the instruction to execute, and    *)
(* sharings where a register stands for a value.                           *)

Types ==
  /\ job \in Jobs
  /\ alpha \in [Party -> Fp]
  /\ \A i \in 1 .. pc : job.code[i].op # "Stop"
  /\ TypeOK

Sharings == \A r \in Reg :
  Shared(r) => Sharing([p \in Party |-> secret[p][r]], plain[r], alpha)

SharesInv == Types /\ Sharings

\* The greatest instruction of a set.
LEMMA LastOf ==
  ASSUME NEW n \in Nat, NEW I \in SUBSET (1 .. n), I # {}
  PROVE  \E i \in I : \A j \in I : j <= i
<1> DEFINE T == {n - i : i \in I}
<1>1. T \subseteq Nat /\ T # {}
  <2>1. \A i \in I : n - i \in Nat
    OBVIOUS
  <2>2. PICK i \in I : TRUE
    OBVIOUS
  <2>3. n - i \in T
    OBVIOUS
  <2>4. QED
    BY <2>1, <2>3
<1>2. PICK x \in T : \A y \in T : x <= y
  <2> HIDE DEF T
  <2> QED
    BY <1>1, LeastNat
<1>3. PICK i \in I : x = n - i
  OBVIOUS
<1>4. \A j \in I : j <= i
  <2> TAKE j \in I
  <2>1. n - i <= n - j /\ i \in Nat /\ j \in Nat
    BY <1>2, <1>3
  <2>2. QED
    BY <2>1
<1>5. QED
  BY <1>4

\* from_prog fills registers with inputs only.
LEMMA FromProgType ==
  ASSUME NEW j \in Jobs, NEW p \in Party, NEW given \in [InputsOf(p, j.code) -> Fp]
  PROVE  FromProg(p, j.code, given) \in [Reg -> Fp \cup {None}]
<1> DEFINE for(r) == {i \in InputsOf(p, j.code) : j.code[i].a = r}
           last(r) == CHOOSE i \in for(r) : \A k \in for(r) : k <= i
<1>1. ASSUME NEW r \in Reg, for(r) # {} PROVE given[last(r)] \in Fp
  <2>1. Len(j.code) \in Nat /\ DOMAIN j.code = 1 .. Len(j.code)
    BY JobsAssumption
  <2>2. for(r) \in SUBSET (1 .. Len(j.code)) /\ for(r) \subseteq InputsOf(p, j.code)
    BY <2>1 DEF InputsOf
  <2>3. PICK i \in for(r) : \A k \in for(r) : k <= i
    <3> HIDE DEF for
    <3> QED
      BY <1>1, <2>1, <2>2, LastOf
  <2>4. last(r) \in for(r)
    BY <2>3
  <2>5. QED
    BY <2>2, <2>4
<1>2. FromProg(p, j.code, given) =
        [r \in Reg |-> IF for(r) = {} THEN None ELSE given[last(r)]]
  BY DEF FromProg
<1> HIDE DEF for, last
<1>3. QED
  BY <1>1, <1>2

LEMMA InputsType ==
  ASSUME Init, NEW p \in Party
  PROVE  inputs[p] \in [InputsOf(p, job.code) -> Fp]
<1>1. /\ inputs \in [Party -> UNION {[InputsOf(q, job.code) -> Fp] : q \in Party}]
      /\ \A q \in Party : DOMAIN inputs[q] = InputsOf(q, job.code)
  BY DEF Init
<1>2. PICK q \in Party : inputs[p] \in [InputsOf(q, job.code) -> Fp]
  BY <1>1
<1>3. InputsOf(q, job.code) = InputsOf(p, job.code)
  BY <1>1, <1>2
<1>4. QED
  BY <1>2, <1>3

LEMMA InitShares == Init => SharesInv
<1> SUFFICES ASSUME Init PROVE SharesInv
  OBVIOUS
<1>1. job \in Jobs /\ alpha \in [Party -> Fp] /\ pc = 0
  BY DEF Init
<1>2. \A p \in Party : inputs[p] \in [InputsOf(p, job.code) -> Fp]
  BY InputsType
<1>3. clear \in [Party -> [Reg -> Fp \cup {None}]]
  BY <1>1, <1>2, FromProgType DEF Init
<1>4. Len(job.code) \in Nat /\ Len(job.code) > 0
  BY <1>1, JobsAssumption
<1>5. TypeOK
  BY <1>1, <1>3, <1>4 DEF Init, TypeOK
<1>6. Sharings
  BY DEF Init, Sharings, Shared
<1>7. \A i \in 1 .. pc : job.code[i].op # "Stop"
  BY <1>1
<1>8. QED
  BY <1>1, <1>5, <1>6, <1>7 DEF SharesInv, Types

LEMMA InstType ==
  ASSUME Types
  PROVE  /\ Inst \in Instruction /\ Inst = job.code[pc + 1]
         /\ Inst.to \in Reg /\ Inst.a \in Reg /\ Inst.b \in Reg /\ Inst.id \in Party
         /\ pc \in Nat /\ pc + 1 \in DOMAIN job.code /\ DOMAIN job.code = 1 .. Len(job.code)
<1>1. job.code \in Seq(Instruction) /\ pc \in 0 .. Len(job.code) - 1
  BY JobsAssumption DEF Types, TypeOK
<1>2. pc + 1 \in 1 .. Len(job.code) /\ pc \in Nat
  BY <1>1
<1>3. Inst \in Instruction
  BY <1>1, <1>2 DEF Inst
<1>4. QED
  BY <1>1, <1>2, <1>3 DEF Inst, Instruction

\* Every instruction but Stop has another after it.
LEMMA Advances ==
  ASSUME Types, Inst.op # "Stop", Continue
  PROVE  /\ pc' \in 0 .. Len(job.code) - 1 /\ \A i \in 1 .. pc' : job.code[i].op # "Stop"
         /\ job' = job /\ alpha' = alpha /\ status' = status /\ pc' = pc + 1
<1>1. pc' = pc + 1 /\ job' = job /\ alpha' = alpha /\ status' = status
  BY DEF Continue
<1>2. PICK s \in DOMAIN job.code : job.code[s].op = "Stop"
  BY JobsAssumption DEF Types
<1>3. \A i \in 1 .. pc' : job.code[i].op # "Stop"
  <2> TAKE i \in 1 .. pc'
  <2>1. i \in 1 .. pc \/ i = pc + 1
    BY <1>1, InstType
  <2>2. QED
    BY <2>1, InstType DEF Types
<1>4. s \in Nat /\ s \in 1 .. Len(job.code) /\ Len(job.code) \in Nat /\ pc' \in Nat
  BY <1>1, InstType, JobsAssumption DEF Types
<1>5. ~(s <= pc')
  BY <1>2, <1>3, <1>4
<1>6. QED
  BY <1>1, <1>3, <1>4, <1>5

LEMMA NoneNotInFp == None \notin Fp /\ NoShare \notin Share /\ 0 \in Fp /\ None # 0
<1>1. None \notin Fp /\ 0 \in Fp /\ None # 0
  BY SharesAssumption DEF Fp, None
<1>2. QED
  BY <1>1 DEF NoShare, Share

\* What an instruction that is executed reads is there.
LEMMA ReadsClear ==
  ASSUME Types, NEW p \in Party, Has(p), NEW r \in Reg,
         r \in ClearOperands \/ (Inst.op = "Input" /\ p = Inst.id /\ r = Inst.a)
  PROVE  clear[p][r] \in Fp
  BY DEF Types, TypeOK, Has

LEMMA ReadsSecret ==
  ASSUME Types, NEW p \in Party, Has(p), NEW r \in SecretOperands, r \in Reg
  PROVE  secret[p][r] \in Share /\ secret[p][r].share \in Fp /\ secret[p][r].mac \in Fp
<1>1. secret[p][r] \in Share
  BY DEF Types, TypeOK, Has
<1>2. QED
  BY <1>1 DEF Share

\* A result in a clear register.
LEMMA ClearResult ==
  ASSUME Types, NEW value \in [Party -> Fp], ToClear(value)
  PROVE  /\ clear' \in [Party -> [Reg -> Fp \cup {None}]]
         /\ \A p \in Party : \A r \in Reg :
              clear'[p][r] = IF r = Inst.to THEN value[p] ELSE clear[p][r]
<1>1. clear \in [Party -> [Reg -> Fp \cup {None}]]
  BY DEF Types, TypeOK
<1>2. Inst.to \in Reg
  BY InstType
<1>3. clear' = [p \in Party |-> [clear[p] EXCEPT ![Inst.to] = value[p]]]
  BY DEF ToClear
<1>4. QED
  BY <1>1, <1>2, <1>3

\* A result in a secret register, which is a sharing if it stands for a value.
LEMMA SecretResult ==
  ASSUME SharesInv, NEW value \in [Party -> Share], NEW ideal \in Fp \cup {None},
         ideal # None => Sharing(value, ideal, alpha),
         ToSecret(value, ideal), alpha' = alpha
  PROVE  /\ secret' \in [Party -> [Reg -> Share \cup {NoShare}]]
         /\ plain' \in [Reg -> Fp \cup {None}]
         /\ Sharings'
<1>1. /\ secret \in [Party -> [Reg -> Share \cup {NoShare}]]
      /\ plain \in [Reg -> Fp \cup {None}] /\ Inst.to \in Reg
  BY InstType DEF SharesInv, Types, TypeOK
<1>2. /\ secret' = [p \in Party |-> [secret[p] EXCEPT ![Inst.to] = value[p]]]
      /\ plain' = [plain EXCEPT ![Inst.to] = ideal]
  BY DEF ToSecret
<1>3. secret' \in [Party -> [Reg -> Share \cup {NoShare}]] /\ plain' \in [Reg -> Fp \cup {None}]
  BY <1>1, <1>2
<1>4. ASSUME NEW r \in Reg, plain'[r] # None
      PROVE  Sharing([p \in Party |-> secret'[p][r]], plain'[r], alpha)
  <2>1. CASE r = Inst.to
    <3>1. plain'[r] = ideal /\ \A p \in Party : secret'[p][r] = value[p]
      BY <1>1, <1>2, <2>1
    <3>2. [p \in Party |-> secret'[p][r]] = value
      BY <3>1
    <3>3. QED
      BY <1>4, <3>1, <3>2
  <2>2. CASE r # Inst.to
    <3>1. plain'[r] = plain[r] /\ \A p \in Party : secret'[p][r] = secret[p][r]
      BY <1>1, <1>2, <2>2
    <3>2. [p \in Party |-> secret'[p][r]] = [p \in Party |-> secret[p][r]]
      BY <3>1
    <3>3. Sharing([p \in Party |-> secret[p][r]], plain[r], alpha)
      BY <1>4, <3>1 DEF SharesInv, Sharings, Shared
    <3>4. QED
      BY <3>1, <3>2, <3>3
  <2>3. QED
    BY <2>1, <2>2
<1>5. Sharings'
  BY <1>4 DEF Sharings, Shared
<1>6. QED
  BY <1>3, <1>5

LEMMA SameSecrets ==
  ASSUME Sharings, UNCHANGED <<secret, plain, alpha>>
  PROVE  Sharings'
  BY DEF Sharings, Shared

\* The types of what an instruction leaves alone.
LEMMA OldTypes ==
  ASSUME Types
  PROVE  /\ clear \in [Party -> [Reg -> Fp \cup {None}]]
         /\ secret \in [Party -> [Reg -> Share \cup {NoShare}]]
         /\ plain \in [Reg -> Fp \cup {None}]
         /\ openings \in [Party -> Seq([x : Fp, of : Share])]
         /\ output \in [Party -> Seq(Fp)]
         /\ alpha \in [Party -> Fp] /\ job \in Jobs /\ job.masks \subseteq Fp
  BY JobsAssumption DEF Types, TypeOK

LEMMA NewTypes ==
  ASSUME Types, status = "run", Inst.op # "Stop", Continue,
         clear' \in [Party -> [Reg -> Fp \cup {None}]],
         secret' \in [Party -> [Reg -> Share \cup {NoShare}]],
         plain' \in [Reg -> Fp \cup {None}],
         openings' \in [Party -> Seq([x : Fp, of : Share])],
         output' \in [Party -> Seq(Fp)]
  PROVE  Types'
<1>1. /\ pc' \in 0 .. Len(job.code) - 1 /\ \A i \in 1 .. pc' : job.code[i].op # "Stop"
      /\ job' = job /\ alpha' = alpha /\ status' = status
  BY Advances
<1>2. TypeOK'
  BY <1>1 DEF TypeOK
<1>3. QED
  BY <1>1, <1>2, OldTypes DEF Types

-----------------------------------------------------------------------------
(* The instructions preserve it.                                           *)

LEMMA ClearOpPreserves == ASSUME SharesInv, DoClearOp PROVE SharesInv'
<1>1. Types /\ Sharings /\ Ready({"CAdd", "CSub", "CMul"})
  BY DEF SharesInv, DoClearOp
<1>2. /\ status = "run" /\ Inst.op \in {"CAdd", "CSub", "CMul"}
      /\ \A p \in Party : Has(p)
  BY <1>1 DEF Ready, Is
<1>3. PICK value :
        /\ ToClear(value)
        /\ value = [p \in Party |-> LET x == clear[p][Inst.a]
                                        y == clear[p][Inst.b]
             IN CASE Inst.op = "CAdd" -> Add(x, y)
                  [] Inst.op = "CSub" -> Sub(x, y)
                  [] OTHER -> Mul(x, y)]
  BY DEF DoClearOp
<1>4. \A p \in Party : clear[p][Inst.a] \in Fp /\ clear[p][Inst.b] \in Fp
  <2>1. Inst.a \in ClearOperands /\ Inst.b \in ClearOperands
    BY <1>2 DEF ClearOperands
  <2>2. QED
    BY <1>1, <1>2, <2>1, InstType, ReadsClear
<1>5. value \in [Party -> Fp]
  <2>1. \A p \in Party : value[p] \in Fp
    BY <1>3, <1>4, InFp, Closed
  <2>2. QED
    BY <1>3, <2>1
<1>6. clear' \in [Party -> [Reg -> Fp \cup {None}]]
  BY <1>1, <1>3, <1>5, ClearResult
<1>7. Continue /\ UNCHANGED <<secret, plain, openings, output, alpha>>
  BY DEF DoClearOp, resultVars, Continue
<1>8. Types'
  BY <1>1, <1>2, <1>6, <1>7, OldTypes, NewTypes
<1>9. QED
  BY <1>1, <1>7, <1>8, SameSecrets DEF SharesInv

\* The value that a register computed from two others is to stand for is there
\* only if both stand for one.
LEMMA SecretOpPreserves == ASSUME SharesInv, DoSecretOp PROVE SharesInv'
<1>1. Types /\ Sharings /\ Ready({"SAdd", "SSub"})
  BY DEF SharesInv, DoSecretOp
<1>2. /\ status = "run" /\ Inst.op \in {"SAdd", "SSub"}
      /\ \A p \in Party : Has(p)
  BY <1>1 DEF Ready, Is
<1> DEFINE add == Inst.op = "SAdd"
           u == plain[Inst.a]
           v == plain[Inst.b]
<1>3. PICK value, ideal :
        /\ ToSecret(value, ideal)
        /\ value = [p \in Party |-> IF add THEN Plus(secret[p][Inst.a], secret[p][Inst.b])
                                            ELSE Minus(secret[p][Inst.a], secret[p][Inst.b])]
        /\ ideal = IF None \in {u, v} THEN None ELSE IF add THEN Add(u, v) ELSE Sub(u, v)
  BY DEF DoSecretOp, Ideal
<1>4. /\ Inst.a \in SecretOperands /\ Inst.b \in SecretOperands
      /\ Inst.a \in Reg /\ Inst.b \in Reg
  BY <1>1, <1>2, InstType DEF SecretOperands
<1>5. value \in [Party -> Share]
  <2>1. \A p \in Party :
          /\ secret[p][Inst.a].share \in Fp /\ secret[p][Inst.a].mac \in Fp
          /\ secret[p][Inst.b].share \in Fp /\ secret[p][Inst.b].mac \in Fp
    BY <1>1, <1>2, <1>4, ReadsSecret
  <2>2. \A p \in Party : /\ Plus(secret[p][Inst.a], secret[p][Inst.b]) \in Share
                          /\ Minus(secret[p][Inst.a], secret[p][Inst.b]) \in Share
    BY <2>1, InFp, Closed DEF Plus, Minus, Share
  <2>3. QED
    BY <1>3, <2>2
<1>6. ideal # None => Sharing(value, ideal, alpha)
  <2> SUFFICES ASSUME ideal # None PROVE Sharing(value, ideal, alpha)
    OBVIOUS
  <2> DEFINE as == [p \in Party |-> secret[p][Inst.a]]
             bs == [p \in Party |-> secret[p][Inst.b]]
  <2>1. Sharing(as, u, alpha) /\ Sharing(bs, v, alpha)
    BY <1>1, <1>3, <1>4 DEF Sharings, Shared
  <2>2. alpha \in [Party -> Fp]
    BY <1>1, OldTypes
  <2>3. value = IF add THEN [p \in Party |-> Plus(as[p], bs[p])] ELSE [p \in Party |-> Minus(as[p], bs[p])]
    BY <1>3
  <2>4. ideal = IF add THEN Add(u, v) ELSE Sub(u, v)
    BY <1>3
  <2> HIDE DEF as, bs, add, u, v
  <2>5. CASE add
    BY <2>1, <2>2, <2>3, <2>4, <2>5, PlusShares
  <2>6. CASE ~add
    BY <2>1, <2>2, <2>3, <2>4, <2>6, MinusShares
  <2>7. QED
    BY <2>5, <2>6
<1>7. ideal \in Fp \cup {None}
  BY <1>6 DEF Sharing
<1>8. Continue /\ UNCHANGED <<clear, openings, output, alpha>>
  BY DEF DoSecretOp, resultVars, Continue
<1>9. /\ secret' \in [Party -> [Reg -> Share \cup {NoShare}]]
      /\ plain' \in [Reg -> Fp \cup {None}]
      /\ Sharings'
  BY <1>3, <1>5, <1>6, <1>7, <1>8, SecretResult
<1>10. Types'
  BY <1>1, <1>2, <1>8, <1>9, OldTypes, NewTypes
<1>11. QED
  BY <1>9, <1>10 DEF SharesInv

\* The clear operand of MAdd and MMul, if it is public.
LEMMA PublicOperand ==
  ASSUME Types, NEW r \in Reg, Public(r) # None, \A p \in Party : clear[p][r] \in Fp
  PROVE  Public(r) \in Fp /\ \A p \in Party : clear[p][r] = Public(r)
<1>1. \A p \in Party : clear[p][r] = clear[0][r]
  BY DEF Public
<1>2. 0 \in Party
  BY Parties
<1>3. QED
  BY <1>1, <1>2 DEF Public

LEMMA MixedAddPreserves == ASSUME SharesInv, DoMixedAdd PROVE SharesInv'
<1>1. Types /\ Sharings /\ Ready({"MAdd"})
  BY DEF SharesInv, DoMixedAdd
<1>2. status = "run" /\ Inst.op = "MAdd" /\ \A p \in Party : Has(p)
  BY <1>1 DEF Ready, Is
<1> DEFINE u == plain[Inst.a]
           c == Public(Inst.b)
<1>3. PICK value, ideal :
        /\ ToSecret(value, ideal)
        /\ value = [p \in Party |->
                      AddClear(secret[p][Inst.a], clear[p][Inst.b], alpha[p], p = Inst.id)]
        /\ ideal = IF None \in {u, c} THEN None ELSE Add(u, c)
  BY DEF DoMixedAdd, Ideal
<1>4. /\ Inst.a \in SecretOperands /\ Inst.b \in ClearOperands
      /\ Inst.a \in Reg /\ Inst.b \in Reg /\ Inst.id \in Party
  BY <1>1, <1>2, InstType DEF SecretOperands, ClearOperands
<1>5. /\ alpha \in [Party -> Fp]
      /\ \A p \in Party :
            /\ secret[p][Inst.a].share \in Fp /\ secret[p][Inst.a].mac \in Fp
            /\ clear[p][Inst.b] \in Fp /\ alpha[p] \in Fp
  BY <1>1, <1>2, <1>4, ReadsSecret, ReadsClear, OldTypes
<1>6. value \in [Party -> Share]
  <2>1. \A p \in Party :
          AddClear(secret[p][Inst.a], clear[p][Inst.b], alpha[p], p = Inst.id) \in Share
    <3> TAKE p \in Party
    <3>1. Mul(alpha[p], clear[p][Inst.b]) \in Fp
      BY <1>5, InFp, Closed
    <3>2. /\ Add(secret[p][Inst.a].share, clear[p][Inst.b]) \in Fp
          /\ Add(secret[p][Inst.a].mac, Mul(alpha[p], clear[p][Inst.b])) \in Fp
      BY <1>5, <3>1, InFp, Closed
    <3>3. QED
      BY <1>5, <3>2 DEF AddClear, Share
  <2>2. QED
    BY <1>3, <2>1
<1>7. ideal # None => Sharing(value, ideal, alpha)
  <2> SUFFICES ASSUME ideal # None PROVE Sharing(value, ideal, alpha)
    OBVIOUS
  <2> DEFINE as == [p \in Party |-> secret[p][Inst.a]]
  <2>1. Sharing(as, u, alpha) /\ ideal = Add(u, c)
    BY <1>1, <1>3, <1>4 DEF Sharings, Shared
  <2>2. c \in Fp /\ \A p \in Party : clear[p][Inst.b] = c
    BY <1>1, <1>3, <1>4, <1>5, PublicOperand
  <2>3. value = [p \in Party |-> AddClear(as[p], c, alpha[p], p = Inst.id)]
    BY <1>3, <2>2
  <2> HIDE DEF as, u, c
  <2>4. QED
    BY <1>4, <1>5, <2>1, <2>2, <2>3, AddClearShares
<1>8. ideal \in Fp \cup {None}
  BY <1>7 DEF Sharing
<1>9. Continue /\ UNCHANGED <<clear, openings, output, alpha>>
  BY DEF DoMixedAdd, resultVars, Continue
<1>10. /\ secret' \in [Party -> [Reg -> Share \cup {NoShare}]]
       /\ plain' \in [Reg -> Fp \cup {None}]
       /\ Sharings'
  BY <1>3, <1>6, <1>7, <1>8, <1>9, SecretResult
<1>11. Types'
  BY <1>1, <1>2, <1>9, <1>10, OldTypes, NewTypes
<1>12. QED
  BY <1>10, <1>11 DEF SharesInv

LEMMA MixedMulPreserves == ASSUME SharesInv, DoMixedMul PROVE SharesInv'
<1>1. Types /\ Sharings /\ Ready({"MMul"})
  BY DEF SharesInv, DoMixedMul
<1>2. status = "run" /\ Inst.op = "MMul" /\ \A p \in Party : Has(p)
  BY <1>1 DEF Ready, Is
<1> DEFINE u == plain[Inst.a]
           c == Public(Inst.b)
<1>3. PICK value, ideal :
        /\ ToSecret(value, ideal)
        /\ value = [p \in Party |-> MulClear(secret[p][Inst.a], clear[p][Inst.b])]
        /\ ideal = IF None \in {u, c} THEN None ELSE Mul(u, c)
  BY DEF DoMixedMul, Ideal
<1>4. /\ Inst.a \in SecretOperands /\ Inst.b \in ClearOperands
      /\ Inst.a \in Reg /\ Inst.b \in Reg
  BY <1>1, <1>2, InstType DEF SecretOperands, ClearOperands
<1>5. /\ alpha \in [Party -> Fp]
      /\ \A p \in Party :
            /\ secret[p][Inst.a].share \in Fp /\ secret[p][Inst.a].mac \in Fp
            /\ clear[p][Inst.b] \in Fp
  BY <1>1, <1>2, <1>4, ReadsSecret, ReadsClear, OldTypes
<1>6. value \in [Party -> Share]
  <2>1. \A p \in Party : MulClear(secret[p][Inst.a], clear[p][Inst.b]) \in Share
    BY <1>5, InFp, Closed DEF MulClear, Share
  <2>2. QED
    BY <1>3, <2>1
<1>7. ideal # None => Sharing(value, ideal, alpha)
  <2> SUFFICES ASSUME ideal # None PROVE Sharing(value, ideal, alpha)
    OBVIOUS
  <2> DEFINE as == [p \in Party |-> secret[p][Inst.a]]
  <2>1. Sharing(as, u, alpha) /\ ideal = Mul(u, c)
    BY <1>1, <1>3, <1>4 DEF Sharings, Shared
  <2>2. c \in Fp /\ \A p \in Party : clear[p][Inst.b] = c
    BY <1>1, <1>3, <1>4, <1>5, PublicOperand
  <2>3. value = [p \in Party |-> MulClear(as[p], c)]
    BY <1>3, <2>2
  <2> HIDE DEF as, u, c
  <2>4. QED
    BY <1>5, <2>1, <2>2, <2>3, MulClearShares
<1>8. ideal \in Fp \cup {None}
  BY <1>7 DEF Sharing
<1>9. Continue /\ UNCHANGED <<clear, openings, output, alpha>>
  BY DEF DoMixedMul, resultVars, Continue
<1>10. /\ secret' \in [Party -> [Reg -> Share \cup {NoShare}]]
       /\ plain' \in [Reg -> Fp \cup {None}]
       /\ Sharings'
  BY <1>3, <1>6, <1>7, <1>8, <1>9, SecretResult
<1>11. Types'
  BY <1>1, <1>2, <1>9, <1>10, OldTypes, NewTypes
<1>12. QED
  BY <1>10, <1>11 DEF SharesInv

\* The sharing of r plus the public difference of the input to r is a sharing
\* of the input.
LEMMA InputPreserves == ASSUME SharesInv, DoInput PROVE SharesInv'
<1>1. Types /\ Sharings /\ Ready({"Input"})
  BY DEF SharesInv, DoInput
<1>2. status = "run" /\ Inst.op = "Input" /\ \A p \in Party : Has(p)
  BY <1>1 DEF Ready, Is
<1> DEFINE x == clear[Inst.id][Inst.a]
<1>3. PICK r \in Fp : \E rand \in AuthShare(r) :
        ToSecret([p \in Party |-> AddClear(rand[p], Sub(x, r), alpha[p], p = Inst.id)], x)
  BY DEF DoInput
<1>4. PICK rand \in AuthShare(r) :
        ToSecret([p \in Party |-> AddClear(rand[p], Sub(x, r), alpha[p], p = Inst.id)], x)
  BY <1>3
<1> DEFINE value == [p \in Party |-> AddClear(rand[p], Sub(x, r), alpha[p], p = Inst.id)]
<1>5. x \in Fp
  BY <1>1, <1>2, InstType, ReadsClear
<1>6. alpha \in [Party -> Fp] /\ Sharing(rand, r, alpha) /\ Inst.id \in Party
  BY <1>1, InstType, OldTypes, AuthShareIs
<1>7. Sharing(value, x, alpha)
  <2> HIDE DEF x, value
  <2>1. Sub(x, r) \in Fp /\ Add(r, Sub(x, r)) = x
    <3>1. x \in Int /\ r \in Int
      BY <1>5, InFp
    <3>2. Sub(x, r) \in Fp
      BY <3>1, Closed
    <3>3. Add(r, Sub(x, r)) = x
      BY <1>5, AddLaws
    <3>4. QED
      BY <3>2, <3>3
  <2>2. Sharing(value, Add(r, Sub(x, r)), alpha)
    BY <1>6, <2>1, AddClearShares DEF value
  <2>3. QED
    BY <2>1, <2>2
<1> HIDE DEF x, value
<1>8. value \in [Party -> Share] /\ ToSecret(value, x)
  BY <1>4, <1>7 DEF Sharing, value
<1>9. Continue /\ UNCHANGED <<clear, openings, output, alpha>>
  BY DEF DoInput, resultVars, Continue
<1>10. /\ secret' \in [Party -> [Reg -> Share \cup {NoShare}]]
       /\ plain' \in [Reg -> Fp \cup {None}]
       /\ Sharings'
  BY <1>5, <1>7, <1>8, <1>9, SecretResult
<1>11. Types'
  BY <1>1, <1>2, <1>9, <1>10, OldTypes, NewTypes
<1>12. QED
  BY <1>10, <1>11 DEF SharesInv

LEMMA TriplePreserves == ASSUME SharesInv, DoTriple PROVE SharesInv'
<1>1. Types /\ Sharings /\ Ready({"Triple"})
  BY DEF SharesInv, DoTriple
<1>2. status = "run" /\ Inst.op = "Triple"
  BY <1>1 DEF Ready, Is
<1>3. PICK a \in Fp, b \in Fp : \E as \in AuthShare(a), bs \in AuthShare(b), cs \in AuthShare(Mul(a, b)) :
        /\ secret' = [p \in Party |-> [secret[p] EXCEPT
             ![Inst.to] = as[p], ![Inst.a] = bs[p], ![Inst.b] = cs[p]]]
        /\ plain' = [plain EXCEPT ![Inst.to] = a, ![Inst.a] = b, ![Inst.b] = Mul(a, b)]
  BY DEF DoTriple
<1>4. PICK as \in AuthShare(a), bs \in AuthShare(b), cs \in AuthShare(Mul(a, b)) :
        /\ secret' = [p \in Party |-> [secret[p] EXCEPT
             ![Inst.to] = as[p], ![Inst.a] = bs[p], ![Inst.b] = cs[p]]]
        /\ plain' = [plain EXCEPT ![Inst.to] = a, ![Inst.a] = b, ![Inst.b] = Mul(a, b)]
  BY <1>3
<1>5. Mul(a, b) \in Fp
  BY InFp, Closed
<1>6. Sharing(as, a, alpha) /\ Sharing(bs, b, alpha) /\ Sharing(cs, Mul(a, b), alpha)
  BY <1>1, <1>5, OldTypes, AuthShareIs
<1>7. as \in [Party -> Share] /\ bs \in [Party -> Share] /\ cs \in [Party -> Share]
  BY <1>6 DEF Sharing
<1>8. /\ secret \in [Party -> [Reg -> Share \cup {NoShare}]] /\ plain \in [Reg -> Fp \cup {None}]
      /\ Inst.to \in Reg /\ Inst.a \in Reg /\ Inst.b \in Reg
  BY <1>1, InstType, OldTypes
<1>9. /\ secret' \in [Party -> [Reg -> Share \cup {NoShare}]]
      /\ plain' \in [Reg -> Fp \cup {None}]
  BY <1>4, <1>5, <1>7, <1>8
<1>10. Continue /\ UNCHANGED <<clear, openings, output, alpha>>
  BY DEF DoTriple, resultVars, Continue
<1>11. ASSUME NEW r \in Reg, plain'[r] # None
       PROVE  Sharing([p \in Party |-> secret'[p][r]], plain'[r], alpha)
  <2>1. CASE r = Inst.b
    <3>1. plain'[r] = Mul(a, b) /\ [p \in Party |-> secret'[p][r]] = cs
      BY <1>4, <1>7, <1>8, <2>1
    <3>2. QED
      BY <1>6, <3>1
  <2>2. CASE r = Inst.a /\ r # Inst.b
    <3>1. plain'[r] = b /\ [p \in Party |-> secret'[p][r]] = bs
      BY <1>4, <1>7, <1>8, <2>2
    <3>2. QED
      BY <1>6, <3>1
  <2>3. CASE r = Inst.to /\ r # Inst.a /\ r # Inst.b
    <3>1. plain'[r] = a /\ [p \in Party |-> secret'[p][r]] = as
      BY <1>4, <1>7, <1>8, <2>3
    <3>2. QED
      BY <1>6, <3>1
  <2>4. CASE r \notin {Inst.to, Inst.a, Inst.b}
    <3>1. plain'[r] = plain[r]
      BY <1>4, <1>8, <2>4
    <3>2. [p \in Party |-> secret'[p][r]] = [p \in Party |-> secret[p][r]]
      BY <1>4, <1>8, <2>4
    <3>3. QED
      BY <1>1, <1>11, <3>1, <3>2 DEF Sharings, Shared
  <2>5. QED
    BY <2>1, <2>2, <2>3, <2>4
<1>12. Sharings'
  BY <1>10, <1>11 DEF Sharings, Shared
<1>13. Types'
  BY <1>1, <1>2, <1>9, <1>10, OldTypes, NewTypes
<1>14. QED
  BY <1>12, <1>13 DEF SharesInv

\* What is opened is an element of the field, and kept with a share.
LEMMA OpeningType ==
  ASSUME Types, NEW r \in Reg, r \in SecretOperands, \A p \in Party : Has(p)
  PROVE  /\ Opened(r) \in Fp
         /\ WithOpening(r) \in [Party -> Seq([x : Fp, of : Share])]
<1>1. \A p \in Party : secret[p][r] \in Share /\ secret[p][r].share \in Fp
  BY ReadsSecret
<1>2. [p \in Party |-> secret[p][r].share] \in [Party -> Fp]
  BY <1>1
<1>3. Opened(r) \in Fp
  BY <1>2, CombineType DEF Opened
<1>4. \A p \in Party : [x |-> Opened(r), of |-> secret[p][r]] \in [x : Fp, of : Share]
  BY <1>1, <1>3
<1>5. openings \in [Party -> Seq([x : Fp, of : Share])]
  BY OldTypes
<1>6. \A p \in Party : Append(openings[p], [x |-> Opened(r), of |-> secret[p][r]])
                          \in Seq([x : Fp, of : Share])
  <2>1. \A S : \A e \in S : \A q \in Seq(S) : Append(q, e) \in Seq(S)
    OBVIOUS
  <2>2. QED
    BY <1>4, <1>5, <2>1
<1>7. QED
  BY <1>3, <1>6 DEF WithOpening

LEMMA OpenPreserves == ASSUME SharesInv, DoOpen PROVE SharesInv'
<1>1. Types /\ Sharings /\ Ready({"Open"})
  BY DEF SharesInv, DoOpen
<1>2. status = "run" /\ Inst.op = "Open" /\ \A p \in Party : Has(p)
  BY <1>1 DEF Ready, Is
<1>3. Inst.a \in SecretOperands /\ Inst.a \in Reg
  BY <1>1, <1>2, InstType DEF SecretOperands
<1>4. Opened(Inst.a) \in Fp /\ WithOpening(Inst.a) \in [Party -> Seq([x : Fp, of : Share])]
  BY <1>1, <1>2, <1>3, OpeningType
<1>5. PICK value : value = [p \in Party |-> Opened(Inst.a)] /\ ToClear(value)
  BY DEF DoOpen
<1>6. value \in [Party -> Fp]
  BY <1>4, <1>5
<1>7. clear' \in [Party -> [Reg -> Fp \cup {None}]]
  BY <1>1, <1>5, <1>6, ClearResult
<1>8. Continue /\ openings' = WithOpening(Inst.a) /\ UNCHANGED <<secret, plain, output, alpha>>
  BY DEF DoOpen, Continue
<1>9. Types'
  BY <1>1, <1>2, <1>4, <1>7, <1>8, OldTypes, NewTypes
<1>10. QED
  BY <1>1, <1>8, <1>9, SameSecrets DEF SharesInv

LEMMA ClearOutputPreserves == ASSUME SharesInv, COutput PROVE SharesInv'
<1>1. Types /\ Sharings /\ Ready({"COutput"})
  BY DEF SharesInv, COutput
<1>2. status = "run" /\ Inst.op = "COutput" /\ \A p \in Party : Has(p)
  BY <1>1 DEF Ready, Is
<1>3. \A p \in Party : clear[p][Inst.a] \in Fp
  <2>1. Inst.a \in ClearOperands
    BY <1>2 DEF ClearOperands
  <2>2. QED
    BY <1>1, <1>2, <2>1, InstType, ReadsClear
<1>4. output' = [p \in Party |-> Append(output[p], clear[p][Inst.a])]
  BY DEF COutput
<1>5. output \in [Party -> Seq(Fp)]
  BY <1>1, OldTypes
<1>6. output' \in [Party -> Seq(Fp)]
  <2>1. \A p \in Party : Append(output[p], clear[p][Inst.a]) \in Seq(Fp)
    BY <1>3, <1>5
  <2>2. QED
    BY <1>4, <2>1
<1>7. Continue /\ UNCHANGED <<clear, secret, plain, openings, alpha>>
  BY DEF COutput, regVars, Continue
<1>8. Types'
  BY <1>1, <1>2, <1>6, <1>7, OldTypes, NewTypes
<1>9. QED
  BY <1>1, <1>7, <1>8, SameSecrets DEF SharesInv

\* The end of the computation changes little.
LEMMA EndTypes ==
  ASSUME SharesInv, UNCHANGED <<job, inputs, alpha, pc, regVars, output>>,
         status' \in {"ok", "EmptyError", "MACCheckError"},
         openings' \in [Party -> Seq([x : Fp, of : Share])]
  PROVE  SharesInv'
<1>1. /\ UNCHANGED <<job, alpha, pc, clear, secret, plain, output>>
      /\ Types /\ Sharings
  BY DEF regVars, SharesInv
<1>2. TypeOK'
  BY <1>1, OldTypes DEF Types, TypeOK
<1>3. Types'
  BY <1>1, <1>2 DEF Types
<1>4. QED
  BY <1>1, <1>3, SameSecrets DEF SharesInv

LEMMA SecretOutputPreserves == ASSUME SharesInv, DoSecretOutput PROVE SharesInv'
<1>1. Types /\ Sharings /\ Ready({"SOutput"})
  BY DEF SharesInv, DoSecretOutput
<1>2. status = "run" /\ Inst.op = "SOutput" /\ \A p \in Party : Has(p)
  BY <1>1 DEF Ready, Is
<1>3. Inst.a \in SecretOperands /\ Inst.a \in Reg
  BY <1>1, <1>2, InstType DEF SecretOperands
<1>4. \A p \in Party : secret[p][Inst.a].share \in Fp
  BY <1>1, <1>2, <1>3, ReadsSecret
<1>5. CASE Checks(WithOpening(Inst.a))
  <2>1. /\ output' = [p \in Party |-> Append(output[p], secret[p][Inst.a].share)]
        /\ openings' = [p \in Party |-> <<>>]
        /\ Continue /\ UNCHANGED <<clear, secret, plain, alpha>>
    BY <1>5 DEF DoSecretOutput, regVars, Continue
  <2>2. output \in [Party -> Seq(Fp)]
    BY <1>1, OldTypes
  <2>3. \A p \in Party : Append(output[p], secret[p][Inst.a].share) \in Seq(Fp)
    BY <1>4, <2>2
  <2>4. output' \in [Party -> Seq(Fp)] /\ openings' \in [Party -> Seq([x : Fp, of : Share])]
    BY <2>1, <2>3
  <2>5. Types'
    BY <1>1, <1>2, <2>1, <2>4, OldTypes, NewTypes
  <2>6. QED
    BY <1>1, <2>1, <2>5, SameSecrets DEF SharesInv
<1>6. CASE ~Checks(WithOpening(Inst.a))
  <2>1. /\ status' = "MACCheckError"
        /\ UNCHANGED <<job, inputs, alpha, pc, regVars, openings, output>>
    BY <1>6 DEF DoSecretOutput, resultVars
  <2>2. openings' \in [Party -> Seq([x : Fp, of : Share])]
    BY <1>1, <2>1, OldTypes
  <2>3. QED
    BY <2>1, <2>2, EndTypes
<1>7. QED
  BY <1>5, <1>6

LEMMA StopPreserves == ASSUME SharesInv, DoStop PROVE SharesInv'
<1>1. /\ UNCHANGED <<job, inputs, alpha, pc, regVars, output>>
      /\ status' \in {"ok", "MACCheckError"}
      /\ openings' \in {[p \in Party |-> <<>>], openings}
  BY DEF DoStop
<1>2. openings' \in [Party -> Seq([x : Fp, of : Share])]
  <2>1. openings \in [Party -> Seq([x : Fp, of : Share])]
    BY OldTypes DEF SharesInv
  <2>2. \A S : <<>> \in Seq(S)
    OBVIOUS
  <2>3. [p \in Party |-> <<>>] \in [Party -> Seq([x : Fp, of : Share])]
    BY <2>2
  <2>4. QED
    BY <1>1, <2>1, <2>3
<1>3. QED
  BY <1>1, <1>2, EndTypes

LEMMA EmptyErrorPreserves == ASSUME SharesInv, EmptyError PROVE SharesInv'
<1>1. UNCHANGED <<job, inputs, alpha, pc, regVars, openings, output>> /\ status' = "EmptyError"
  BY DEF EmptyError, resultVars
<1>2. openings' \in [Party -> Seq([x : Fp, of : Share])]
  BY <1>1, OldTypes DEF SharesInv
<1>3. QED
  BY <1>1, <1>2, EndTypes

\* The invariant holds whatever the jobs are, and however many parties.
THEOREM SharesInductive == Spec => []SharesInv
<1>1. Init => SharesInv
  BY InitShares
<1>2. SharesInv /\ [Next]_vars => SharesInv'
  <2> SUFFICES ASSUME SharesInv, [Next]_vars PROVE SharesInv'
    OBVIOUS
  <2>1. CASE Next
    <3>1. CASE status # "run" /\ UNCHANGED vars
      <4>1. UNCHANGED vars
        BY <3>1
      <4>2. QED
        BY <4>1 DEF vars, regVars, resultVars, SharesInv, Types, TypeOK, Sharings, Shared
    <3>2. QED
      BY <2>1, <3>1, EmptyErrorPreserves, ClearOpPreserves, SecretOpPreserves,
         MixedAddPreserves, MixedMulPreserves, InputPreserves, TriplePreserves,
         OpenPreserves, ClearOutputPreserves, SecretOutputPreserves, StopPreserves
         DEF Next
  <2>2. CASE UNCHANGED vars
    BY <2>2 DEF vars, regVars, resultVars, SharesInv, Types, TypeOK, Sharings, Shared
  <2>3. QED
    BY <2>1, <2>2
<1>3. QED
  BY <1>1, <1>2, PTL DEF Spec

\* Registers, openings and outputs hold elements of the field, reduced (algebra.rs).
THEOREM TypesHold == Spec => []TypeOK
<1>1. SharesInv => TypeOK
  BY DEF SharesInv, Types
<1>2. QED
  BY <1>1, SharesInductive, PTL

\* What a secret register stands for is what its shares add up to, and its MACs
\* are those of that value (add_clear, mul_clear, auth_share).
THEOREM AuthenticHolds == Spec => []Authentic
<1>1. SharesInv => Authentic
  <2> SUFFICES ASSUME SharesInv, NEW r \in Reg, Shared(r)
               PROVE  /\ Opened(r) = plain[r]
                      /\ UnauthCombine([p \in Party |-> secret[p][r].mac]) = Mul(plain[r], Alpha)
    BY DEF Authentic
  <2> DEFINE v == [p \in Party |-> secret[p][r]]
  <2>1. Sharing(v, plain[r], alpha)
    BY DEF SharesInv, Sharings
  <2>2. /\ [p \in Party |-> v[p].share] = [p \in Party |-> secret[p][r].share]
        /\ [p \in Party |-> v[p].mac] = [p \in Party |-> secret[p][r].mac]
    OBVIOUS
  <2> HIDE DEF v
  <2>3. QED
    BY <2>1, <2>2 DEF Sharing, Opened, Alpha
<1>2. QED
  BY <1>1, SharesInductive, PTL

\* The MAC check accepts a value for a register if and only if it is the one the
\* register stands for, unless the MAC key is zero (mac_check).
THEOREM CheckIsExactHolds == Spec => []CheckIsExact
<1>1. SharesInv => CheckIsExact
  <2> SUFFICES ASSUME SharesInv, NEW r \in Reg, Shared(r), NEW y \in Fp
               PROVE  Checks([p \in Party |-> <<[x |-> y, of |-> secret[p][r]]>>])
                        <=> y = plain[r] \/ Alpha = 0
    BY DEF CheckIsExact
  <2> DEFINE v == [p \in Party |-> secret[p][r]]
             list == [p \in Party |-> <<[x |-> y, of |-> secret[p][r]]>>]
  <2>1. Sharing(v, plain[r], alpha) /\ alpha \in [Party -> Fp]
    BY OldTypes DEF SharesInv, Sharings
  <2>2. DOMAIN list[0] = {1}
    <3>1. 0 \in Party
      BY Parties
    <3>2. \A e : DOMAIN <<e>> = {1}
      OBVIOUS
    <3>3. list[0] = <<[x |-> y, of |-> secret[0][r]]>>
      BY <3>1
    <3>4. QED
      BY <3>2, <3>3
  <2>3. \A p \in Party : list[p][1].x = y /\ list[p][1].of = v[p]
    OBVIOUS
  <2>4. [p \in Party |-> D(p, list[p][1].x, list[p][1].of)] = [p \in Party |-> D(p, y, v[p])]
    BY <2>3
  <2>5. Checks(list) <=> UnauthCombine([p \in Party |-> D(p, list[p][1].x, list[p][1].of)]) = 0
    <3> HIDE DEF list
    <3>1. DOMAIN list[0] = {1}
      BY <2>2
    <3>2. QED
      BY <3>1, Zenon DEF Checks
  <2> HIDE DEF v, list
  <2>6. Checks(list) <=> y = plain[r] \/ Alpha = 0
    BY <2>1, <2>4, <2>5, CheckOfSharing
  <2>7. QED
    BY <2>6 DEF list
<1>2. QED
  BY <1>1, SharesInductive, PTL

-----------------------------------------------------------------------------
(* Honest parties pass the MAC check.                                      *)

\* s[i] are the registers known to be public after i instructions.
Knowns(s, code, n) ==
  s = [i \in 0 .. n |-> IF i = 0 THEN {} ELSE PublicThen(s[i - 1], code[i])]

LEMMA KnownsExist ==
  ASSUME NEW code, NEW n \in Nat
  PROVE  \E s : Knowns(s, code, n)
<1> DEFINE S == {k \in Nat : \E s : Knowns(s, code, k)}
<1>1. 0 \in S
  <2>1. Knowns([i \in 0 .. 0 |-> {}], code, 0)
    BY DEF Knowns
  <2>2. QED
    BY <2>1
<1>2. ASSUME NEW k \in Nat, k \in S PROVE k + 1 \in S
  <2>1. PICK s : Knowns(s, code, k)
    BY <1>2
  <2> DEFINE t == [i \in 0 .. k + 1 |-> IF i = k + 1 THEN PublicThen(s[k], code[k + 1]) ELSE s[i]]
  <2>2. s = [i \in 0 .. k |-> IF i = 0 THEN {} ELSE PublicThen(s[i - 1], code[i])]
    BY <2>1 DEF Knowns
  <2>3. \A i \in 0 .. k : t[i] = s[i]
    OBVIOUS
  <2>4. \A i \in 0 .. k + 1 : t[i] = IF i = 0 THEN {} ELSE PublicThen(t[i - 1], code[i])
    <3> TAKE i \in 0 .. k + 1
    <3>1. CASE i = 0
      BY <2>2, <2>3, <3>1
    <3>2. CASE i = k + 1
      <4>1. i - 1 = k /\ t[k] = s[k] /\ t[i] = PublicThen(s[k], code[i])
        BY <2>3, <3>2
      <4>2. QED
        BY <3>2, <4>1
    <3>3. CASE i \in 1 .. k
      <4>1. i - 1 \in 0 .. k /\ i \in 0 .. k /\ t[i] = s[i] /\ t[i - 1] = s[i - 1]
        BY <2>3, <3>3
      <4>2. s[i] = IF i = 0 THEN {} ELSE PublicThen(s[i - 1], code[i])
        BY <2>2, <4>1, Zenon
      <4>3. i # 0 /\ i # k + 1
        BY <3>3
      <4>4. QED
        BY <4>1, <4>2, <4>3, Zenon
    <3>4. QED
      BY <3>1, <3>2, <3>3
  <2>5. Knowns(t, code, k + 1)
    BY <2>4 DEF Knowns
  <2>6. QED
    BY <2>5
<1> HIDE DEF S
<1>3. n \in S
  BY <1>1, <1>2, InductionOnSet
<1>4. QED
  BY <1>3 DEF S

LEMMA PublicAfterSteps ==
  ASSUME NEW code, Len(code) \in Nat, NEW i \in 1 .. Len(code)
  PROVE  /\ PublicAfter(code)[0] = {}
         /\ PublicAfter(code)[i] = PublicThen(PublicAfter(code)[i - 1], code[i])
<1>1. PublicAfter(code) = CHOOSE s : Knowns(s, code, Len(code))
  BY DEF PublicAfter, Knowns
<1>2. Knowns(PublicAfter(code), code, Len(code))
  BY <1>1, KnownsExist
<1>3. i \in 0 .. Len(code) /\ 0 \in 0 .. Len(code) /\ i # 0
  OBVIOUS
<1>4. QED
  BY <1>2, <1>3 DEF Knowns

\* The ds of what is in the list add up to zero, for each of its elements.
ZeroDs(list, key) ==
  /\ \A p \in Party : Len(list[p]) = Len(list[0])
  /\ \A i \in 1 .. Len(list[0]) :
       UnauthCombine([p \in Party |-> Sub(Mul(key[p], list[p][i].x), list[p][i].of.mac)]) = 0

\* Every register that has shares stands for a value, the openings that are not
\* checked will pass, and what is known to be public is.
Honest ==
  /\ status # "MACCheckError"
  /\ \A p \in Party : \A r \in Reg : secret[p][r] # NoShare => Shared(r)
  /\ ZeroDs(openings, alpha)
  /\ PublicAfter(job.code)[pc] \subseteq Reg
  /\ \A r \in PublicAfter(job.code)[pc] : \A p \in Party : clear[p][r] = clear[0][r]

HonestInv == SharesInv /\ (PublicOperands(job.code) => Honest)

LEMMA ChecksZero ==
  ASSUME NEW list \in [Party -> Seq([x : Fp, of : Share])], ZeroDs(list, alpha)
  PROVE  Checks(list)
<1>1. 0 \in Party
  BY Parties
<1>2. DOMAIN list[0] = 1 .. Len(list[0])
  BY <1>1
<1>3. QED
  BY <1>2 DEF ZeroDs, Checks, D

LEMMA EmptyZero ==
  ASSUME NEW key PROVE ZeroDs([p \in Party |-> <<>>], key)
<1>1. 0 \in Party
  BY Parties
<1>2. \A i \in 1 .. 0 : FALSE
  OBVIOUS
<1>3. QED
  BY <1>1, <1>2 DEF ZeroDs

LEMMA Appended ==
  ASSUME NEW S, NEW q \in Seq(S), NEW e \in S
  PROVE  /\ Append(q, e) \in Seq(S) /\ Len(Append(q, e)) = Len(q) + 1
         /\ Append(q, e)[Len(q) + 1] = e
         /\ \A i \in 1 .. Len(q) : Append(q, e)[i] = q[i]
  OBVIOUS

\* An opening of a sharing adds a value that passes.
LEMMA OpeningZero ==
  ASSUME SharesInv, ZeroDs(openings, alpha), NEW r \in Reg, Shared(r)
  PROVE  /\ ZeroDs(WithOpening(r), alpha)
         /\ WithOpening(r) \in [Party -> Seq([x : Fp, of : Share])]
<1> DEFINE v == [p \in Party |-> secret[p][r]]
           e(p) == [x |-> Opened(r), of |-> secret[p][r]]
           S == [x : Fp, of : Share]
<1>1. Sharing(v, plain[r], alpha) /\ alpha \in [Party -> Fp] /\ openings \in [Party -> Seq(S)]
  BY OldTypes DEF SharesInv, Sharings
<1>2. v \in [Party -> Share] /\ plain[r] \in Fp
  BY <1>1 DEF Sharing
<1>3. Opened(r) = plain[r]
  <2>1. [p \in Party |-> v[p].share] = [p \in Party |-> secret[p][r].share]
    OBVIOUS
  <2> HIDE DEF v
  <2>2. QED
    BY <1>1, <2>1 DEF Sharing, Opened
<1>4. \A p \in Party : e(p) \in S
  BY <1>2, <1>3
<1>5. \A p \in Party : WithOpening(r)[p] = Append(openings[p], e(p))
  BY DEF WithOpening
<1>6. 0 \in Party
  BY Parties
<1> DEFINE n == Len(openings[0])
<1>7. \A p \in Party : Len(openings[p]) = n /\ openings[p] \in Seq(S) /\ n \in Nat
  <2>1. \A p \in Party : Len(openings[p]) = n
    BY DEF ZeroDs
  <2>2. \A p \in Party : openings[p] \in Seq(S)
    BY <1>1
  <2>3. n \in Nat
    BY <1>6, <2>2
  <2>4. QED
    BY <2>1, <2>2, <2>3
<1>8. UnauthCombine([p \in Party |-> D(p, plain[r], v[p])]) = 0
  <2> HIDE DEF v
  <2>1. QED
    BY <1>1, <1>2, CheckOfSharing
<1> HIDE DEF S
<1>9. \A p \in Party : /\ WithOpening(r)[p] \in Seq(S) /\ Len(WithOpening(r)[p]) = n + 1
                        /\ WithOpening(r)[p][n + 1] = e(p)
                        /\ \A i \in 1 .. n : WithOpening(r)[p][i] = openings[p][i]
  <2> TAKE p \in Party
  <2> HIDE DEF n, e, v
  <2>1. WithOpening(r)[p] = Append(openings[p], e(p)) /\ e(p) \in S /\ openings[p] \in Seq(S)
    BY <1>4, <1>5, <1>7
  <2>2. Len(openings[p]) = n
    BY <1>7
  <2>3. QED
    BY <2>1, <2>2, Appended
<1>10. ASSUME NEW i \in 1 .. n + 1
       PROVE  UnauthCombine([p \in Party |->
                Sub(Mul(alpha[p], WithOpening(r)[p][i].x), WithOpening(r)[p][i].of.mac)]) = 0
  <2>1. CASE i = n + 1
    <3>1. \A p \in Party : Sub(Mul(alpha[p], WithOpening(r)[p][i].x), WithOpening(r)[p][i].of.mac)
                            = D(p, plain[r], v[p])
      <4> TAKE p \in Party
      <4>1. WithOpening(r)[p][i] = e(p)
        BY <1>9, <2>1
      <4>2. e(p).x = plain[r] /\ e(p).of = v[p]
        BY <1>3
      <4>3. QED
        BY <4>1, <4>2 DEF D
    <3>2. [p \in Party |-> Sub(Mul(alpha[p], WithOpening(r)[p][i].x), WithOpening(r)[p][i].of.mac)]
          = [p \in Party |-> D(p, plain[r], v[p])]
      BY <3>1
    <3>3. QED
      BY <1>8, <3>2
  <2>2. CASE i \in 1 .. n
    <3>1. [p \in Party |-> Sub(Mul(alpha[p], WithOpening(r)[p][i].x), WithOpening(r)[p][i].of.mac)]
          = [p \in Party |-> Sub(Mul(alpha[p], openings[p][i].x), openings[p][i].of.mac)]
      BY <1>9, <2>2
    <3>2. QED
      BY <2>2, <3>1 DEF ZeroDs
  <2>3. QED
    BY <1>7, <1>6, <2>1, <2>2
<1>11. Len(WithOpening(r)[0]) = n + 1 /\ \A p \in Party : Len(WithOpening(r)[p]) = Len(WithOpening(r)[0])
  BY <1>6, <1>9
<1>12. ZeroDs(WithOpening(r), alpha)
  <2> HIDE DEF n, e, v
  <2>1. QED
    BY <1>10, <1>11 DEF ZeroDs
<1>13. WithOpening(r) \in [Party -> Seq(S)]
  <2>1. WithOpening(r) = [p \in Party |-> WithOpening(r)[p]]
    BY DEF WithOpening
  <2>2. QED
    BY <1>9, <2>1
<1>14. QED
  BY <1>12, <1>13 DEF S

LEMMA PublicGrows ==
  ASSUME Types, Inst.op # "Stop", Continue
  PROVE  /\ job' = job /\ status' = status /\ alpha' = alpha
         /\ PublicAfter(job'.code)[pc'] = PublicThen(PublicAfter(job.code)[pc], Inst)
<1>1. pc' = pc + 1 /\ job' = job /\ status' = status /\ alpha' = alpha
  BY DEF Continue
<1>2. pc + 1 \in 1 .. Len(job.code) /\ pc \in Nat /\ Inst = job.code[pc + 1] /\ Len(job.code) \in Nat
  BY InstType, JobsAssumption DEF Types
<1>3. PICK c, k : c = job.code /\ k = pc + 1
  OBVIOUS
<1>4. PublicAfter(c)[k] = PublicThen(PublicAfter(c)[k - 1], c[k])
  <2>1. Len(c) \in Nat /\ k \in 1 .. Len(c)
    BY <1>2, <1>3
  <2>2. QED
    BY <2>1, PublicAfterSteps
<1>5. QED
  BY <1>1, <1>2, <1>3, <1>4

\* An instruction that leaves the clear registers and the openings alone.
LEMMA HonestKeeps ==
  ASSUME Types, Honest, Inst.op \notin {"Stop", "Open", "CAdd", "CSub", "CMul"}, Continue,
         UNCHANGED clear, ZeroDs(openings', alpha),
         \A p \in Party : \A r \in Reg : secret'[p][r] # NoShare => plain'[r] # None
  PROVE  Honest'
<1> DEFINE K == PublicAfter(job.code)[pc]
<1>1. /\ job' = job /\ status' = status /\ alpha' = alpha
      /\ PublicAfter(job'.code)[pc'] = PublicThen(K, Inst)
  BY PublicGrows
<1>2. PublicThen(K, Inst) = K
  <2> HIDE DEF K
  <2>1. QED
    BY DEF PublicThen
<1>3. PublicAfter(job'.code)[pc'] = PublicAfter(job.code)[pc]
  BY <1>1, <1>2
<1>4. ZeroDs(openings, alpha)'
  BY <1>1
<1>5. QED
  BY <1>1, <1>3, <1>4 DEF Honest, Shared

\* One that puts a sharing of a value in a secret register.
LEMMA HonestSecret ==
  ASSUME Types, Honest, Inst.op \notin {"Stop", "Open", "CAdd", "CSub", "CMul"}, Continue,
         UNCHANGED <<clear, openings>>,
         NEW value, NEW ideal, ideal # None, ToSecret(value, ideal)
  PROVE  Honest'
<1>1. \A p \in Party : \A r \in Reg : secret'[p][r] # NoShare => plain'[r] # None
  <2> SUFFICES ASSUME NEW p \in Party, NEW r \in Reg, secret'[p][r] # NoShare
               PROVE  plain'[r] # None
    OBVIOUS
  <2>1. /\ secret \in [Party -> [Reg -> Share \cup {NoShare}]] /\ plain \in [Reg -> Fp \cup {None}]
        /\ Inst.to \in Reg
    BY OldTypes, InstType
  <2>2. /\ secret' = [q \in Party |-> [secret[q] EXCEPT ![Inst.to] = value[q]]]
        /\ plain' = [plain EXCEPT ![Inst.to] = ideal]
    BY DEF ToSecret
  <2>3. CASE r = Inst.to
    BY <2>1, <2>2, <2>3
  <2>4. CASE r # Inst.to
    <3>1. secret'[p][r] = secret[p][r] /\ plain'[r] = plain[r]
      BY <2>1, <2>2, <2>4
    <3>2. QED
      BY <3>1 DEF Honest, Shared
  <2>5. QED
    BY <2>3, <2>4
<1>2. ZeroDs(openings', alpha)
  BY DEF Honest
<1>3. QED
  BY <1>1, <1>2, HonestKeeps

\* What an instruction reads stands for a value.
LEMMA ReadsShared ==
  ASSUME Types, Honest, \A p \in Party : Has(p), NEW r \in SecretOperands, r \in Reg
  PROVE  Shared(r) /\ plain[r] \in Fp
<1>1. secret[0][r] # NoShare /\ 0 \in Party
  BY Parties DEF Has
<1>2. Shared(r)
  BY <1>1 DEF Honest
<1>3. QED
  BY <1>2, OldTypes DEF Shared

LEMMA HonestClearOp ==
  ASSUME SharesInv, Honest, DoClearOp PROVE Honest'
<1>1. Types /\ Ready({"CAdd", "CSub", "CMul"})
  BY DEF SharesInv, DoClearOp
<1>2. Inst.op \in {"CAdd", "CSub", "CMul"} /\ Continue /\ UNCHANGED <<secret, plain, openings>>
  BY <1>1 DEF Ready, Is, DoClearOp, resultVars
<1> DEFINE K == PublicAfter(job.code)[pc]
           v(p) == LET x == clear[p][Inst.a]
                       y == clear[p][Inst.b]
                   IN CASE Inst.op = "CAdd" -> Add(x, y)
                        [] Inst.op = "CSub" -> Sub(x, y)
                        [] OTHER -> Mul(x, y)
<1>3. /\ job' = job /\ status' = status /\ alpha' = alpha
      /\ PublicAfter(job'.code)[pc'] = PublicThen(K, Inst)
  BY <1>1, <1>2, PublicGrows
<1>4. clear' = [p \in Party |-> [clear[p] EXCEPT ![Inst.to] = v(p)]]
  BY DEF DoClearOp, ToClear
<1>5. K \subseteq Reg /\ \A r \in K : \A p \in Party : clear[p][r] = clear[0][r]
  BY DEF Honest
<1>6. PublicThen(K, Inst) = IF {Inst.a, Inst.b} \subseteq K THEN K \cup {Inst.to} ELSE K \ {Inst.to}
  BY <1>2 DEF PublicThen
<1>7. 0 \in Party /\ Inst.to \in Reg /\ clear \in [Party -> [Reg -> Fp \cup {None}]]
  BY <1>1, InstType, OldTypes, Parties
<1>8. \A p \in Party : \A r \in Reg : clear'[p][r] = IF r = Inst.to THEN v(p) ELSE clear[p][r]
  <2> HIDE DEF v
  <2>1. QED
    BY <1>4, <1>7
<1>9. {Inst.a, Inst.b} \subseteq K => \A p \in Party : v(p) = v(0)
  BY <1>5
<1> HIDE DEF K, v
<1>10. \A r \in PublicThen(K, Inst) : r \in Reg /\ \A p \in Party : clear'[p][r] = clear'[0][r]
  <2> TAKE r \in PublicThen(K, Inst)
  <2>1. CASE r = Inst.to
    <3>1. {Inst.a, Inst.b} \subseteq K
      BY <1>6, <2>1
    <3>2. QED
      BY <1>7, <1>8, <1>9, <2>1, <3>1
  <2>2. CASE r # Inst.to
    <3>1. r \in K /\ r \in Reg
      BY <1>5, <1>6, <2>2
    <3>2. QED
      BY <1>5, <1>7, <1>8, <2>2, <3>1
  <2>3. QED
    BY <2>1, <2>2
<1>11. ZeroDs(openings, alpha)'
  BY <1>2, <1>3 DEF Honest
<1>12. QED
  BY <1>2, <1>3, <1>10, <1>11 DEF Honest, Shared

LEMMA HonestSecretOp ==
  ASSUME SharesInv, Honest, DoSecretOp PROVE Honest'
<1>1. Types /\ Ready({"SAdd", "SSub"})
  BY DEF SharesInv, DoSecretOp
<1>2. /\ Inst.op \in {"SAdd", "SSub"} /\ Continue /\ UNCHANGED <<clear, openings>>
      /\ \A p \in Party : Has(p)
  BY <1>1 DEF Ready, Is, DoSecretOp, resultVars
<1> DEFINE add == Inst.op = "SAdd"
           u == plain[Inst.a]
           v == plain[Inst.b]
<1>3. PICK value, ideal :
        /\ ToSecret(value, ideal)
        /\ ideal = IF None \in {u, v} THEN None ELSE IF add THEN Add(u, v) ELSE Sub(u, v)
  BY DEF DoSecretOp, Ideal
<1>4. u \in Fp /\ v \in Fp
  <2>1. Inst.a \in SecretOperands /\ Inst.b \in SecretOperands /\ Inst.a \in Reg /\ Inst.b \in Reg
    BY <1>1, <1>2, InstType DEF SecretOperands
  <2>2. QED
    BY <1>1, <1>2, <2>1, ReadsShared
<1>5. Add(u, v) \in Fp /\ Sub(u, v) \in Fp
  BY <1>4, InFp, Closed
<1> HIDE DEF u, v, add
<1>6. ideal # None
  BY <1>3, <1>4, <1>5, NoneNotInFp
<1>7. QED
  BY <1>1, <1>2, <1>3, <1>6, HonestSecret

\* The clear operand of MAdd and MMul is public.
LEMMA OperandIsPublic ==
  ASSUME Types, Honest, PublicOperands(job.code), Inst.op \in {"MAdd", "MMul"},
         \A p \in Party : Has(p)
  PROVE  Public(Inst.b) \in Fp
<1>1. Inst.b \in PublicAfter(job.code)[pc]
  <2>1. pc + 1 \in DOMAIN job.code /\ Inst = job.code[pc + 1] /\ pc \in Nat
    BY InstType
  <2>2. \A i \in DOMAIN job.code :
          job.code[i].op \in {"MAdd", "MMul"} => job.code[i].b \in PublicAfter(job.code)[i - 1]
    BY DEF PublicOperands
  <2>3. QED
    BY <2>1, <2>2
<1>2. \A p \in Party : clear[p][Inst.b] = clear[0][Inst.b]
  BY <1>1 DEF Honest
<1>3. Public(Inst.b) = clear[0][Inst.b]
  BY <1>2 DEF Public
<1>4. Inst.b \in ClearOperands /\ Inst.b \in Reg /\ 0 \in Party
  BY InstType, Parties DEF ClearOperands
<1>5. QED
  BY <1>3, <1>4, ReadsClear

LEMMA HonestMixedAdd ==
  ASSUME SharesInv, Honest, PublicOperands(job.code), DoMixedAdd PROVE Honest'
<1>1. Types /\ Ready({"MAdd"})
  BY DEF SharesInv, DoMixedAdd
<1>2. /\ Inst.op = "MAdd" /\ Continue /\ UNCHANGED <<clear, openings>>
      /\ \A p \in Party : Has(p)
  BY <1>1 DEF Ready, Is, DoMixedAdd, resultVars
<1> DEFINE u == plain[Inst.a]
           c == Public(Inst.b)
<1>3. PICK value, ideal :
        ToSecret(value, ideal) /\ ideal = IF None \in {u, c} THEN None ELSE Add(u, c)
  BY DEF DoMixedAdd, Ideal
<1>4. u \in Fp
  <2>1. Inst.a \in SecretOperands /\ Inst.a \in Reg
    BY <1>1, <1>2, InstType DEF SecretOperands
  <2>2. QED
    BY <1>1, <1>2, <2>1, ReadsShared
<1>5. c \in Fp
  BY <1>1, <1>2, OperandIsPublic
<1>6. Add(u, c) \in Fp
  BY <1>4, <1>5, InFp, Closed
<1> HIDE DEF u, c
<1>7. ideal # None
  BY <1>3, <1>4, <1>5, <1>6, NoneNotInFp
<1>8. QED
  BY <1>1, <1>2, <1>3, <1>7, HonestSecret

LEMMA HonestMixedMul ==
  ASSUME SharesInv, Honest, PublicOperands(job.code), DoMixedMul PROVE Honest'
<1>1. Types /\ Ready({"MMul"})
  BY DEF SharesInv, DoMixedMul
<1>2. /\ Inst.op = "MMul" /\ Continue /\ UNCHANGED <<clear, openings>>
      /\ \A p \in Party : Has(p)
  BY <1>1 DEF Ready, Is, DoMixedMul, resultVars
<1> DEFINE u == plain[Inst.a]
           c == Public(Inst.b)
<1>3. PICK value, ideal :
        ToSecret(value, ideal) /\ ideal = IF None \in {u, c} THEN None ELSE Mul(u, c)
  BY DEF DoMixedMul, Ideal
<1>4. u \in Fp
  <2>1. Inst.a \in SecretOperands /\ Inst.a \in Reg
    BY <1>1, <1>2, InstType DEF SecretOperands
  <2>2. QED
    BY <1>1, <1>2, <2>1, ReadsShared
<1>5. c \in Fp
  BY <1>1, <1>2, OperandIsPublic
<1>6. Mul(u, c) \in Fp
  BY <1>4, <1>5, InFp, Closed
<1> HIDE DEF u, c
<1>7. ideal # None
  BY <1>3, <1>4, <1>5, <1>6, NoneNotInFp
<1>8. QED
  BY <1>1, <1>2, <1>3, <1>7, HonestSecret

LEMMA HonestInput ==
  ASSUME SharesInv, Honest, DoInput PROVE Honest'
<1>1. Types /\ Ready({"Input"})
  BY DEF SharesInv, DoInput
<1>2. /\ Inst.op = "Input" /\ Continue /\ UNCHANGED <<clear, openings>>
      /\ \A p \in Party : Has(p)
  BY <1>1 DEF Ready, Is, DoInput, resultVars
<1>3. PICK value : ToSecret(value, clear[Inst.id][Inst.a])
  BY DEF DoInput
<1>4. clear[Inst.id][Inst.a] \in Fp
  BY <1>1, <1>2, InstType, ReadsClear
<1>5. clear[Inst.id][Inst.a] # None
  BY <1>4, NoneNotInFp
<1>6. QED
  BY <1>1, <1>2, <1>3, <1>5, HonestSecret

LEMMA HonestTriple ==
  ASSUME SharesInv, Honest, DoTriple PROVE Honest'
<1>1. Types /\ Ready({"Triple"})
  BY DEF SharesInv, DoTriple
<1>2. Inst.op = "Triple" /\ Continue /\ UNCHANGED <<clear, openings>>
  BY <1>1 DEF Ready, Is, DoTriple, resultVars
<1>3. PICK a \in Fp, b \in Fp : \E as \in AuthShare(a), bs \in AuthShare(b), cs \in AuthShare(Mul(a, b)) :
        /\ secret' = [p \in Party |-> [secret[p] EXCEPT
             ![Inst.to] = as[p], ![Inst.a] = bs[p], ![Inst.b] = cs[p]]]
        /\ plain' = [plain EXCEPT ![Inst.to] = a, ![Inst.a] = b, ![Inst.b] = Mul(a, b)]
  BY DEF DoTriple
<1>4. PICK as \in AuthShare(a), bs \in AuthShare(b), cs \in AuthShare(Mul(a, b)) :
        /\ secret' = [p \in Party |-> [secret[p] EXCEPT
             ![Inst.to] = as[p], ![Inst.a] = bs[p], ![Inst.b] = cs[p]]]
        /\ plain' = [plain EXCEPT ![Inst.to] = a, ![Inst.a] = b, ![Inst.b] = Mul(a, b)]
  BY <1>3
<1>5. a # None /\ b # None /\ Mul(a, b) # None
  <2>1. Mul(a, b) \in Fp
    BY InFp, Closed
  <2>2. QED
    BY <2>1, NoneNotInFp
<1>6. /\ secret \in [Party -> [Reg -> Share \cup {NoShare}]] /\ plain \in [Reg -> Fp \cup {None}]
      /\ Inst.to \in Reg /\ Inst.a \in Reg /\ Inst.b \in Reg
  BY <1>1, OldTypes, InstType
<1>7. \A p \in Party : \A r \in Reg : secret'[p][r] # NoShare => plain'[r] # None
  <2> SUFFICES ASSUME NEW p \in Party, NEW r \in Reg, secret'[p][r] # NoShare
               PROVE  plain'[r] # None
    OBVIOUS
  <2>1. CASE r \in {Inst.to, Inst.a, Inst.b}
    BY <1>4, <1>5, <1>6, <2>1
  <2>2. CASE r \notin {Inst.to, Inst.a, Inst.b}
    <3>1. secret'[p][r] = secret[p][r] /\ plain'[r] = plain[r]
      BY <1>4, <1>6, <2>2
    <3>2. QED
      BY <3>1 DEF Honest, Shared
  <2>3. QED
    BY <2>1, <2>2
<1>8. ZeroDs(openings', alpha)
  BY <1>2 DEF Honest
<1>9. QED
  BY <1>1, <1>2, <1>7, <1>8, HonestKeeps

LEMMA HonestOpen ==
  ASSUME SharesInv, Honest, DoOpen PROVE Honest'
<1>1. Types /\ Ready({"Open"})
  BY DEF SharesInv, DoOpen
<1>2. /\ Inst.op = "Open" /\ Continue /\ UNCHANGED <<secret, plain>>
      /\ openings' = WithOpening(Inst.a) /\ \A p \in Party : Has(p)
  BY <1>1 DEF Ready, Is, DoOpen
<1>3. Inst.a \in SecretOperands /\ Inst.a \in Reg /\ Inst.to \in Reg
  BY <1>1, <1>2, InstType DEF SecretOperands
<1>4. Shared(Inst.a)
  BY <1>1, <1>2, <1>3, ReadsShared
<1>5. ZeroDs(WithOpening(Inst.a), alpha)
  BY <1>3, <1>4, OpeningZero DEF Honest
<1> DEFINE K == PublicAfter(job.code)[pc]
           x == Opened(Inst.a)
<1>6. /\ job' = job /\ status' = status /\ alpha' = alpha
      /\ PublicAfter(job'.code)[pc'] = PublicThen(K, Inst)
  BY <1>1, <1>2, PublicGrows
<1>7. PublicThen(K, Inst) = K \cup {Inst.to}
  BY <1>2 DEF PublicThen
<1>8. clear' = [p \in Party |-> [clear[p] EXCEPT ![Inst.to] = x]]
  BY DEF DoOpen, ToClear
<1>9. clear \in [Party -> [Reg -> Fp \cup {None}]] /\ 0 \in Party
  BY <1>1, OldTypes, Parties
<1>10. K \subseteq Reg /\ \A r \in K : \A p \in Party : clear[p][r] = clear[0][r]
  BY DEF Honest
<1> HIDE DEF K, x
<1>11. \A p \in Party : \A r \in Reg : clear'[p][r] = IF r = Inst.to THEN x ELSE clear[p][r]
  BY <1>8, <1>9
<1>12. \A r \in PublicThen(K, Inst) : r \in Reg /\ \A p \in Party : clear'[p][r] = clear'[0][r]
  <2> TAKE r \in PublicThen(K, Inst)
  <2>1. r \in Reg
    BY <1>3, <1>7, <1>10
  <2>2. CASE r = Inst.to
    BY <1>9, <1>11, <2>1, <2>2
  <2>3. CASE r # Inst.to
    <3>1. r \in K
      BY <1>7, <2>3
    <3>2. QED
      BY <1>9, <1>10, <1>11, <2>1, <2>3, <3>1
  <2>4. QED
    BY <2>1, <2>2, <2>3
<1>13. ZeroDs(openings, alpha)'
  BY <1>2, <1>5, <1>6
<1>14. QED
  BY <1>2, <1>6, <1>12, <1>13 DEF Honest, Shared

LEMMA HonestClearOutput ==
  ASSUME SharesInv, Honest, COutput PROVE Honest'
<1>1. Types /\ Ready({"COutput"})
  BY DEF SharesInv, COutput
<1>2. Inst.op = "COutput" /\ Continue /\ UNCHANGED <<clear, secret, plain, openings>>
  BY <1>1 DEF Ready, Is, COutput, regVars
<1>3. /\ ZeroDs(openings', alpha)
      /\ \A p \in Party : \A r \in Reg : secret'[p][r] # NoShare => plain'[r] # None
  BY <1>2 DEF Honest, Shared
<1>4. QED
  BY <1>1, <1>2, <1>3, HonestKeeps

LEMMA HonestSecretOutput ==
  ASSUME SharesInv, Honest, DoSecretOutput PROVE Honest'
<1>1. Types /\ Ready({"SOutput"})
  BY DEF SharesInv, DoSecretOutput
<1>2. Inst.op = "SOutput" /\ UNCHANGED <<clear, secret, plain>> /\ \A p \in Party : Has(p)
  BY <1>1 DEF Ready, Is, DoSecretOutput, regVars
<1>3. Inst.a \in SecretOperands /\ Inst.a \in Reg
  BY <1>1, <1>2, InstType DEF SecretOperands
<1>4. Shared(Inst.a)
  BY <1>1, <1>2, <1>3, ReadsShared
<1>5. Checks(WithOpening(Inst.a))
  <2>1. /\ ZeroDs(WithOpening(Inst.a), alpha)
        /\ WithOpening(Inst.a) \in [Party -> Seq([x : Fp, of : Share])]
    BY <1>3, <1>4, OpeningZero DEF Honest
  <2>2. QED
    BY <2>1, ChecksZero
<1>6. openings' = [p \in Party |-> <<>>] /\ Continue
  BY <1>5 DEF DoSecretOutput
<1>7. /\ ZeroDs(openings', alpha)
      /\ \A p \in Party : \A r \in Reg : secret'[p][r] # NoShare => plain'[r] # None
  BY <1>2, <1>6, EmptyZero DEF Honest, Shared
<1>8. QED
  BY <1>1, <1>2, <1>6, <1>7, HonestKeeps

\* The computation ends without a failed check.
LEMMA HonestEnd ==
  ASSUME SharesInv, Honest, DoStop \/ EmptyError PROVE Honest'
<1>1. UNCHANGED <<job, alpha, pc, clear, secret, plain>>
  BY DEF DoStop, EmptyError, regVars, resultVars
<1>2. openings \in [Party -> Seq([x : Fp, of : Share])] /\ ZeroDs(openings, alpha)
  BY OldTypes DEF SharesInv, Honest
<1>3. Checks(openings)
  BY <1>2, ChecksZero
<1>4. /\ status' # "MACCheckError"
      /\ openings' = openings \/ openings' = [p \in Party |-> <<>>]
  <2>1. CASE DoStop
    BY <1>3, <2>1 DEF DoStop
  <2>2. CASE EmptyError
    BY <2>2 DEF EmptyError, resultVars
  <2>3. QED
    BY <2>1, <2>2
<1>5. ZeroDs(openings', alpha)
  BY <1>2, <1>4, EmptyZero
<1>6. ZeroDs(openings, alpha)'
  BY <1>1, <1>5
<1>7. QED
  BY <1>1, <1>4, <1>6 DEF Honest, Shared

LEMMA InitHonest == Init => Honest
<1> SUFFICES ASSUME Init PROVE Honest
  OBVIOUS
<1>1. job.code \in Seq(Instruction) /\ DOMAIN job.code # {} /\ pc = 0
  BY JobsAssumption DEF Init
<1>2. Len(job.code) \in Nat /\ 1 \in 1 .. Len(job.code)
  BY <1>1
<1>3. PublicAfter(job.code)[pc] = {}
  BY <1>1, <1>2, PublicAfterSteps
<1>4. ZeroDs(openings, alpha)
  BY EmptyZero DEF Init
<1>5. QED
  BY <1>3, <1>4 DEF Init, Honest

\* Parties that follow the protocol with public operands never fail a MAC check
\* (mac_check), of whatever program, for any prime and number of parties.
THEOREM HonestPassesHolds == Spec => []HonestPasses
<1>1. Init => HonestInv
  BY InitShares, InitHonest DEF HonestInv
<1>2. HonestInv /\ SharesInv' /\ [Next]_vars => HonestInv'
  <2> SUFFICES ASSUME HonestInv, SharesInv', [Next]_vars PROVE HonestInv'
    OBVIOUS
  <2>1. job' = job
    BY DEF Next, vars, EmptyError, DoClearOp, DoSecretOp, DoMixedAdd, DoMixedMul, DoInput,
           DoTriple, DoOpen, COutput, DoSecretOutput, DoStop, Continue
  <2>2. SUFFICES ASSUME PublicOperands(job.code) PROVE Honest'
    BY <2>1 DEF HonestInv
  <2>3. SharesInv /\ Honest
    BY <2>2 DEF HonestInv
  <2>4. CASE UNCHANGED vars
    BY <2>3, <2>4 DEF vars, regVars, resultVars, Honest, Shared
  <2>5. CASE Next
    BY <2>2, <2>3, <2>4, <2>5, HonestClearOp, HonestSecretOp, HonestMixedAdd, HonestMixedMul,
       HonestInput, HonestTriple, HonestOpen, HonestClearOutput, HonestSecretOutput, HonestEnd
       DEF Next
  <2>6. QED
    BY <2>4, <2>5
<1>3. HonestInv => HonestPasses
  BY DEF HonestInv, Honest, HonestPasses
<1>4. QED
  BY <1>1, <1>2, <1>3, SharesInductive, PTL DEF Spec

-----------------------------------------------------------------------------
(* MUL_PROG multiplies.                                                    *)

\* With e = x - a and d = y - b, the product of x and y is ab + be + ad + ed.
LEMMA Beaver ==
  ASSUME NEW x \in Fp, NEW y \in Fp, NEW a \in Fp, NEW b \in Fp
  PROVE  Add(Add(Add(Mul(a, b), Mul(b, Sub(x, a))), Mul(a, Sub(y, b))), Mul(Sub(x, a), Sub(y, b)))
           = Mul(x, y)
<1> DEFINE e == Sub(x, a)
           d == Sub(y, b)
<1>1. e \in Fp /\ d \in Fp /\ Add(a, e) = x /\ Add(b, d) = y
  BY InFp, Closed, AddLaws
<1> HIDE DEF e, d
<1>2. /\ Mul(a, b) \in Fp /\ Mul(a, d) \in Fp /\ Mul(b, e) \in Fp /\ Mul(e, d) \in Fp
      /\ Mul(a, y) \in Fp /\ Mul(e, y) \in Fp /\ Mul(e, b) \in Fp
  BY <1>1, InFp, Closed
<1>3. /\ Add(Mul(a, b), Mul(a, d)) = Mul(a, y) /\ Add(Mul(e, b), Mul(e, d)) = Mul(e, y)
      /\ Add(Mul(a, y), Mul(e, y)) = Mul(x, y) /\ Mul(b, e) = Mul(e, b)
  <2>1. Add(Mul(b, a), Mul(d, a)) = Mul(y, a) /\ Add(Mul(b, e), Mul(d, e)) = Mul(y, e)
    BY <1>1, MulLaws
  <2>2. /\ Mul(b, a) = Mul(a, b) /\ Mul(d, a) = Mul(a, d) /\ Mul(y, a) = Mul(a, y)
        /\ Mul(b, e) = Mul(e, b) /\ Mul(d, e) = Mul(e, d) /\ Mul(y, e) = Mul(e, y)
    BY <1>1, MulLaws
  <2>3. Add(Mul(a, y), Mul(e, y)) = Mul(x, y)
    BY <1>1, MulLaws
  <2>4. QED
    BY <2>1, <2>2, <2>3
<1>4. \A q, r, s, t \in Fp : Add(Add(Add(q, r), s), t) = Add(Add(q, s), Add(r, t))
  <2> SUFFICES ASSUME NEW q \in Fp, NEW r \in Fp, NEW s \in Fp, NEW t \in Fp
               PROVE  Add(Add(Add(q, r), s), t) = Add(Add(q, s), Add(r, t))
    OBVIOUS
  <2>1. 0 \in Fp /\ Add(q, r) \in Fp /\ Add(q, s) \in Fp
    BY NoneNotInFp, InFp, Closed
  <2>2. Add(Add(q, r), Add(s, 0)) = Add(Add(q, s), Add(r, 0))
    BY <2>1, AddLaws
  <2>3. Add(s, 0) = s /\ Add(r, 0) = r
    BY AddLaws
  <2>4. Add(Add(Add(q, s), r), Add(0, t)) = Add(Add(Add(q, s), 0), Add(r, t))
    BY <2>1, AddLaws
  <2>5. Add(0, t) = t /\ Add(Add(q, s), 0) = Add(q, s)
    BY <2>1, AddLaws
  <2>6. QED
    BY <2>2, <2>3, <2>4, <2>5
<1>5. Add(Add(Add(Mul(a, b), Mul(b, e)), Mul(a, d)), Mul(e, d))
        = Add(Add(Mul(a, b), Mul(a, d)), Add(Mul(b, e), Mul(e, d)))
  BY <1>2, <1>4
<1>6. QED
  BY <1>3, <1>5 DEF e, d

LEMMA MulInstructions ==
  /\ DOMAIN MulCode = 1 .. 15
  /\ MulCode[1] = Input(0, 0, 0)
  /\ MulCode[2] = Input(1, 1, 1)
  /\ MulCode[3] = Inst3("Triple", 2, 3, 4)
  /\ MulCode[4] = Inst3("SSub", 5, 0, 2)
  /\ MulCode[5] = Inst3("SSub", 6, 1, 3)
  /\ MulCode[6] = Open(5, 5)
  /\ MulCode[7] = Open(6, 6)
  /\ MulCode[8] = Inst3("MMul", 7, 3, 5)
  /\ MulCode[9] = Inst3("MMul", 8, 2, 6)
  /\ MulCode[10] = Inst3("CMul", 9, 5, 6)
  /\ MulCode[11] = Inst3("SAdd", 10, 4, 7)
  /\ MulCode[12] = Inst3("SAdd", 10, 10, 8)
  /\ MulCode[13] = MAdd(10, 10, 9, 0)
  /\ MulCode[14] = SOutput(10)
  /\ MulCode[15] = Stop
  BY DEF MulCode

LEMMA MulInst ==
  ASSUME Types, job.code = MulCode
  PROVE  /\ pc \in 0 .. 14 /\ 0 \in Party /\ 1 \in Party
         /\ pc = 0 => Inst.op = "Input" /\ Inst.to = 0 /\ Inst.a = 0 /\ Inst.id = 0
         /\ pc = 1 => Inst.op = "Input" /\ Inst.to = 1 /\ Inst.a = 1 /\ Inst.id = 1
         /\ pc = 2 => Inst.op = "Triple" /\ Inst.to = 2 /\ Inst.a = 3 /\ Inst.b = 4
         /\ pc = 3 => Inst.op = "SSub" /\ Inst.to = 5 /\ Inst.a = 0 /\ Inst.b = 2
         /\ pc = 4 => Inst.op = "SSub" /\ Inst.to = 6 /\ Inst.a = 1 /\ Inst.b = 3
         /\ pc = 5 => Inst.op = "Open" /\ Inst.to = 5 /\ Inst.a = 5
         /\ pc = 6 => Inst.op = "Open" /\ Inst.to = 6 /\ Inst.a = 6
         /\ pc = 7 => Inst.op = "MMul" /\ Inst.to = 7 /\ Inst.a = 3 /\ Inst.b = 5
         /\ pc = 8 => Inst.op = "MMul" /\ Inst.to = 8 /\ Inst.a = 2 /\ Inst.b = 6
         /\ pc = 9 => Inst.op = "CMul" /\ Inst.to = 9 /\ Inst.a = 5 /\ Inst.b = 6
         /\ pc = 10 => Inst.op = "SAdd" /\ Inst.to = 10 /\ Inst.a = 4 /\ Inst.b = 7
         /\ pc = 11 => Inst.op = "SAdd" /\ Inst.to = 10 /\ Inst.a = 10 /\ Inst.b = 8
         /\ pc = 12 => Inst.op = "MAdd" /\ Inst.to = 10 /\ Inst.a = 10 /\ Inst.b = 9
         /\ pc = 13 => Inst.op = "SOutput" /\ Inst.a = 10
         /\ pc = 14 => Inst.op = "Stop"
<1>1. pc \in 0 .. 14
  <2>1. pc + 1 \in 1 .. 15 /\ pc \in Nat
    BY InstType, MulInstructions
  <2>2. QED
    BY <2>1
<1>2. Inst = MulCode[pc + 1]
  BY InstType
<1>3. 0 \in Party /\ 1 \in Party
  <2>1. MulCode \in Seq(Instruction)
    BY JobsAssumption DEF Types
  <2>2. MulCode[2] \in Instruction
    <3>1. 2 \in DOMAIN MulCode
      BY MulInstructions
    <3>2. \A S : \A q \in Seq(S) : \A i \in DOMAIN q : q[i] \in S
      OBVIOUS
    <3>3. QED
      BY <2>1, <3>1, <3>2
  <2>3. MulCode[2].id \in Party /\ MulCode[2].id = 1
    BY <2>2, MulInstructions DEF Instruction, Input
  <2>4. QED
    BY <2>3, Parties
<1>4. 0 + 1 = 1 /\ 1 + 1 = 2 /\ 2 + 1 = 3 /\ 3 + 1 = 4 /\ 4 + 1 = 5 /\ 5 + 1 = 6 /\ 6 + 1 = 7
      /\ 7 + 1 = 8 /\ 8 + 1 = 9 /\ 9 + 1 = 10 /\ 10 + 1 = 11 /\ 11 + 1 = 12 /\ 12 + 1 = 13
      /\ 13 + 1 = 14 /\ 14 + 1 = 15
  OBVIOUS
<1>5. QED
  BY <1>1, <1>2, <1>3, <1>4, MulInstructions DEF Inst3, Input, MAdd, Open, SOutput, Stop

\* What the secret registers v stand for after k instructions of MUL_PROG.
MulPlain(k, x, y, v) ==
  LET a == v[2]
      b == v[3]
      e == Sub(x, a)
      d == Sub(y, b)
  IN /\ k >= 1 => v[0] = x
     /\ k >= 2 => v[1] = y
     /\ k >= 3 => a \in Fp /\ b \in Fp /\ v[4] = Mul(a, b)
     /\ k >= 4 => v[5] = e
     /\ k >= 5 => v[6] = d
     /\ k >= 8 => v[7] = Mul(b, e)
     /\ k >= 9 => v[8] = Mul(a, d)
     /\ k = 11 => v[10] = Add(Mul(a, b), Mul(b, e))
     /\ k = 12 => v[10] = Add(Add(Mul(a, b), Mul(b, e)), Mul(a, d))
     /\ k >= 13 => v[10] = Mul(x, y)

\* What every party has in its clear registers.
MulPublic(k, x, y, v, c) ==
  LET e == Sub(x, v[2])
      d == Sub(y, v[3])
  IN /\ c[0][0] = x /\ c[1][1] = y
     /\ k >= 6 => \A p \in Party : c[p][5] = e
     /\ k >= 7 => \A p \in Party : c[p][6] = d
     /\ k >= 10 => \A p \in Party : c[p][9] = Mul(e, d)

MulOutput ==
  /\ pc <= 13 => \A p \in Party : output[p] = <<>>
  /\ pc >= 14 => \A p \in Party : output[p] = <<secret[p][10].share>>
  /\ status = "ok" => pc = 14

MulValues ==
  /\ inputs[0][1] \in Fp /\ inputs[1][2] \in Fp
  /\ MulPlain(pc, inputs[0][1], inputs[1][2], plain)
  /\ MulPublic(pc, inputs[0][1], inputs[1][2], plain, clear)
  /\ MulOutput

MulInv == SharesInv /\ (job.code = MulCode => MulValues)

LEMMA MulRegisters == 0 .. 10 = Reg
  BY DEF Reg

\* from_prog puts the inputs in registers 0 and 1.
LEMMA InitMul ==
  ASSUME Init, job.code = MulCode PROVE MulValues
<1>1. Types /\ pc = 0 /\ status = "run"
  BY InitShares DEF SharesInv, Init
<1>2. 0 \in Party /\ 1 \in Party
  BY <1>1, MulInst
<1>3. \A p \in Party : clear[p] = FromProg(p, MulCode, inputs[p])
  BY DEF Init
<1>4. /\ \A i \in DOMAIN MulCode : MulCode[i].op = "Input" <=> i \in {1, 2}
      /\ 1 \in DOMAIN MulCode /\ 2 \in DOMAIN MulCode
      /\ MulCode[1].id = 0 /\ MulCode[1].a = 0 /\ MulCode[2].id = 1 /\ MulCode[2].a = 1
  BY MulInstructions DEF Inst3, Input, MAdd, Open, SOutput, Stop
<1>5. InputsOf(0, MulCode) = {1} /\ InputsOf(1, MulCode) = {2}
  BY <1>4 DEF InputsOf
<1>6. FromProg(0, MulCode, inputs[0])[0] = inputs[0][1]
  <2>1. {i \in InputsOf(0, MulCode) : MulCode[i].a = 0} = {1}
    BY <1>4, <1>5
  <2>2. (CHOOSE i \in {1} : \A j \in {1} : j <= i) = 1
    OBVIOUS
  <2>3. {1} # {} /\ 0 \in Reg
    BY MulRegisters
  <2>4. FromProg(0, MulCode, inputs[0])[0] = inputs[0][CHOOSE i \in {1} : \A j \in {1} : j <= i]
    BY <2>1, <2>3 DEF FromProg
  <2>5. QED
    BY <2>2, <2>4
<1>7. FromProg(1, MulCode, inputs[1])[1] = inputs[1][2]
  <2>1. {i \in InputsOf(1, MulCode) : MulCode[i].a = 1} = {2}
    BY <1>4, <1>5
  <2>2. (CHOOSE i \in {2} : \A j \in {2} : j <= i) = 2
    OBVIOUS
  <2>3. {2} # {} /\ 1 \in Reg
    BY MulRegisters
  <2>4. FromProg(1, MulCode, inputs[1])[1] = inputs[1][CHOOSE i \in {2} : \A j \in {2} : j <= i]
    BY <2>1, <2>3 DEF FromProg
  <2>5. QED
    BY <2>2, <2>4
<1>8. inputs[0][1] \in Fp /\ inputs[1][2] \in Fp
  <2>1. \A p \in Party : inputs[p] \in [InputsOf(p, MulCode) -> Fp]
    BY InputsType
  <2>2. QED
    BY <1>2, <1>5, <2>1
<1>9. clear[0][0] = inputs[0][1] /\ clear[1][1] = inputs[1][2]
  BY <1>2, <1>3, <1>6, <1>7
<1>10. \A p \in Party : output[p] = <<>>
  BY DEF Init
<1>11. MulPlain(pc, inputs[0][1], inputs[1][2], plain)
  BY <1>1 DEF MulPlain
<1>12. MulPublic(pc, inputs[0][1], inputs[1][2], plain, clear)
  BY <1>1, <1>9 DEF MulPublic
<1>13. MulOutput
  BY <1>1, <1>10 DEF MulOutput
<1>14. QED
  BY <1>8, <1>11, <1>12, <1>13 DEF MulValues

LEMMA SecretChange ==
  ASSUME Types, NEW value, NEW ideal, ToSecret(value, ideal)
  PROVE  \A r \in Reg : plain'[r] = IF r = Inst.to THEN ideal ELSE plain[r]
<1>1. plain \in [Reg -> Fp \cup {None}] /\ plain' = [plain EXCEPT ![Inst.to] = ideal] /\ Inst.to \in Reg
  BY OldTypes, InstType DEF ToSecret
<1>2. QED
  BY <1>1

\* An instruction before the output changes registers only.
LEMMA MulOutputKeeps ==
  ASSUME Types, MulOutput, pc <= 12, status = "run", Continue, UNCHANGED output
  PROVE  MulOutput'
<1>1. pc' = pc + 1 /\ pc \in Nat /\ status' = "run"
  BY InstType DEF Continue
<1>2. pc <= 13 /\ pc' <= 13 /\ ~(pc' >= 14)
  BY <1>1
<1>3. QED
  BY <1>1, <1>2 DEF MulOutput

LEMMA MulInput ==
  ASSUME SharesInv, job.code = MulCode, MulValues, DoInput PROVE MulValues'
<1>1. Types /\ Ready({"Input"}) /\ Continue /\ UNCHANGED <<clear, output>>
  BY DEF SharesInv, DoInput, resultVars
<1>2. status = "run" /\ Inst.op = "Input" /\ pc' = pc + 1 /\ inputs' = inputs
  BY <1>1 DEF Ready, Is, Continue
<1>3. pc \in {0, 1} /\ 0 \in Party /\ 1 \in Party
  BY <1>1, <1>2, MulInst
<1>4. PICK value : ToSecret(value, clear[Inst.id][Inst.a])
  BY DEF DoInput
<1> DEFINE x == inputs[0][1]
           y == inputs[1][2]
<1>5. \A r \in Reg : plain'[r] = IF r = Inst.to THEN clear[Inst.id][Inst.a] ELSE plain[r]
  BY <1>1, <1>4, SecretChange
<1>6. clear[0][0] = x /\ clear[1][1] = y /\ (pc = 1 => plain[0] = x)
  BY DEF MulValues, MulPublic, MulPlain
<1>7. MulPlain(pc + 1, x, y, plain')
  <2>1. CASE pc = 0
    <3>1. plain'[0] = x
      BY <1>1, <1>5, <1>6, <2>1, MulInst, MulRegisters
    <3>2. QED
      BY <2>1, <3>1 DEF MulPlain
  <2>2. CASE pc = 1
    <3>1. plain'[0] = x /\ plain'[1] = y
      BY <1>1, <1>5, <1>6, <2>2, MulInst, MulRegisters
    <3>2. QED
      BY <2>2, <3>1 DEF MulPlain
  <2>3. QED
    BY <1>3, <2>1, <2>2
<1>8. MulPublic(pc + 1, x, y, plain', clear)
  BY <1>3, <1>6 DEF MulPublic
<1>9. MulOutput'
  BY <1>1, <1>2, <1>3, MulOutputKeeps DEF MulValues
<1>10. QED
  BY <1>1, <1>2, <1>7, <1>8, <1>9 DEF MulValues

LEMMA MulTriple ==
  ASSUME SharesInv, job.code = MulCode, MulValues, DoTriple PROVE MulValues'
<1>1. Types /\ Ready({"Triple"}) /\ Continue /\ UNCHANGED <<clear, output>>
  BY DEF SharesInv, DoTriple, resultVars
<1>2. status = "run" /\ Inst.op = "Triple" /\ pc' = pc + 1 /\ inputs' = inputs
  BY <1>1 DEF Ready, Is, Continue
<1>3. pc = 2 /\ Inst.to = 2 /\ Inst.a = 3 /\ Inst.b = 4
  BY <1>1, <1>2, MulInst
<1>4. PICK a \in Fp, b \in Fp :
        plain' = [plain EXCEPT ![Inst.to] = a, ![Inst.a] = b, ![Inst.b] = Mul(a, b)]
  BY DEF DoTriple
<1> DEFINE x == inputs[0][1]
           y == inputs[1][2]
<1>5. plain \in [Reg -> Fp \cup {None}] /\ plain[0] = x /\ plain[1] = y
  BY <1>1, <1>3, OldTypes DEF MulValues, MulPlain
<1>6. /\ plain'[0] = x /\ plain'[1] = y /\ plain'[2] = a /\ plain'[3] = b
      /\ plain'[4] = Mul(a, b)
  BY <1>3, <1>4, <1>5, MulRegisters
<1>7. MulPlain(3, x, y, plain')
  BY <1>6 DEF MulPlain
<1>8. MulPublic(3, x, y, plain', clear)
  BY DEF MulValues, MulPublic
<1>9. MulOutput'
  BY <1>1, <1>2, <1>3, MulOutputKeeps DEF MulValues
<1>10. pc' = 3
  BY <1>2, <1>3
<1>11. QED
  BY <1>1, <1>2, <1>7, <1>8, <1>9, <1>10 DEF MulValues

\* An instruction after Triple that puts a value in another register.
LEMMA MulSecret ==
  ASSUME Types, job.code = MulCode, MulValues, status = "run", Continue, UNCHANGED <<clear, output>>,
         pc \in {3, 4, 7, 8, 10, 11, 12}, NEW value, NEW ideal, ToSecret(value, ideal),
         NEW x, NEW y, NEW a, NEW b, NEW e, NEW d,
         x = inputs[0][1], y = inputs[1][2], a = plain[2], b = plain[3],
         e = Sub(x, a), d = Sub(y, b),
         pc = 3 => ideal = e,
         pc = 4 => ideal = d,
         pc = 7 => ideal = Mul(b, e),
         pc = 8 => ideal = Mul(a, d),
         pc = 10 => ideal = Add(Mul(a, b), Mul(b, e)),
         pc = 11 => ideal = Add(Add(Mul(a, b), Mul(b, e)), Mul(a, d)),
         pc = 12 => ideal = Mul(x, y)
  PROVE  MulValues'
<1>1. /\ pc' = pc + 1 /\ inputs' = inputs
      /\ \A r \in Reg : plain'[r] = IF r = Inst.to THEN ideal ELSE plain[r]
  BY SecretChange DEF Continue
<1>2. Inst.to = CASE pc = 3 -> 5 [] pc = 4 -> 6 [] pc = 7 -> 7 [] pc = 8 -> 8 [] OTHER -> 10
  BY MulInst
<1>3. MulPlain(pc, x, y, plain) /\ MulPublic(pc, x, y, plain, clear)
  BY DEF MulValues
<1>4. plain'[2] = a /\ plain'[3] = b /\ plain'[0] = x /\ plain'[1] = y
      /\ a \in Fp /\ b \in Fp /\ plain'[4] = Mul(a, b)
  <2>1. /\ a \in Fp /\ b \in Fp /\ plain[0] = x /\ plain[1] = y /\ plain[4] = Mul(a, b)
    BY <1>3 DEF MulPlain
  <2>2. QED
    BY <1>1, <1>2, <2>1, MulRegisters
<1>5. /\ pc + 1 >= 4 => plain'[5] = e
      /\ pc + 1 >= 5 => plain'[6] = d
      /\ pc + 1 >= 8 => plain'[7] = Mul(b, e)
      /\ pc + 1 >= 9 => plain'[8] = Mul(a, d)
  <2>1. /\ pc >= 4 => plain[5] = e
        /\ pc >= 5 => plain[6] = d
        /\ pc >= 8 => plain[7] = Mul(b, e)
        /\ pc >= 9 => plain[8] = Mul(a, d)
    BY <1>3 DEF MulPlain
  <2>2. /\ plain'[5] = IF pc = 3 THEN ideal ELSE plain[5]
        /\ plain'[6] = IF pc = 4 THEN ideal ELSE plain[6]
        /\ plain'[7] = IF pc = 7 THEN ideal ELSE plain[7]
        /\ plain'[8] = IF pc = 8 THEN ideal ELSE plain[8]
    BY <1>1, <1>2, MulRegisters
  <2>3. QED
    BY <2>1, <2>2
<1>6. pc \in {10, 11, 12} => plain'[10] = ideal
  BY <1>1, <1>2, MulRegisters
<1>7. MulPlain(pc + 1, x, y, plain')
  <2>1. plain'[2] = a /\ plain'[3] = b /\ Sub(x, a) = e /\ Sub(y, b) = d
    BY <1>4
  <2>2. pc + 1 = 11 => plain'[10] = Add(Mul(a, b), Mul(b, e))
    BY <1>6
  <2>3. pc + 1 = 12 => plain'[10] = Add(Add(Mul(a, b), Mul(b, e)), Mul(a, d))
    BY <1>6
  <2>4. pc + 1 >= 13 => plain'[10] = Mul(x, y)
    BY <1>6
  <2>5. QED
    BY <1>4, <1>5, <2>1, <2>2, <2>3, <2>4 DEF MulPlain
<1>8. MulPublic(pc + 1, x, y, plain', clear)
  <2>1. plain'[2] = plain[2] /\ plain'[3] = plain[3]
    BY <1>4
  <2>2. /\ pc + 1 >= 6 => pc >= 6
        /\ pc + 1 >= 7 => pc >= 7
        /\ pc + 1 >= 10 => pc >= 10 \/ pc = 9
    OBVIOUS
  <2>3. pc # 9
    OBVIOUS
  <2>4. QED
    BY <1>3, <2>1, <2>2, <2>3 DEF MulPublic
<1>9. MulOutput'
  BY MulOutputKeeps DEF MulValues
<1>10. QED
  BY <1>1, <1>7, <1>8, <1>9 DEF MulValues

\* What the values that are known before an instruction are.
LEMMA MulKnown ==
  ASSUME Types, job.code = MulCode, MulValues, pc >= 3,
         NEW x, NEW y, NEW a, NEW b, NEW e, NEW d,
         x = inputs[0][1], y = inputs[1][2], a = plain[2], b = plain[3],
         e = Sub(x, a), d = Sub(y, b)
  PROVE  /\ x \in Fp /\ y \in Fp /\ a \in Fp /\ b \in Fp /\ e \in Fp /\ d \in Fp
         /\ Mul(a, b) \in Fp /\ Mul(b, e) \in Fp /\ Mul(a, d) \in Fp /\ Mul(e, d) \in Fp
         /\ Add(Mul(a, b), Mul(b, e)) \in Fp
         /\ Add(Add(Mul(a, b), Mul(b, e)), Mul(a, d)) \in Fp
         /\ plain[0] = x /\ plain[1] = y /\ plain[4] = Mul(a, b)
         /\ pc >= 4 => plain[5] = e
         /\ pc >= 5 => plain[6] = d
         /\ pc >= 8 => plain[7] = Mul(b, e)
         /\ pc >= 9 => plain[8] = Mul(a, d)
         /\ pc = 11 => plain[10] = Add(Mul(a, b), Mul(b, e))
         /\ pc = 12 => plain[10] = Add(Add(Mul(a, b), Mul(b, e)), Mul(a, d))
         /\ pc >= 13 => plain[10] = Mul(x, y)
         /\ pc >= 6 => \A p \in Party : clear[p][5] = e
         /\ pc >= 7 => \A p \in Party : clear[p][6] = d
         /\ pc >= 10 => \A p \in Party : clear[p][9] = Mul(e, d)
<1>1. x \in Fp /\ y \in Fp /\ MulPlain(pc, x, y, plain) /\ MulPublic(pc, x, y, plain, clear) /\ pc \in Nat
  BY InstType DEF MulValues
<1>2. a \in Fp /\ b \in Fp /\ plain[0] = x /\ plain[1] = y /\ plain[4] = Mul(a, b)
  BY <1>1 DEF MulPlain
<1>3. e \in Fp /\ d \in Fp
  BY <1>1, <1>2, InFp, Closed
<1>4. /\ Mul(a, b) \in Fp /\ Mul(b, e) \in Fp /\ Mul(a, d) \in Fp /\ Mul(e, d) \in Fp
  BY <1>2, <1>3, InFp, Closed
<1>5. Add(Mul(a, b), Mul(b, e)) \in Fp
  BY <1>4, InFp, Closed
<1>6. Add(Add(Mul(a, b), Mul(b, e)), Mul(a, d)) \in Fp
  BY <1>4, <1>5, InFp, Closed
<1>7. /\ pc >= 4 => plain[5] = e
      /\ pc >= 5 => plain[6] = d
      /\ pc >= 8 => plain[7] = Mul(b, e)
      /\ pc >= 9 => plain[8] = Mul(a, d)
      /\ pc = 11 => plain[10] = Add(Mul(a, b), Mul(b, e))
      /\ pc = 12 => plain[10] = Add(Add(Mul(a, b), Mul(b, e)), Mul(a, d))
      /\ pc >= 13 => plain[10] = Mul(x, y)
  BY <1>1 DEF MulPlain
<1>8. /\ pc >= 6 => \A p \in Party : clear[p][5] = e
      /\ pc >= 7 => \A p \in Party : clear[p][6] = d
      /\ pc >= 10 => \A p \in Party : clear[p][9] = Mul(e, d)
  BY <1>1 DEF MulPublic
<1>9. QED
  BY <1>1, <1>2, <1>3, <1>4, <1>5, <1>6, <1>7, <1>8

LEMMA MulNames ==
  \E x, y, a, b, e, d :
    /\ x = inputs[0][1] /\ y = inputs[1][2] /\ a = plain[2] /\ b = plain[3]
    /\ e = Sub(x, a) /\ d = Sub(y, b)
  OBVIOUS

\* The shares of a register add up to what it stands for.
LEMMA OpenedIs ==
  ASSUME SharesInv, NEW r \in Reg, Shared(r) PROVE Opened(r) = plain[r]
<1> DEFINE v == [p \in Party |-> secret[p][r]]
<1>1. Sharing(v, plain[r], alpha)
  BY DEF SharesInv, Sharings
<1>2. [p \in Party |-> v[p].share] = [p \in Party |-> secret[p][r].share]
  OBVIOUS
<1> HIDE DEF v
<1>3. QED
  BY <1>1, <1>2 DEF Sharing, Opened

LEMMA MulSecretOp ==
  ASSUME SharesInv, job.code = MulCode, MulValues, DoSecretOp PROVE MulValues'
<1>1. Types /\ Ready({"SAdd", "SSub"}) /\ Continue /\ UNCHANGED <<clear, output>>
  BY DEF SharesInv, DoSecretOp, resultVars
<1>2. status = "run" /\ Inst.op \in {"SAdd", "SSub"}
  BY <1>1 DEF Ready, Is
<1>3. pc \in {3, 4, 10, 11}
  BY <1>1, <1>2, MulInst
<1>4. PICK value, ideal :
        /\ ToSecret(value, ideal)
        /\ ideal = IF Inst.op = "SAdd" THEN Ideal(Add, plain[Inst.a], plain[Inst.b])
                                      ELSE Ideal(Sub, plain[Inst.a], plain[Inst.b])
  BY DEF DoSecretOp
<1>5. PICK x, y, a, b, e, d :
        /\ x = inputs[0][1] /\ y = inputs[1][2] /\ a = plain[2] /\ b = plain[3]
        /\ e = Sub(x, a) /\ d = Sub(y, b)
  BY MulNames
<1>6. \A v, w \in Fp : Ideal(Add, v, w) = Add(v, w) /\ Ideal(Sub, v, w) = Sub(v, w)
  BY NoneNotInFp DEF Ideal
<1>7. ToSecret(value, ideal)
  BY <1>4
<1>8. CASE pc = 3
  <2>1. Inst.op = "SSub" /\ Inst.a = 0 /\ Inst.b = 2
    BY <1>1, <1>8, MulInst
  <2>2. x \in Fp /\ a \in Fp /\ plain[0] = x
    BY <1>1, <1>5, <1>8, MulKnown
  <2>3. ideal = e
    BY <1>4, <1>5, <1>6, <2>1, <2>2
  <2>4. QED
    BY <1>1, <1>2, <1>5, <1>7, <1>8, <2>3, MulSecret
<1>9. CASE pc = 4
  <2>1. Inst.op = "SSub" /\ Inst.a = 1 /\ Inst.b = 3
    BY <1>1, <1>9, MulInst
  <2>2. y \in Fp /\ b \in Fp /\ plain[1] = y
    BY <1>1, <1>5, <1>9, MulKnown
  <2>3. ideal = d
    BY <1>4, <1>5, <1>6, <2>1, <2>2
  <2>4. QED
    BY <1>1, <1>2, <1>5, <1>7, <1>9, <2>3, MulSecret
<1>10. CASE pc = 10
  <2>1. Inst.op = "SAdd" /\ Inst.a = 4 /\ Inst.b = 7
    BY <1>1, <1>10, MulInst
  <2>2. /\ Mul(a, b) \in Fp /\ plain[4] = Mul(a, b)
        /\ Mul(b, e) \in Fp /\ plain[7] = Mul(b, e)
    BY <1>1, <1>5, <1>10, MulKnown
  <2>3. ideal = Add(Mul(a, b), Mul(b, e))
    BY <1>4, <1>6, <2>1, <2>2
  <2>4. QED
    BY <1>1, <1>2, <1>5, <1>7, <1>10, <2>3, MulSecret
<1>11. CASE pc = 11
  <2>1. Inst.op = "SAdd" /\ Inst.a = 10 /\ Inst.b = 8
    BY <1>1, <1>11, MulInst
  <2>2. /\ Add(Mul(a, b), Mul(b, e)) \in Fp /\ plain[10] = Add(Mul(a, b), Mul(b, e))
        /\ Mul(a, d) \in Fp /\ plain[8] = Mul(a, d)
    BY <1>1, <1>5, <1>11, MulKnown
  <2>3. ideal = Add(Add(Mul(a, b), Mul(b, e)), Mul(a, d))
    BY <1>4, <1>6, <2>1, <2>2
  <2>4. QED
    BY <1>1, <1>2, <1>5, <1>7, <1>11, <2>3, MulSecret
<1>12. QED
  BY <1>3, <1>8, <1>9, <1>10, <1>11

LEMMA MulPublicOperand ==
  ASSUME Types, NEW r \in Reg, NEW c, \A p \in Party : clear[p][r] = c
  PROVE  Public(r) = c
  BY Parties DEF Public

LEMMA MulMixedMul ==
  ASSUME SharesInv, job.code = MulCode, MulValues, DoMixedMul PROVE MulValues'
<1>1. Types /\ Ready({"MMul"}) /\ Continue /\ UNCHANGED <<clear, output>>
  BY DEF SharesInv, DoMixedMul, resultVars
<1>2. status = "run" /\ Inst.op = "MMul"
  BY <1>1 DEF Ready, Is
<1>3. pc \in {7, 8}
  BY <1>1, <1>2, MulInst
<1>4. PICK value, ideal :
        ToSecret(value, ideal) /\ ideal = Ideal(Mul, plain[Inst.a], Public(Inst.b))
  BY DEF DoMixedMul
<1>5. PICK x, y, a, b, e, d :
        /\ x = inputs[0][1] /\ y = inputs[1][2] /\ a = plain[2] /\ b = plain[3]
        /\ e = Sub(x, a) /\ d = Sub(y, b)
  BY MulNames
<1>6. \A v, w \in Fp : Ideal(Mul, v, w) = Mul(v, w)
  BY NoneNotInFp DEF Ideal
<1>7. /\ a \in Fp /\ b \in Fp /\ e \in Fp /\ d \in Fp
      /\ \A p \in Party : clear[p][5] = e /\ clear[p][6] = d
  BY <1>1, <1>3, <1>5, MulKnown
<1>8. Public(5) = e /\ Public(6) = d
  BY <1>1, <1>7, MulPublicOperand, MulRegisters
<1>9. CASE pc = 7
  <2>1. plain[Inst.a] = b /\ Public(Inst.b) = e
    BY <1>1, <1>5, <1>8, <1>9, MulInst
  <2>2. ideal = Mul(b, e)
    BY <1>4, <1>6, <1>7, <2>1
  <2>3. QED
    BY <1>1, <1>2, <1>4, <1>5, <1>9, <2>2, MulSecret
<1>10. CASE pc = 8
  <2>1. plain[Inst.a] = a /\ Public(Inst.b) = d
    BY <1>1, <1>5, <1>8, <1>10, MulInst
  <2>2. ideal = Mul(a, d)
    BY <1>4, <1>6, <1>7, <2>1
  <2>3. QED
    BY <1>1, <1>2, <1>4, <1>5, <1>10, <2>2, MulSecret
<1>11. QED
  BY <1>3, <1>9, <1>10

LEMMA MulMixedAdd ==
  ASSUME SharesInv, job.code = MulCode, MulValues, DoMixedAdd PROVE MulValues'
<1>1. Types /\ Ready({"MAdd"}) /\ Continue /\ UNCHANGED <<clear, output>>
  BY DEF SharesInv, DoMixedAdd, resultVars
<1>2. status = "run" /\ Inst.op = "MAdd"
  BY <1>1 DEF Ready, Is
<1>3. pc = 12 /\ Inst.a = 10 /\ Inst.b = 9
  BY <1>1, <1>2, MulInst
<1>4. PICK value, ideal :
        ToSecret(value, ideal) /\ ideal = Ideal(Add, plain[Inst.a], Public(Inst.b))
  BY DEF DoMixedAdd
<1>5. PICK x, y, a, b, e, d :
        /\ x = inputs[0][1] /\ y = inputs[1][2] /\ a = plain[2] /\ b = plain[3]
        /\ e = Sub(x, a) /\ d = Sub(y, b)
  BY MulNames
<1>6. \A v, w \in Fp : Ideal(Add, v, w) = Add(v, w)
  BY NoneNotInFp DEF Ideal
<1> DEFINE s == Add(Add(Mul(a, b), Mul(b, e)), Mul(a, d))
<1>7. /\ x \in Fp /\ y \in Fp /\ a \in Fp /\ b \in Fp
      /\ plain[10] = s /\ s \in Fp /\ Mul(e, d) \in Fp
      /\ \A p \in Party : clear[p][9] = Mul(e, d)
  BY <1>1, <1>3, <1>5, MulKnown
<1>8. Public(9) = Mul(e, d)
  BY <1>1, <1>7, MulPublicOperand, MulRegisters
<1>9. Add(s, Mul(e, d)) = Mul(x, y)
  BY <1>5, <1>7, Beaver
<1> HIDE DEF s
<1>10. ideal = Mul(x, y)
  <2>1. ideal = Ideal(Add, s, Mul(e, d))
    BY <1>3, <1>4, <1>7, <1>8
  <2>2. ideal = Add(s, Mul(e, d))
    BY <1>6, <1>7, <2>1
  <2>3. QED
    BY <1>9, <2>2
<1>11. QED
  BY <1>1, <1>2, <1>3, <1>4, <1>5, <1>10, MulSecret

\* What an opening yields is what the register stands for (a - x, b - y).
LEMMA MulOpen ==
  ASSUME SharesInv, job.code = MulCode, MulValues, DoOpen PROVE MulValues'
<1>1. Types /\ Sharings /\ Ready({"Open"}) /\ Continue /\ UNCHANGED <<secret, plain, output>>
  BY DEF SharesInv, DoOpen
<1>2. status = "run" /\ Inst.op = "Open" /\ pc' = pc + 1 /\ inputs' = inputs
  BY <1>1 DEF Ready, Is, Continue
<1>3. pc \in {5, 6} /\ Inst.to = pc /\ Inst.a = pc /\ 0 \in Party /\ 1 \in Party
  BY <1>1, <1>2, MulInst
<1>4. PICK x, y, a, b, e, d :
        /\ x = inputs[0][1] /\ y = inputs[1][2] /\ a = plain[2] /\ b = plain[3]
        /\ e = Sub(x, a) /\ d = Sub(y, b)
  BY MulNames
<1>5. MulPlain(pc, x, y, plain) /\ MulPublic(pc, x, y, plain, clear)
  BY <1>4 DEF MulValues
<1>6. e \in Fp /\ d \in Fp /\ plain[5] = e /\ (pc = 6 => plain[6] = d)
  BY <1>1, <1>3, <1>4, MulKnown
<1>7. Inst.a \in Reg /\ Shared(Inst.a)
  BY <1>3, <1>6, MulRegisters, NoneNotInFp DEF Shared
<1>8. Opened(Inst.a) = plain[Inst.a]
  BY <1>7, OpenedIs DEF SharesInv
<1>9. \A p \in Party : \A r \in Reg :
        clear'[p][r] = IF r = Inst.to THEN plain[Inst.a] ELSE clear[p][r]
  <2>1. clear' = [p \in Party |-> [clear[p] EXCEPT ![Inst.to] = plain[Inst.a]]]
    BY <1>8 DEF DoOpen, ToClear
  <2>2. clear \in [Party -> [Reg -> Fp \cup {None}]]
    BY <1>1, OldTypes
  <2>3. QED
    BY <2>1, <2>2
<1>10. clear'[0][0] = x /\ clear'[1][1] = y
  <2>1. clear[0][0] = x /\ clear[1][1] = y
    BY <1>5 DEF MulPublic
  <2>2. QED
    BY <1>3, <1>9, <2>1, MulRegisters
<1>11. CASE pc = 5
  <2>1. \A p \in Party : clear'[p][5] = e
    BY <1>3, <1>6, <1>9, <1>11, MulRegisters
  <2>2. MulPublic(6, x, y, plain, clear')
    BY <1>4, <1>10, <2>1 DEF MulPublic
  <2>3. MulPlain(6, x, y, plain)
    BY <1>5, <1>11 DEF MulPlain
  <2>4. MulOutput'
    BY <1>1, <1>2, <1>11, MulOutputKeeps DEF MulValues
  <2>5. pc' = 6
    BY <1>2, <1>11
  <2>6. QED
    BY <1>1, <1>2, <1>4, <2>2, <2>3, <2>4, <2>5 DEF MulValues
<1>12. CASE pc = 6
  <2>1. \A p \in Party : clear'[p][5] = e /\ clear'[p][6] = d
    <3>1. \A p \in Party : clear[p][5] = e
      BY <1>4, <1>5, <1>12 DEF MulPublic
    <3>2. QED
      BY <1>3, <1>6, <1>9, <1>12, <3>1, MulRegisters
  <2>2. MulPublic(7, x, y, plain, clear')
    BY <1>4, <1>10, <2>1 DEF MulPublic
  <2>3. MulPlain(7, x, y, plain)
    BY <1>5, <1>12 DEF MulPlain
  <2>4. MulOutput'
    BY <1>1, <1>2, <1>12, MulOutputKeeps DEF MulValues
  <2>5. pc' = 7
    BY <1>2, <1>12
  <2>6. QED
    BY <1>1, <1>2, <1>4, <2>2, <2>3, <2>4, <2>5 DEF MulValues
<1>13. QED
  BY <1>3, <1>11, <1>12

LEMMA MulClearOp ==
  ASSUME SharesInv, job.code = MulCode, MulValues, DoClearOp PROVE MulValues'
<1>1. Types /\ Ready({"CAdd", "CSub", "CMul"}) /\ Continue /\ UNCHANGED <<secret, plain, output>>
  BY DEF SharesInv, DoClearOp, resultVars
<1>2. status = "run" /\ Inst.op \in {"CAdd", "CSub", "CMul"} /\ pc' = pc + 1 /\ inputs' = inputs
  BY <1>1 DEF Ready, Is, Continue
<1>3. /\ pc = 9 /\ Inst.op = "CMul" /\ Inst.to = 9 /\ Inst.a = 5 /\ Inst.b = 6
      /\ 0 \in Party /\ 1 \in Party
  BY <1>1, <1>2, MulInst
<1>4. PICK x, y, a, b, e, d :
        /\ x = inputs[0][1] /\ y = inputs[1][2] /\ a = plain[2] /\ b = plain[3]
        /\ e = Sub(x, a) /\ d = Sub(y, b)
  BY MulNames
<1>5. MulPlain(pc, x, y, plain) /\ MulPublic(pc, x, y, plain, clear)
  BY <1>4 DEF MulValues
<1>6. /\ clear[0][0] = x /\ clear[1][1] = y
      /\ \A p \in Party : clear[p][5] = e /\ clear[p][6] = d
  BY <1>3, <1>4, <1>5 DEF MulPublic
<1>7. \A p \in Party : \A r \in Reg :
        clear'[p][r] = IF r = 9 THEN Mul(clear[p][5], clear[p][6]) ELSE clear[p][r]
  <2>1. clear' = [p \in Party |-> [clear[p] EXCEPT ![9] = Mul(clear[p][5], clear[p][6])]]
    BY <1>3 DEF DoClearOp, ToClear
  <2>2. clear \in [Party -> [Reg -> Fp \cup {None}]]
    BY <1>1, OldTypes
  <2>3. QED
    BY <2>1, <2>2
<1>8. /\ clear'[0][0] = x /\ clear'[1][1] = y
      /\ \A p \in Party : clear'[p][5] = e /\ clear'[p][6] = d /\ clear'[p][9] = Mul(e, d)
  BY <1>3, <1>6, <1>7, MulRegisters
<1>9. MulPublic(10, x, y, plain, clear')
  BY <1>4, <1>8 DEF MulPublic
<1>10. MulPlain(10, x, y, plain)
  BY <1>3, <1>5 DEF MulPlain
<1>11. MulOutput'
  BY <1>1, <1>2, <1>3, MulOutputKeeps DEF MulValues
<1>12. pc' = 10
  BY <1>2, <1>3
<1>13. QED
  BY <1>1, <1>2, <1>4, <1>9, <1>10, <1>11, <1>12 DEF MulValues

\* What is known of the registers does not change when they do not.
LEMMA MulSame ==
  ASSUME MulValues, UNCHANGED <<inputs, clear, plain>>,
         pc' = pc \/ (pc = 13 /\ pc' = 14), MulOutput'
  PROVE  MulValues'
<1>1. PICK x, y : x = inputs[0][1] /\ y = inputs[1][2]
  OBVIOUS
<1>2. MulPlain(pc, x, y, plain) /\ MulPublic(pc, x, y, plain, clear) /\ x \in Fp /\ y \in Fp
  BY <1>1 DEF MulValues
<1>3. MulPlain(pc', x, y, plain)
  <2>1. CASE pc' = pc
    BY <1>2, <2>1
  <2>2. CASE pc = 13 /\ pc' = 14
    BY <1>2, <2>2 DEF MulPlain
  <2>3. QED
    BY <2>1, <2>2
<1>4. MulPublic(pc', x, y, plain, clear)
  <2>1. CASE pc' = pc
    BY <1>2, <2>1
  <2>2. CASE pc = 13 /\ pc' = 14
    BY <1>2, <2>2 DEF MulPublic
  <2>3. QED
    BY <2>1, <2>2
<1>5. QED
  BY <1>1, <1>2, <1>3, <1>4 DEF MulValues

LEMMA MulSecretOutput ==
  ASSUME SharesInv, job.code = MulCode, MulValues, DoSecretOutput PROVE MulValues'
<1>1. Types /\ Ready({"SOutput"}) /\ UNCHANGED <<clear, secret, plain>>
  BY DEF SharesInv, DoSecretOutput, regVars
<1>2. status = "run" /\ Inst.op = "SOutput"
  BY <1>1 DEF Ready, Is
<1>3. pc = 13 /\ Inst.a = 10
  BY <1>1, <1>2, MulInst
<1>4. \A p \in Party : output[p] = <<>>
  BY <1>3 DEF MulValues, MulOutput
<1>5. CASE Checks(WithOpening(Inst.a))
  <2>1. /\ output' = [p \in Party |-> Append(output[p], secret[p][10].share)]
        /\ inputs' = inputs /\ pc' = 14
    BY <1>3, <1>5 DEF DoSecretOutput, Continue
  <2>2. \A v : Append(<<>>, v) = <<v>>
    OBVIOUS
  <2>3. \A p \in Party : output'[p] = <<secret[p][10].share>>
    BY <1>4, <2>1, <2>2
  <2>4. MulOutput'
    BY <1>1, <2>1, <2>3 DEF MulOutput
  <2>5. QED
    BY <1>1, <1>3, <2>1, <2>4, MulSame
<1>6. CASE ~Checks(WithOpening(Inst.a))
  <2>1. UNCHANGED <<inputs, pc, output>> /\ status' = "MACCheckError"
    BY <1>6 DEF DoSecretOutput, resultVars
  <2>2. MulOutput'
    BY <1>1, <2>1 DEF MulValues, MulOutput
  <2>3. QED
    BY <1>1, <2>1, <2>2, MulSame
<1>7. QED
  BY <1>5, <1>6

\* Stop is the last instruction, and comes after the output.
LEMMA MulEnd ==
  ASSUME SharesInv, job.code = MulCode, MulValues, DoStop \/ EmptyError PROVE MulValues'
<1>1. UNCHANGED <<inputs, pc, clear, secret, plain, output>>
  BY DEF DoStop, EmptyError, regVars, resultVars
<1>2. status' = "ok" => pc = 14
  <2>1. CASE DoStop
    <3>1. Types /\ Inst.op = "Stop"
      BY <2>1 DEF SharesInv, DoStop, Ready, Is
    <3>2. QED
      BY <3>1, MulInst
  <2>2. CASE EmptyError
    BY <2>2 DEF EmptyError
  <2>3. QED
    BY <2>1, <2>2
<1>3. MulOutput'
  BY <1>1, <1>2 DEF MulValues, MulOutput
<1>4. QED
  BY <1>1, <1>3, MulSame

LEMMA MulNoClearOutput ==
  ASSUME SharesInv, job.code = MulCode, COutput PROVE FALSE
<1>1. Types /\ Inst.op = "COutput"
  BY DEF SharesInv, COutput, Ready, Is
<1>2. QED
  BY <1>1, MulInst

\* MUL_PROG of vm.rs yields shares of the product of the two inputs, for every
\* prime and number of parties, whatever the triple, the masks and the MAC key.
THEOREM ProductIsRightHolds == Spec => []ProductIsRight
<1>1. Init => MulInv
  BY InitShares, InitMul DEF MulInv
<1>2. MulInv /\ SharesInv' /\ [Next]_vars => MulInv'
  <2> SUFFICES ASSUME MulInv, SharesInv', [Next]_vars PROVE MulInv'
    OBVIOUS
  <2>1. job' = job
    BY DEF vars, Next, EmptyError, DoClearOp, DoSecretOp, DoMixedAdd, DoMixedMul, DoInput,
           DoTriple, DoOpen, COutput, DoSecretOutput, DoStop, Continue
  <2>2. SUFFICES ASSUME job.code = MulCode PROVE MulValues'
    BY <2>1 DEF MulInv
  <2>3. SharesInv /\ MulValues
    BY <2>2 DEF MulInv
  <2>4. CASE UNCHANGED vars
    <3>1. UNCHANGED <<inputs, clear, secret, plain, pc, status, output>>
      BY <2>4 DEF vars, regVars, resultVars
    <3>2. MulOutput'
      BY <2>3, <3>1 DEF MulValues, MulOutput
    <3>3. QED
      BY <2>3, <3>1, <3>2, MulSame
  <2>5. CASE Next
    BY <2>2, <2>3, <2>4, <2>5, MulClearOp, MulSecretOp, MulMixedAdd, MulMixedMul, MulInput,
       MulTriple, MulOpen, MulNoClearOutput, MulSecretOutput, MulEnd DEF Next
  <2>6. QED
    BY <2>4, <2>5
<1>3. MulInv => ProductIsRight
  <2> SUFFICES ASSUME MulInv, job.code = MulCode, status = "ok"
               PROVE  UnauthCombine([p \in Party |-> output[p][1]]) = Mul(inputs[0][1], inputs[1][2])
    BY DEF ProductIsRight
  <2>1. SharesInv /\ MulValues
    BY DEF MulInv
  <2>2. PICK x, y : x = inputs[0][1] /\ y = inputs[1][2]
    OBVIOUS
  <2>3. pc = 14 /\ x \in Fp /\ y \in Fp /\ MulPlain(pc, x, y, plain)
    BY <2>1, <2>2 DEF MulValues, MulOutput
  <2>4. plain[10] = Mul(x, y) /\ Mul(x, y) \in Fp
    BY <2>3, InFp, Closed DEF MulPlain
  <2>5. 10 \in Reg /\ Shared(10)
    BY <2>4, MulRegisters, NoneNotInFp DEF Shared
  <2>6. Opened(10) = Mul(x, y)
    BY <2>1, <2>4, <2>5, OpenedIs
  <2>7. \A p \in Party : output[p] = <<secret[p][10].share>>
    BY <2>1, <2>3 DEF MulValues, MulOutput
  <2>8. [p \in Party |-> output[p][1]] = [p \in Party |-> secret[p][10].share]
    BY <2>7
  <2>9. QED
    BY <2>2, <2>6, <2>8 DEF Opened
<1>4. QED
  BY <1>1, <1>2, <1>3, SharesInductive, PTL DEF Spec
=============================================================================
