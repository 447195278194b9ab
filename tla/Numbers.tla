------------------------------- MODULE Numbers -------------------------------
(***************************************************************************)
(* Facts about numbers.  Induction and recursion up to a number are stated *)
(* in terms of sets: a statement P(m) is proved for all numbers up to n by *)
(* citing Climb for the set of those that satisfy it.                      *)
(***************************************************************************)
EXTENDS Integers, WellFoundedInduction, TLAPS

\* Every set of numbers that is not empty has a least element.
LEMMA LeastNumber ==
  ASSUME NEW T, T \subseteq Nat, T # {}
  PROVE  \E x \in T : \A y \in T : x <= y
<1> DEFINE R == {p \in Nat \X Nat : p[1] < p[2]}
<1>1. IsWellFoundedOn(R, Nat)
  BY NatLessThanWellFounded DEF OpToRel
<1>2. PICK x \in T : \A y \in T : <<y, x>> \notin R
  <2> HIDE DEF R
  <2> QED BY <1>1, WFMin
<1>3. \A y \in T : x <= y
  <2> TAKE y \in T
  <2>1. x \in Nat /\ y \in Nat /\ <<y, x>> \notin R
    BY <1>2
  <2>2. <<y, x>> \in Nat \X Nat /\ <<y, x>>[1] = y /\ <<y, x>>[2] = x
    BY <2>1
  <2>3. ~ (y < x)
    BY <2>1, <2>2
  <2> HIDE DEF R
  <2> QED BY <2>1, <2>3
<1> QED BY <1>3

\* Induction: a set that holds 0 and, up to n, with a number the next one, holds
\* all numbers up to n.
LEMMA Climb ==
  ASSUME NEW T, NEW n \in Nat, 0 \in T, \A m \in 0 .. n - 1 : m \in T => m + 1 \in T
  PROVE  0 .. n \subseteq T
<1> DEFINE Rest == (0 .. n) \ T
<1> SUFFICES ASSUME Rest # {} PROVE FALSE
  OBVIOUS
<1>1. PICK x \in Rest : \A y \in Rest : x <= y
  <2>1. Rest \subseteq Nat
    OBVIOUS
  <2> HIDE DEF Rest
  <2> QED BY <2>1, LeastNumber
<1>2. x \in 0 .. n /\ x # 0 /\ x \notin T
  OBVIOUS
<1>3. x - 1 \in 0 .. n - 1 /\ x - 1 \notin Rest
  <2>1. x - 1 \in 0 .. n - 1 /\ ~ (x <= x - 1)
    BY <1>2
  <2> HIDE DEF Rest
  <2> QED BY <1>1, <2>1
<1> QED BY <1>2, <1>3

\* The steps lead from base up to n.
Climbs(f, n, S, base, step) ==
  /\ f \in [0 .. n -> S] /\ f[0] = base
  /\ \A i \in 1 .. n : f[i] = step[<<i, f[i - 1]>>]

\* A function that is defined by recursion up to n exists.
LEMMA Recursion ==
  ASSUME NEW n \in Nat, NEW S, NEW base \in S, NEW step \in [(1 .. n) \X S -> S]
  PROVE  \E f : Climbs(f, n, S, base, step)
<1> DEFINE Upto(m, f) == Climbs(f, m, S, base, step)
           T == {m \in 0 .. n : \E f : Upto(m, f)}
<1>1. 0 \in T
  <2>1. Upto(0, [i \in 0 .. 0 |-> base])
    BY DEF Climbs
  <2>2. 0 \in 0 .. n
    OBVIOUS
  <2> HIDE DEF Upto
  <2> QED BY <2>1, <2>2
<1>2. ASSUME NEW m \in 0 .. n - 1, m \in T PROVE m + 1 \in T
  <2>1. PICK f : Upto(m, f)
    BY <1>2
  <2> DEFINE g == [i \in 0 .. m + 1 |-> IF i = m + 1 THEN step[<<m + 1, f[m]>>] ELSE f[i]]
  <2>2. step[<<m + 1, f[m]>>] \in S
    BY <2>1 DEF Climbs
  <2>3. g \in [0 .. m + 1 -> S] /\ g[0] = base
    BY <2>1, <2>2 DEF Climbs
  <2>4. ASSUME NEW i \in 1 .. m + 1
        PROVE  g[i] = step[<<i, g[i - 1]>>]
    <3>1. i - 1 \in 0 .. m /\ i - 1 # m + 1 /\ i - 1 \in 0 .. m + 1 /\ i \in 0 .. m + 1
      OBVIOUS
    <3>2. g[i - 1] = f[i - 1]
      BY <3>1
    <3>3. CASE i = m + 1
      BY <3>1, <3>2, <3>3
    <3>4. CASE i # m + 1
      <4>1. i \in 1 .. m /\ g[i] = f[i]
        BY <3>1, <3>4
      <4> QED BY <2>1, <3>2, <4>1 DEF Climbs
    <3> QED BY <3>3, <3>4
  <2>5. Upto(m + 1, g)
    <3> HIDE DEF g
    <3> QED BY <2>3, <2>4 DEF Climbs
  <2>6. m + 1 \in 0 .. n
    OBVIOUS
  <2> HIDE DEF Upto, g
  <2> QED BY <2>5, <2>6
<1>3. n \in T
  <2> HIDE DEF T
  <2> QED BY <1>1, <1>2, Climb
<1> QED BY <1>3

-----------------------------------------------------------------------------
(* Products and quotients. *)

\* The laws of products, which the provers do not use unasked.
LEMMA Products ==
  /\ \A x, y \in Nat : x * y \in Nat
  /\ \A x, y \in Nat : (x + 1) * y = x * y + y
  /\ \A x, y, z \in Nat : x <= y => x * z <= y * z
  /\ \A x, y, z \in Nat : (x * y) * z = x * (y * z) /\ x * y = y * x
  /\ \A x, y, z \in Nat : (x + y) * z = x * z + y * z
<1>1. \A x, y \in Nat : x * y \in Nat
  OBVIOUS
<1>2. \A x, y \in Nat : (x + 1) * y = x * y + y
  OBVIOUS
<1>3. \A x, y, z \in Nat : x <= y => x * z <= y * z
  <2> TAKE x, y, z \in Nat
  <2> HAVE x <= y
  <2>1. PICK d \in Nat : y = x + d
    <3>1. y - x \in Nat /\ y = x + (y - x)
      OBVIOUS
    <3> QED BY <3>1
  <2>2. y * z = x * z + d * z
    BY <2>1
  <2>3. d * z \in Nat /\ x * z \in Nat
    OBVIOUS
  <2> QED BY <2>2, <2>3
<1>4. \A x, y, z \in Nat : (x * y) * z = x * (y * z) /\ x * y = y * x
  OBVIOUS
<1>5. \A x, y, z \in Nat : (x + y) * z = x * z + y * z
  OBVIOUS
<1> QED BY <1>1, <1>2, <1>3, <1>4, <1>5

\* Division undoes multiplication.
LEMMA Quotient ==
  ASSUME NEW q \in Nat, NEW d \in Nat, NEW x \in Nat, x < d
  PROVE  (q * d + x) \div d = q
<1> DEFINE y == q * d + x
           p == y \div d
<1>1. y \in Nat /\ d > 0 /\ q * d \in Nat
  BY Products
<1>2. p \in Nat /\ p * d <= y /\ y < p * d + d
  BY <1>1
<1>3. p * d \in Nat
  BY <1>2, Products
<1> HIDE DEF p
<1>4. ~(p + 1 <= q)
  <2> SUFFICES ASSUME p + 1 <= q PROVE FALSE
    OBVIOUS
  <2>1. p * d + d <= q * d
    <3>1. (p + 1) * d <= q * d /\ (p + 1) * d = p * d + d
      BY <1>2, Products
    <3> QED BY <3>1
  <2> QED BY <1>1, <1>2, <1>3, <2>1
<1>5. ~(q + 1 <= p)
  <2> SUFFICES ASSUME q + 1 <= p PROVE FALSE
    OBVIOUS
  <2>1. q * d + d <= p * d
    <3>1. (q + 1) * d <= p * d /\ (q + 1) * d = q * d + d
      BY <1>2, Products
    <3> QED BY <3>1
  <2> QED BY <1>1, <1>2, <1>3, <2>1
<1>6. p = q
  BY <1>2, <1>4, <1>5
<1> QED BY <1>6 DEF p

\* A number is its quotient times the divisor, and the rest.
LEMMA Division ==
  ASSUME NEW y \in Nat, NEW d \in Nat \ {0}
  PROVE  y \div d \in Nat /\ y % d \in 0 .. d - 1 /\ y = (y \div d) * d + (y % d)
<1>1. y \div d \in Nat /\ y % d \in 0 .. d - 1
  OBVIOUS
<1>2. y = (d * (y \div d)) + (y % d)
  OBVIOUS
<1>3. d * (y \div d) = (y \div d) * d
  BY <1>1
<1> QED BY <1>1, <1>2, <1>3

\* The rest of a multiple and a smaller number.
LEMMA SmallRest ==
  ASSUME NEW q \in Nat, NEW d \in Nat, NEW x \in Nat, x < d
  PROVE  (q * d + x) % d = x
<1> DEFINE y == q * d + x
<1>1. y \in Nat /\ d \in Nat \ {0} /\ q * d \in Nat
  BY Products
<1>2. y \div d = q
  BY Quotient
<1> HIDE DEF y
<1>3. y = q * d + (y % d) /\ y % d \in 0 .. d - 1
  BY <1>1, <1>2, Division
<1>4. y = q * d + x
  BY DEF y
<1>5. y % d = x
  BY <1>1, <1>3, <1>4
<1> QED BY <1>5 DEF y
=============================================================================
