-------------------------- MODULE CalculatorProofs --------------------------
(***************************************************************************)
(* Theorems about numbers (Rational, Calculator), for all integers and all *)
(* texts.                                                                  *)
(***************************************************************************)
EXTENDS Calculator, SequenceTheorems, WellFoundedInduction, TLAPS

-----------------------------------------------------------------------------
(***************************************************************************)
(* The greatest common divisor.                                            *)
(***************************************************************************)
Divides(d, a) == \E k \in Int : a = k * d
Combines(d, a, b) == \E s, t \in Int : d = s * a + t * b
IsGcd(d, a, b) == d \in Nat /\ Divides(d, a) /\ Divides(d, b) /\ Combines(d, a, b)

(* A set of numbers has a least one.                                       *)
LEMMA Least ==
  ASSUME NEW T, T \subseteq Nat, T # {}
  PROVE  \E x \in T : \A y \in T : x <= y
<1> DEFINE R == OpToRel(<, Nat)
<1>1. IsWellFoundedOn(R, Nat)
  BY NatLessThanWellFounded
<1>2. PICK x \in T : \A y \in T : ~(<<y, x>> \in R)
  BY <1>1, WFMin
<1>3. ASSUME NEW y \in T  PROVE x <= y
  <2>1. ~(<<y, x>> \in R) /\ x \in Nat /\ y \in Nat
    BY <1>2, <1>3
  <2> QED BY <2>1 DEF OpToRel
<1> QED BY <1>3

LEMMA Remainder ==
  ASSUME NEW a \in Nat, NEW b \in Nat \ {0}
  PROVE  /\ a % b \in Nat /\ a % b < b
         /\ a \div b \in Nat /\ a = b * (a \div b) + (a % b)
OBVIOUS

(* What divides two numbers divides their combinations.                    *)
LEMMA DividesCombination ==
  ASSUME NEW d \in Int, NEW a \in Int, NEW b \in Int, NEW s \in Int, NEW t \in Int,
         Divides(d, a), Divides(d, b)
  PROVE  Divides(d, s * a + t * b)
<1>1. PICK j \in Int, k \in Int : a = j * d /\ b = k * d
  BY DEF Divides
<1>2. s * a + t * b = (s * j + t * k) * d
  BY <1>1
<1>3. s * j + t * k \in Int
  BY <1>1
<1> QED BY <1>2, <1>3 DEF Divides

LEMMA EachOther ==
  ASSUME NEW d \in Nat, NEW e \in Nat, Divides(d, e), Divides(e, d)
  PROVE  d = e
<1>1. PICK j \in Int, k \in Int : e = j * d /\ d = k * e
  BY DEF Divides
<1>2. CASE d = 0
  BY <1>1, <1>2
<1>3. CASE d # 0
  <2>1. e # 0
    BY <1>1, <1>3
  <2>2. j >= 1 /\ k >= 1
    BY <1>1, <1>3, <2>1
  <2>3. e >= d /\ d >= e
    BY <1>1, <2>2
  <2> QED BY <2>3
<1> QED BY <1>2, <1>3

LEMMA GcdIsUnique ==
  ASSUME NEW a \in Int, NEW b \in Int, NEW d, NEW e, IsGcd(d, a, b), IsGcd(e, a, b)
  PROVE  d = e
<1>1. d \in Nat /\ e \in Nat
  BY DEF IsGcd
<1>2. Divides(d, e)
  <2>1. PICK s \in Int, t \in Int : e = s * a + t * b
    BY DEF IsGcd, Combines
  <2>2. Divides(d, a) /\ Divides(d, b)
    BY DEF IsGcd
  <2> QED BY <1>1, <2>1, <2>2, DividesCombination
<1>3. Divides(e, d)
  <2>1. PICK s \in Int, t \in Int : d = s * a + t * b
    BY DEF IsGcd, Combines
  <2>2. Divides(e, a) /\ Divides(e, b)
    BY DEF IsGcd
  <2> QED BY <1>1, <2>1, <2>2, DividesCombination
<1> QED BY <1>1, <1>2, <1>3, EachOther

(* A turn of the loop leaves the divisors as they are.                     *)
LEMMA GcdStep ==
  ASSUME NEW a \in Nat, NEW b \in Nat \ {0}, NEW d
  PROVE  IsGcd(d, b, a % b) <=> IsGcd(d, a, b)
<1>1. PICK q \in Nat, r \in Nat : q = a \div b /\ r = a % b /\ a = b * q + r
  BY Remainder
<1>2. ASSUME IsGcd(d, b, r)  PROVE IsGcd(d, a, b)
  <2>1. d \in Nat /\ Divides(d, b) /\ Divides(d, r)
    BY <1>2 DEF IsGcd
  <2>2. Divides(d, q * b + 1 * r)
    BY <2>1, DividesCombination
  <2>3. q * b + 1 * r = a
    BY <1>1
  <2>4. PICK s \in Int, t \in Int : d = s * b + t * r
    BY <1>2 DEF IsGcd, Combines
  <2>5. d = t * a + (s - t * q) * b /\ s - t * q \in Int
    BY <1>1, <2>4
  <2> QED BY <2>1, <2>2, <2>3, <2>5 DEF IsGcd, Combines
<1>3. ASSUME IsGcd(d, a, b)  PROVE IsGcd(d, b, r)
  <2>1. d \in Nat /\ Divides(d, a) /\ Divides(d, b)
    BY <1>3 DEF IsGcd
  <2>2. \A u, v \in Int : Divides(d, u * a + v * b)
    BY <2>1, DividesCombination
  <2>3. PICK u \in Int, v \in Int : u * a + v * b = r
    <3>1. 1 * a + (-q) * b = r /\ -q \in Int
      BY <1>1
    <3> QED BY <3>1
  <2>4. PICK s \in Int, t \in Int : d = s * a + t * b
    BY <1>3 DEF IsGcd, Combines
  <2>5. d = (s * q + t) * b + s * r /\ s * q + t \in Int
    BY <1>1, <2>4
  <2> QED BY <2>1, <2>2, <2>3, <2>5 DEF IsGcd, Combines
<1> QED BY <1>1, <1>2, <1>3

LEMMA GcdWithZero ==
  ASSUME NEW a \in Nat
  PROVE  IsGcd(a, a, 0)
<1>1. a = 1 * a /\ 0 = 0 * a /\ a = 1 * a + 0 * 0
  OBVIOUS
<1> QED BY <1>1 DEF IsGcd, Divides, Combines

LEMMA GcdExists ==
  ASSUME NEW a \in Nat, NEW b \in Nat
  PROVE  \E d : IsGcd(d, a, b)
<1> DEFINE T == {y \in Nat : \E x \in Nat : ~\E d : IsGcd(d, x, y)}
<1> SUFFICES ASSUME T # {}  PROVE FALSE
  OBVIOUS
<1>1. PICK y \in T : \A z \in T : y <= z
  BY Least
<1>2. PICK x \in Nat : ~\E d : IsGcd(d, x, y)
  OBVIOUS
<1>3. y # 0
  BY <1>2, GcdWithZero
<1>4. x % y \in Nat /\ x % y < y
  BY <1>3, Remainder
<1>5. x % y \notin T
  BY <1>1, <1>4
<1>6. PICK d : IsGcd(d, y, x % y)
  BY <1>4, <1>5
<1> QED BY <1>2, <1>3, <1>6, GcdStep

(* The loop ends with it.                                                  *)
IsEuclid(f) ==
  f = [p \in Nat \X Nat |-> IF p[2] = 0 THEN p[1] ELSE f[<<p[2], p[1] % p[2]>>]]

LEMMA EuclidIsDefined == IsEuclid(euclid)
<1> DEFINE g == [p \in Nat \X Nat |-> CHOOSE d : IsGcd(d, p[1], p[2])]
<1>1. ASSUME NEW a \in Nat, NEW b \in Nat  PROVE IsGcd(g[<<a, b>>], a, b)
  <2>1. g[<<a, b>>] = CHOOSE d : IsGcd(d, a, b)
    OBVIOUS
  <2> HIDE DEF g
  <2> QED BY <2>1, GcdExists
<1>2. ASSUME NEW p \in Nat \X Nat
      PROVE  g[p] = IF p[2] = 0 THEN p[1] ELSE g[<<p[2], p[1] % p[2]>>]
  <2> HIDE DEF g
  <2>1. PICK a \in Nat, b \in Nat : p = <<a, b>>
    BY <1>2
  <2>2. CASE b = 0
    BY <1>1, <2>1, <2>2, GcdWithZero, GcdIsUnique
  <2>3. CASE b # 0
    <3>1. a % b \in Nat
      BY <2>3, Remainder
    <3>2. IsGcd(g[<<b, a % b>>], b, a % b)
      BY <1>1, <3>1
    <3>3. IsGcd(g[<<b, a % b>>], a, b)
      BY <2>3, <3>2, GcdStep
    <3>4. g[<<a, b>>] = g[<<b, a % b>>]
      BY <1>1, <3>3, GcdIsUnique
    <3> QED BY <2>1, <2>3, <3>4
  <2> QED BY <2>2, <2>3
<1>3. \E f : IsEuclid(f)
  <2>1. g = [p \in Nat \X Nat |-> g[p]]
    OBVIOUS
  <2> HIDE DEF g
  <2>2. IsEuclid(g)
    BY <1>2, <2>1 DEF IsEuclid
  <2> QED BY <2>2
<1>4. euclid = CHOOSE f : IsEuclid(f)
  BY DEF euclid, IsEuclid
<1> QED BY <1>3, <1>4

LEMMA EuclidIsGcd ==
  ASSUME NEW a \in Nat, NEW b \in Nat
  PROVE  IsGcd(euclid[<<a, b>>], a, b)
<1>1. \A x, y \in Nat :
        euclid[<<x, y>>] = IF y = 0 THEN x ELSE euclid[<<y, x % y>>]
  <2>1. PICK e : e = euclid
    OBVIOUS
  <2>2. e = [p \in Nat \X Nat |-> IF p[2] = 0 THEN p[1] ELSE e[<<p[2], p[1] % p[2]>>]]
    BY <2>1, EuclidIsDefined DEF IsEuclid
  <2>3. \A x, y \in Nat : e[<<x, y>>] = IF y = 0 THEN x ELSE e[<<y, x % y>>]
    BY <2>2
  <2> QED BY <2>1, <2>3
<1> DEFINE T == {y \in Nat : \E x \in Nat : ~IsGcd(euclid[<<x, y>>], x, y)}
<1> SUFFICES ASSUME T # {}  PROVE FALSE
  OBVIOUS
<1>2. PICK y \in T : \A z \in T : y <= z
  BY Least
<1>3. PICK x \in Nat : ~IsGcd(euclid[<<x, y>>], x, y)
  OBVIOUS
<1>4. y # 0
  BY <1>1, <1>3, GcdWithZero
<1>5. x % y \in Nat /\ x % y < y
  BY <1>4, Remainder
<1>6. x % y \notin T
  BY <1>2, <1>5
<1>7. IsGcd(euclid[<<y, x % y>>], y, x % y)
  BY <1>5, <1>6
<1>8. euclid[<<x, y>>] = euclid[<<y, x % y>>]
  BY <1>1, <1>4
<1> QED BY <1>3, <1>4, <1>7, <1>8, GcdStep

LEMMA AbsOf ==
  ASSUME NEW a \in Int
  PROVE  /\ Abs(a) \in Nat /\ Abs(a) \in {a, -a}
         /\ \E u \in Int : a = u * Abs(a) /\ Abs(a) = u * a
<1>1. CASE a < 0
  <2>1. Abs(a) = -a
    BY <1>1 DEF Abs
  <2>2. a = (-1) * (-a) /\ -a = (-1) * a
    OBVIOUS
  <2> QED BY <1>1, <2>1, <2>2
<1>2. CASE ~(a < 0)
  <2>1. Abs(a) = a
    BY <1>2 DEF Abs
  <2>2. a = 1 * a
    OBVIOUS
  <2> QED BY <1>2, <2>1, <2>2
<1> QED BY <1>1, <1>2

LEMMA GcdIsGcd ==
  ASSUME NEW x \in Int, NEW y \in Int
  PROVE  IsGcd(gcd(x, y), x, y)
<1>1. PICK a \in Nat, b \in Nat : a = Abs(x) /\ b = Abs(y)
  BY AbsOf
<1>2. PICK d : d = gcd(x, y)
  OBVIOUS
<1>3. IsGcd(d, a, b)
  BY <1>1, <1>2, EuclidIsGcd DEF gcd
<1>4. PICK u \in Int, v \in Int : x = u * a /\ a = u * x /\ y = v * b /\ b = v * y
  BY <1>1, AbsOf
<1>5. PICK j \in Int, k \in Int, s \in Int, t \in Int :
        a = j * d /\ b = k * d /\ d = s * a + t * b /\ d \in Nat
  BY <1>3 DEF IsGcd, Divides, Combines
<1>6. x = (u * j) * d /\ y = (v * k) * d
  BY <1>4, <1>5
<1>7. d = (s * u) * x + (t * v) * y
  <2>1. s * a = (s * u) * x /\ t * b = (t * v) * y
    BY <1>4, <1>5
  <2> QED BY <1>5, <2>1
<1>8. u * j \in Int /\ v * k \in Int /\ s * u \in Int /\ t * v \in Int
  BY <1>4, <1>5
<1> QED BY <1>2, <1>5, <1>6, <1>7, <1>8 DEF IsGcd, Divides, Combines

-----------------------------------------------------------------------------
(***************************************************************************)
(* Lowest terms.                                                           *)
(***************************************************************************)
Coprime(n, m) == \E s, t \in Int : s * n + t * m = 1

(* What is left of two numbers divided by their divisor.                   *)
AreQuotients(x, y, d, n, m) ==
  /\ d \in Nat \ {0} /\ n \in Int /\ m \in Int
  /\ gcd(x, y) = d /\ x = n * d /\ y = m * d
  /\ x \div d = n /\ y \div d = m
  /\ m # 0 /\ (y > 0 <=> m > 0) /\ Coprime(n, m)

LEMMA Quotients ==
  ASSUME NEW x \in Int, NEW y \in Int \ {0}
  PROVE  \E d, n, m : AreQuotients(x, y, d, n, m)
<1>1. PICK d \in Nat : d = gcd(x, y)
  BY GcdIsGcd DEF IsGcd
<1>2. PICK n \in Int, m \in Int, s \in Int, t \in Int :
        x = n * d /\ y = m * d /\ d = s * x + t * y
  <2>1. IsGcd(d, x, y)
    BY <1>1, GcdIsGcd
  <2> QED BY <2>1 DEF IsGcd, Divides, Combines
<1>3. d # 0
  BY <1>2
<1>4. x \div d = n /\ y \div d = m
  BY <1>2, <1>3
<1>5. m # 0 /\ (y > 0 <=> m > 0)
  BY <1>2, <1>3
<1>6. s * n + t * m = 1
  <2>1. 1 * d = (s * n + t * m) * d
    BY <1>2
  <2>2. s * n + t * m \in Int
    OBVIOUS
  <2> QED BY <1>3, <2>1, <2>2
<1>7. AreQuotients(x, y, d, n, m)
  BY <1>1, <1>2, <1>3, <1>4, <1>5, <1>6 DEF Coprime, AreQuotients
<1> QED BY <1>7

(* Coprime numbers have no divisor but one.                                *)
LEMMA CoprimeDivisor ==
  ASSUME NEW n \in Int, NEW m \in Int, Coprime(n, m), NEW d \in Nat,
         Divides(d, n), Divides(d, m)
  PROVE  d = 1
<1>1. PICK s \in Int, t \in Int : s * n + t * m = 1
  BY DEF Coprime
<1>2. Divides(d, 1)
  <2>1. Divides(d, s * n + t * m)
    BY DividesCombination
  <2> QED BY <1>1, <2>1
<1>3. Divides(1, d)
  BY DEF Divides
<1> QED BY <1>2, <1>3, EachOther

(* Products of numbers that have no divisor in common with others.         *)
LEMMA CoprimeProduct ==
  ASSUME NEW a \in Int, NEW b \in Int, NEW c \in Int, Coprime(a, c), Coprime(b, c)
  PROVE  Coprime(a * b, c)
<1>1. PICK s \in Int, t \in Int : s * a + t * c = 1
  BY DEF Coprime
<1>2. PICK u \in Int, v \in Int : u * b + v * c = 1
  BY DEF Coprime
<1>3. (s * u) * (a * b) + (s * a * v + t * u * b + t * v * c) * c
        = (s * a + t * c) * (u * b + v * c)
  OBVIOUS
<1>4. s * u \in Int /\ s * a * v + t * u * b + t * v * c \in Int
  OBVIOUS
<1>5. (s * u) * (a * b) + (s * a * v + t * u * b + t * v * c) * c = 1
  BY <1>1, <1>2, <1>3
<1> QED BY <1>4, <1>5 DEF Coprime

LEMMA CoprimeTurned ==
  ASSUME NEW a \in Int, NEW b \in Int, Coprime(a, b)
  PROVE  Coprime(b, a) /\ Coprime(-a, b) /\ Coprime(a, -b)
<1>1. PICK s \in Int, t \in Int : s * a + t * b = 1
  BY DEF Coprime
<1>2. /\ t * b + s * a = 1 /\ (-s) * (-a) + t * b = 1 /\ s * a + (-t) * (-b) = 1
      /\ -s \in Int /\ -t \in Int
  BY <1>1
<1> QED BY <1>2 DEF Coprime

(* A factor of a number has no divisor in common with what the number has
   none with. *)
LEMMA CoprimeFactor ==
  ASSUME NEW a \in Int, NEW b \in Int, NEW c \in Int, Coprime(a * b, c)
  PROVE  Coprime(a, c) /\ Coprime(b, c)
<1>1. PICK s \in Int, t \in Int : s * (a * b) + t * c = 1
  BY DEF Coprime
<1>2. (s * b) * a + t * c = 1 /\ (s * a) * b + t * c = 1
  BY <1>1
<1>3. s * b \in Int /\ s * a \in Int
  OBVIOUS
<1> QED BY <1>2, <1>3 DEF Coprime

(* If a divides a product and has nothing in common with one factor, it
   divides the other. *)
LEMMA DividesFactor ==
  ASSUME NEW a \in Int, NEW b \in Int, NEW c \in Int, Coprime(a, b), Divides(a, b * c)
  PROVE  Divides(a, c)
<1>1. PICK s \in Int, t \in Int : s * a + t * b = 1
  BY DEF Coprime
<1>2. PICK k \in Int : b * c = k * a
  BY DEF Divides
<1>3. c = (s * c + t * k) * a
  <2>1. c = (s * a + t * b) * c
    BY <1>1
  <2>2. (s * a + t * b) * c = (s * c) * a + t * (b * c)
    OBVIOUS
  <2>3. t * (b * c) = (t * k) * a
    BY <1>2
  <2> QED BY <2>1, <2>2, <2>3
<1>4. s * c + t * k \in Int
  OBVIOUS
<1> QED BY <1>3, <1>4 DEF Divides

Fraction == [numerator : Int, denominator : Nat \ {0}]
IsReduced(q) == q \in Fraction /\ Coprime(q.numerator, q.denominator)

(* Two fractions in lowest terms with the same value are the same.         *)
LEMMA LowestIsUnique ==
  ASSUME NEW q, NEW p, IsReduced(q), IsReduced(p),
         q.numerator * p.denominator = p.numerator * q.denominator
  PROVE  q = p
<1>1. PICK n \in Int, k \in Nat \ {0}, m \in Int, l \in Nat \ {0} :
        /\ n = q.numerator /\ k = q.denominator
        /\ m = p.numerator /\ l = p.denominator
  BY DEF IsReduced, Fraction
<1>2. Coprime(n, k) /\ Coprime(m, l) /\ n * l = m * k
  BY <1>1 DEF IsReduced
<1>3. Divides(k, l)
  <2>1. Divides(k, n * l)
    BY <1>2 DEF Divides
  <2> QED BY <1>2, <2>1, DividesFactor, CoprimeTurned
<1>4. Divides(l, k)
  <2>1. m * k = n * l
    BY <1>2
  <2>2. Divides(l, m * k)
    BY <2>1 DEF Divides
  <2> QED BY <1>2, <2>2, DividesFactor, CoprimeTurned
<1>5. k = l
  BY <1>3, <1>4, EachOther
<1>6. n = m
  BY <1>2, <1>5
<1>7. /\ q = [numerator |-> q.numerator, denominator |-> q.denominator]
      /\ p = [numerator |-> p.numerator, denominator |-> p.denominator]
  BY DEF IsReduced, Fraction
<1> QED BY <1>1, <1>5, <1>6, <1>7, Zenon

(* Lowest terms as they are checked: no divisor from two on.               *)
LEMMA ReducedIsLowest ==
  ASSUME NEW q, IsReduced(q)
  PROVE  InLowestTerms(q)
<1>1. PICK n \in Int, k \in Nat \ {0} : n = q.numerator /\ k = q.denominator
  BY DEF IsReduced, Fraction
<1>2. ASSUME NEW d \in 2 .. k, k % d = 0, n % d = 0
      PROVE  FALSE
  <2>1. d \in Nat \ {0} /\ d # 1
    BY <1>2
  <2>2. Divides(d, k) /\ Divides(d, n)
    <3>1. k = (k \div d) * d /\ n = (n \div d) * d
      BY <1>2, <2>1
    <3>2. k \div d \in Int /\ n \div d \in Int
      BY <2>1
    <3> QED BY <3>1, <3>2 DEF Divides
  <2>3. d = 1
    BY <1>1, <2>1, <2>2, CoprimeDivisor DEF IsReduced
  <2> QED BY <2>1, <2>3
<1> QED BY <1>1, <1>2 DEF InLowestTerms, IsReduced, Fraction

LEMMA QuotientOfProduct ==
  ASSUME NEW a \in Int, NEW b \in Nat \ {0}
  PROVE  (a * b) \div b = a
OBVIOUS

(* The constructor reduces and keeps the value.                            *)
LEMMA MakeReduces ==
  ASSUME NEW x \in Int, NEW y \in Int \ {0}
  PROVE  IsReduced(Make(x, y)) /\ Same(Make(x, y), <<x, y>>)
<1>0. PICK d, n, m : AreQuotients(x, y, d, n, m)
  BY Quotients
<1>1. /\ d \in Nat \ {0} /\ n \in Int /\ m \in Int
      /\ gcd(x, y) = d /\ x = n * d /\ y = m * d
      /\ x \div d = n /\ y \div d = m
      /\ m # 0 /\ (y > 0 <=> m > 0) /\ Coprime(n, m)
  BY <1>0 DEF AreQuotients
<1>2. CASE y < 0
  <2>1. (-x) \div d = -n /\ (-y) \div d = -m
    <3>1. -x = (-n) * d /\ -y = (-m) * d /\ -n \in Int /\ -m \in Int
      BY <1>1
    <3>2. ((-n) * d) \div d = -n /\ ((-m) * d) \div d = -m
      BY <1>1, <3>1, QuotientOfProduct
    <3> QED BY <3>1, <3>2
  <2>2. Make(x, y) = [numerator |-> -n, denominator |-> -m]
    BY <1>1, <1>2, <2>1 DEF Make, Signed, Reduced, Num
  <2>3. -n \in Int /\ -m \in Nat \ {0}
    BY <1>1, <1>2
  <2>4. Coprime(-n, -m)
    BY <1>1, CoprimeTurned
  <2>5. (-n) * y = x * (-m)
    BY <1>1
  <2> QED BY <2>2, <2>3, <2>4, <2>5 DEF IsReduced, Fraction, Same
<1>3. CASE ~(y < 0)
  <2>1. Make(x, y) = [numerator |-> n, denominator |-> m]
    BY <1>1, <1>3 DEF Make, Signed, Reduced, Num
  <2>2. m \in Nat \ {0}
    BY <1>1, <1>3
  <2>3. n * y = x * m
    BY <1>1
  <2> QED BY <1>1, <2>1, <2>2, <2>3 DEF IsReduced, Fraction, Same
<1> QED BY <1>2, <1>3

-----------------------------------------------------------------------------
(***************************************************************************)
(* The operators.                                                          *)
(***************************************************************************)
LEMMA FractionParts ==
  ASSUME NEW q \in Fraction
  PROVE  \E n \in Int, k \in Nat \ {0} : q.numerator = n /\ q.denominator = k
BY DEF Fraction

(* The numerators over the least common denominator.                       *)
AreScaled(q, p, g, i, j) ==
  /\ g \in Nat \ {0} /\ i \in Nat \ {0} /\ j \in Nat \ {0}
  /\ q.denominator = i * g /\ p.denominator = j * g
  /\ Scaled(q, p) = <<q.numerator * j, p.numerator * i, q.denominator * j>>

LEMMA ScaledParts ==
  ASSUME NEW q \in Fraction, NEW p \in Fraction
  PROVE  \E g, i, j : AreScaled(q, p, g, i, j)
<1>a. PICK n \in Int, k \in Nat \ {0} : q.numerator = n /\ q.denominator = k
  BY FractionParts
<1>b. PICK m \in Int, l \in Nat \ {0} : p.numerator = m /\ p.denominator = l
  BY FractionParts
<1>0. PICK g, i, j : AreQuotients(k, l, g, i, j)
  BY Quotients
<1>1. /\ g \in Nat \ {0} /\ i \in Int /\ j \in Int
      /\ gcd(k, l) = g /\ k = i * g /\ l = j * g /\ k \div g = i
      /\ (l > 0 <=> j > 0)
  BY <1>0 DEF AreQuotients
<1>2. i \in Nat \ {0} /\ j \in Nat \ {0}
  BY <1>1
<1>3. lcm(k, l) = i * l
  BY <1>1 DEF lcm
<1>4. i * l = j * k
  <2>1. i * l = (i * j) * g /\ j * k = (i * j) * g
    BY <1>1
  <2> QED BY <2>1
<1>5. lcm(k, l) \div k = j /\ lcm(k, l) \div l = i
  <2>1. (j * k) \div k = j /\ (i * l) \div l = i
    BY <1>1, QuotientOfProduct
  <2> QED BY <1>3, <1>4, <2>1
<1>6. multipliers(k, l) = <<j, i>>
  BY <1>5 DEF multipliers, Factors
<1>7. Scaled(q, p) = <<n * j, m * i, k * j>>
  BY <1>6, <1>a, <1>b DEF Scaled
<1>8. AreScaled(q, p, g, i, j)
  BY <1>1, <1>2, <1>7, <1>a, <1>b DEF AreScaled
<1> QED BY <1>8

(* A common positive factor does not matter in a comparison.               *)
LEMMA OrderScales ==
  ASSUME NEW a \in Int, NEW b \in Int, NEW g \in Nat \ {0}
  PROVE  /\ a < b <=> a * g < b * g
         /\ a <= b <=> a * g <= b * g
         /\ a = b <=> a * g = b * g
OBVIOUS

(* The comparisons are those of the fractions.                             *)
THEOREM ComparisonsAreExact ==
  ASSUME NEW q \in Fraction, NEW p \in Fraction
  PROVE  LET a == q.numerator * p.denominator
             b == p.numerator * q.denominator
         IN  /\ Less(q, p) <=> a < b
             /\ LessOrEqual(q, p) <=> a <= b
             /\ Equal(q, p) <=> a = b
<1>1. PICK n \in Int, k \in Nat \ {0} : q.numerator = n /\ q.denominator = k
  BY FractionParts
<1>2. PICK m \in Int, l \in Nat \ {0} : p.numerator = m /\ p.denominator = l
  BY FractionParts
<1>0. PICK g, i, j : AreScaled(q, p, g, i, j)
  BY ScaledParts
<1>3. /\ g \in Nat \ {0} /\ i \in Nat \ {0} /\ j \in Nat \ {0}
      /\ k = i * g /\ l = j * g /\ Scaled(q, p) = <<n * j, m * i, k * j>>
  BY <1>0, <1>1, <1>2 DEF AreScaled
<1>4. /\ Less(q, p) <=> n * j < m * i
      /\ LessOrEqual(q, p) <=> n * j <= m * i
      /\ Equal(q, p) <=> n * j = m * i
  BY <1>3 DEF Less, LessOrEqual, Equal, Over
<1>5. n * l = (n * j) * g /\ m * k = (m * i) * g
  BY <1>3
<1>6. n * j \in Int /\ m * i \in Int
  BY <1>3
<1>7. /\ Less(q, p) <=> n * l < m * k
      /\ LessOrEqual(q, p) <=> n * l <= m * k
      /\ Equal(q, p) <=> n * l = m * k
  <2>1. PICK a \in Int, b \in Int : a = n * j /\ b = m * i
    BY <1>6
  <2>2. g \in Nat \ {0}
    BY <1>3
  <2>3. (a < b <=> a * g < b * g) /\ (a <= b <=> a * g <= b * g) /\ (a = b <=> a * g = b * g)
    BY <2>2, OrderScales
  <2> QED BY <1>4, <1>5, <2>1, <2>3
<1> QED BY <1>1, <1>2, <1>7

(* A fraction with a factor in both of its parts has the same value.       *)
LEMMA SameWithFactor ==
  ASSUME NEW r, IsReduced(r), NEW a \in Int, NEW b \in Int, NEW g \in Int, g # 0
  PROVE  Same(r, <<a, b>>) <=> Same(r, <<a * g, b * g>>)
<1>1. PICK n \in Int, k \in Nat \ {0} : r.numerator = n /\ r.denominator = k
  BY FractionParts DEF IsReduced
<1>2. n * (b * g) = (n * b) * g /\ (a * g) * k = (a * k) * g
  OBVIOUS
<1>3. n * b \in Int /\ a * k \in Int
  OBVIOUS
<1>4. n * b = a * k <=> (n * b) * g = (a * k) * g
  BY <1>3
<1> QED BY <1>1, <1>2, <1>4 DEF Same

(* Sums and differences.                                                   *)
THEOREM SumsAreExact ==
  ASSUME NEW q \in Fraction, NEW p \in Fraction
  PROVE  LET n == q.numerator
             k == q.denominator
             m == p.numerator
             l == p.denominator
         IN  /\ IsReduced(Add(q, p)) /\ Same(Add(q, p), <<n * l + m * k, k * l>>)
             /\ IsReduced(Subtract(q, p)) /\ Same(Subtract(q, p), <<n * l - m * k, k * l>>)
<1>1. PICK n \in Int, k \in Nat \ {0} : q.numerator = n /\ q.denominator = k
  BY FractionParts
<1>2. PICK m \in Int, l \in Nat \ {0} : p.numerator = m /\ p.denominator = l
  BY FractionParts
<1>0. PICK g, i, j : AreScaled(q, p, g, i, j)
  BY ScaledParts
<1>3. /\ g \in Nat \ {0} /\ i \in Nat \ {0} /\ j \in Nat \ {0}
      /\ k = i * g /\ l = j * g /\ Scaled(q, p) = <<n * j, m * i, k * j>>
  BY <1>0, <1>1, <1>2 DEF AreScaled
<1>4. Add(q, p) = Make(n * j + m * i, k * j) /\ Subtract(q, p) = Make(n * j - m * i, k * j)
  BY <1>3 DEF Add, Subtract, Over
<1>5. n * j + m * i \in Int /\ n * j - m * i \in Int /\ k * j \in Int \ {0}
  BY <1>3
<1>6. /\ IsReduced(Add(q, p)) /\ Same(Add(q, p), <<n * j + m * i, k * j>>)
      /\ IsReduced(Subtract(q, p)) /\ Same(Subtract(q, p), <<n * j - m * i, k * j>>)
  BY <1>4, <1>5, MakeReduces
<1>7. /\ (n * j + m * i) * g = n * l + m * k
      /\ (n * j - m * i) * g = n * l - m * k
      /\ (k * j) * g = k * l
  <2>1. (n * j) * g = n * l /\ (m * i) * g = m * k
    BY <1>3
  <2>2. PICK u \in Int, v \in Int : u = n * j /\ v = m * i
    BY <1>3
  <2>3. (u + v) * g = u * g + v * g /\ (u - v) * g = u * g - v * g
    BY <1>3
  <2> QED BY <1>3, <2>1, <2>2, <2>3
<1>8. /\ Same(Add(q, p), <<n * l + m * k, k * l>>)
      /\ Same(Subtract(q, p), <<n * l - m * k, k * l>>)
  <2>1. PICK a \in Int, b \in Int, c \in Int :
          a = n * j + m * i /\ b = n * j - m * i /\ c = k * j
    BY <1>5
  <2>2. /\ g \in Int /\ g # 0
        /\ IsReduced(Add(q, p)) /\ Same(Add(q, p), <<a, c>>)
        /\ IsReduced(Subtract(q, p)) /\ Same(Subtract(q, p), <<b, c>>)
    BY <1>3, <1>6, <2>1
  <2>3. Same(Add(q, p), <<a * g, c * g>>) /\ Same(Subtract(q, p), <<b * g, c * g>>)
    BY <2>2, SameWithFactor
  <2> QED BY <1>7, <2>1, <2>3
<1> QED BY <1>1, <1>2, <1>6, <1>8

(* What remains of a number has no divisor that the number has not.        *)
LEMMA QuotientsCoprime ==
  ASSUME NEW a, NEW b, NEW g, NEW x, NEW y, AreQuotients(a, b, g, x, y), NEW c \in Int
  PROVE  (Coprime(a, c) => Coprime(x, c)) /\ (Coprime(b, c) => Coprime(y, c))
<1>1. g \in Int /\ x \in Int /\ y \in Int
  BY DEF AreQuotients
<1>2. (Coprime(x * g, c) => Coprime(x, c)) /\ (Coprime(y * g, c) => Coprime(y, c))
  BY <1>1, CoprimeFactor
<1> QED BY <1>2 DEF AreQuotients

(* Numbers reduced against each other across a product.                    *)
LEMMA CrossReduced ==
  ASSUME NEW a \in Int, NEW b \in Int \ {0}, NEW c \in Int, NEW d \in Int \ {0},
         Coprime(a, d), Coprime(c, b),
         NEW g, NEW x, NEW y, AreQuotients(a, b, g, x, y),
         NEW h, NEW z, NEW w, AreQuotients(c, d, h, z, w)
  PROVE  /\ x * z \in Int /\ w * y \in Int \ {0} /\ Coprime(x * z, w * y)
         /\ g * h \in Int /\ g * h # 0
         /\ (x * z) * (g * h) = a * c /\ (w * y) * (g * h) = d * b
<1>1. /\ g \in Nat \ {0} /\ x \in Int /\ y \in Int /\ a = x * g /\ b = y * g
      /\ y # 0 /\ Coprime(x, y)
  BY DEF AreQuotients
<1>2. /\ h \in Nat \ {0} /\ z \in Int /\ w \in Int /\ c = z * h /\ d = w * h
      /\ w # 0 /\ Coprime(z, w)
  BY DEF AreQuotients
<1>3. Coprime(x, w)
  <2>1. Coprime(x, d)
    BY QuotientsCoprime
  <2>2. Coprime(d, x)
    BY <1>1, <2>1, CoprimeTurned
  <2>3. Coprime(w, x)
    BY <1>1, <2>2, QuotientsCoprime
  <2> QED BY <1>1, <1>2, <2>3, CoprimeTurned
<1>4. Coprime(z, y)
  <2>1. Coprime(z, b)
    BY QuotientsCoprime
  <2>2. Coprime(b, z)
    BY <1>2, <2>1, CoprimeTurned
  <2>3. Coprime(y, z)
    BY <1>2, <2>2, QuotientsCoprime
  <2> QED BY <1>1, <1>2, <2>3, CoprimeTurned
<1>5. Coprime(x * z, w) /\ Coprime(x * z, y)
  BY <1>1, <1>2, <1>3, <1>4, CoprimeProduct
<1>6. Coprime(w * y, x * z)
  <2>1. x * z \in Int
    BY <1>1, <1>2
  <2>2. Coprime(w, x * z) /\ Coprime(y, x * z)
    BY <1>1, <1>2, <1>5, <2>1, CoprimeTurned
  <2> QED BY <1>1, <1>2, <2>1, <2>2, CoprimeProduct
<1>7. x * z \in Int /\ w * y \in Int /\ w * y # 0 /\ g * h \in Int /\ g * h # 0
  BY <1>1, <1>2
<1>8. (x * z) * (g * h) = (x * g) * (z * h) /\ (w * y) * (g * h) = (w * h) * (y * g)
  BY <1>1, <1>2
<1> QED BY <1>1, <1>2, <1>6, <1>7, <1>8, CoprimeTurned

(* Of parts that are reduced the constructor makes nothing smaller.        *)
LEMMA MakeKeeps ==
  ASSUME NEW x \in Int, NEW y \in Int \ {0}, Coprime(x, y)
  PROVE  Abs(x) = Abs(Make(x, y).numerator) /\ Abs(y) = Make(x, y).denominator
<1>1. IsReduced(Make(x, y)) /\ Same(Make(x, y), <<x, y>>)
  BY MakeReduces
<1>2. PICK n \in Int, k \in Nat \ {0} :
        Make(x, y).numerator = n /\ Make(x, y).denominator = k
  BY <1>1, FractionParts DEF IsReduced
<1>3. n * y = x * k
  BY <1>1, <1>2 DEF Same
<1>4. CASE y > 0
  <2> DEFINE p == [numerator |-> x, denominator |-> y]
  <2>1. IsReduced(p)
    BY <1>4 DEF IsReduced, Fraction
  <2>2. Make(x, y).numerator * p.denominator = p.numerator * Make(x, y).denominator
    BY <1>2, <1>3
  <2>3. Make(x, y) = p
    <3> HIDE DEF p
    <3> QED BY <1>1, <2>1, <2>2, LowestIsUnique
  <2>4. x = n /\ y = k
    BY <1>2, <2>3
  <2> QED BY <1>2, <1>4, <2>4 DEF Abs
<1>5. CASE ~(y > 0)
  <2> DEFINE p == [numerator |-> -x, denominator |-> -y]
  <2>1. IsReduced(p)
    <3>1. -x \in Int /\ -y \in Nat \ {0} /\ -y \in Int
      BY <1>5
    <3>2. Coprime(-x, -y)
      BY <3>1, CoprimeTurned
    <3> QED BY <3>1, <3>2 DEF IsReduced, Fraction
  <2>2. n * (-y) = (-x) * k
    BY <1>3
  <2>3. Make(x, y).numerator * p.denominator = p.numerator * Make(x, y).denominator
    BY <1>2, <2>2
  <2>4. Make(x, y) = p
    <3> HIDE DEF p
    <3> QED BY <1>1, <2>1, <2>3, LowestIsUnique
  <2>5. -x = n /\ -y = k
    BY <1>2, <2>4
  <2> QED BY <1>2, <1>5, <2>5 DEF Abs
<1> QED BY <1>4, <1>5

(* Products and quotients: the value is right, and no intermediate product
   is greater than the part of the result that it becomes. *)
Fits(s, r) == Abs(s[1]) = Abs(r.numerator) /\ Abs(s[2]) = r.denominator

THEOREM ProductsAreExact ==
  ASSUME NEW q, IsReduced(q), NEW p, IsReduced(p)
  PROVE  /\ IsReduced(Multiply(q, p)) /\ Fits(MultiplySteps(q, p), Multiply(q, p))
         /\ Same(Multiply(q, p),
                 <<q.numerator * p.numerator, q.denominator * p.denominator>>)
         /\ p.numerator # 0 =>
              /\ IsReduced(Divide(q, p)) /\ Fits(DivideSteps(q, p), Divide(q, p))
              /\ Same(Divide(q, p),
                      <<q.numerator * p.denominator, q.denominator * p.numerator>>)
<1>1. PICK n \in Int, k \in Nat \ {0} : q.numerator = n /\ q.denominator = k
  BY FractionParts DEF IsReduced
<1>2. PICK m \in Int, l \in Nat \ {0} : p.numerator = m /\ p.denominator = l
  BY FractionParts DEF IsReduced
<1>3. Coprime(n, k) /\ Coprime(m, l)
  BY <1>1, <1>2 DEF IsReduced
<1>4. ASSUME NEW a \in Int, NEW b \in Int \ {0}, Coprime(a, b), NEW f \in Int, f # 0
      PROVE  /\ IsReduced(Make(a, b)) /\ Fits(<<a, b>>, Make(a, b))
             /\ Same(Make(a, b), <<a * f, b * f>>)
  <2>1. IsReduced(Make(a, b)) /\ Same(Make(a, b), <<a, b>>)
    BY <1>4, MakeReduces
  <2>2. Same(Make(a, b), <<a * f, b * f>>)
    BY <1>4, <2>1, SameWithFactor
  <2> QED BY <1>4, <2>1, <2>2, MakeKeeps DEF Fits
<1>5. /\ IsReduced(Multiply(q, p)) /\ Fits(MultiplySteps(q, p), Multiply(q, p))
      /\ Same(Multiply(q, p), <<n * m, k * l>>)
  <2>1. PICK g, x, y : AreQuotients(n, l, g, x, y)
    BY Quotients
  <2>2. PICK h, z, w : AreQuotients(m, k, h, z, w)
    BY Quotients
  <2>3. MultiplySteps(q, p) = <<x * z, w * y>>
    BY <1>1, <1>2, <2>1, <2>2 DEF MultiplySteps, AreQuotients
  <2>4. Multiply(q, p) = Make(x * z, w * y)
    BY <2>3 DEF Multiply, Quotient
  <2>5. /\ x * z \in Int /\ w * y \in Int \ {0} /\ Coprime(x * z, w * y)
        /\ g * h \in Int /\ g * h # 0
        /\ (x * z) * (g * h) = n * m /\ (w * y) * (g * h) = k * l
    BY <1>3, <2>1, <2>2, CrossReduced
  <2>6. PICK a, b, f : a = x * z /\ b = w * y /\ f = g * h
    OBVIOUS
  <2>7. /\ IsReduced(Make(a, b)) /\ Fits(<<a, b>>, Make(a, b))
        /\ Same(Make(a, b), <<a * f, b * f>>)
    BY <1>4, <2>5, <2>6
  <2> QED BY <2>3, <2>4, <2>5, <2>6, <2>7
<1>6. ASSUME m # 0
      PROVE  /\ IsReduced(Divide(q, p)) /\ Fits(DivideSteps(q, p), Divide(q, p))
             /\ Same(Divide(q, p), <<n * l, k * m>>)
  <2>1. PICK g, x, y : AreQuotients(n, m, g, x, y)
    BY <1>6, Quotients
  <2>2. PICK h, z, w : AreQuotients(l, k, h, z, w)
    BY Quotients
  <2>3. DivideSteps(q, p) = <<x * z, w * y>>
    BY <1>1, <1>2, <2>1, <2>2 DEF DivideSteps, AreQuotients
  <2>4. Divide(q, p) = Make(x * z, w * y)
    BY <2>3 DEF Divide, Quotient
  <2>5. /\ x * z \in Int /\ w * y \in Int \ {0} /\ Coprime(x * z, w * y)
        /\ g * h \in Int /\ g * h # 0
        /\ (x * z) * (g * h) = n * l /\ (w * y) * (g * h) = k * m
    BY <1>3, <1>6, <2>1, <2>2, CrossReduced, CoprimeTurned
  <2>6. PICK a, b, f : a = x * z /\ b = w * y /\ f = g * h
    OBVIOUS
  <2>7. /\ IsReduced(Make(a, b)) /\ Fits(<<a, b>>, Make(a, b))
        /\ Same(Make(a, b), <<a * f, b * f>>)
    BY <1>4, <2>5, <2>6
  <2> QED BY <2>3, <2>4, <2>5, <2>6, <2>7
<1> QED BY <1>1, <1>2, <1>5, <1>6

-----------------------------------------------------------------------------
(***************************************************************************)
(* Texts: the loops over digits.                                           *)
(***************************************************************************)
Follows(f, start, a, n) ==
  f[0] = start /\ \A k \in 1 .. n : f[k] = 10 * f[k - 1] + a[k]
IsLoop(f, start, a, n) == f \in [0 .. n -> Nat] /\ Follows(f, start, a, n)

LEMMA LoopExists ==
  ASSUME NEW N \in Nat, NEW start \in Nat, NEW a \in [1 .. N -> Nat]
  PROVE  \E f : IsLoop(f, start, a, N)
<1> SUFFICES ASSUME ~\E f : IsLoop(f, start, a, N)  PROVE FALSE
  OBVIOUS
<1> DEFINE T == {n \in 0 .. N : ~\E f : IsLoop(f, start, a, n)}
<1>1. PICK n \in T : \A k \in T : n <= k
  <2>1. T \subseteq Nat /\ N \in T
    OBVIOUS
  <2> HIDE DEF T
  <2> QED BY <2>1, Least
<1>2. n \in 0 .. N /\ ~\E f : IsLoop(f, start, a, n)
  OBVIOUS
<1>3. CASE n = 0
  <2>1. IsLoop([k \in 0 .. 0 |-> start], start, a, 0)
    BY DEF IsLoop, Follows
  <2> QED BY <1>2, <1>3, <2>1
<1>4. CASE n # 0
  <2>1. n - 1 \in 0 .. N /\ n - 1 \notin T
    BY <1>1, <1>2, <1>4
  <2>2. PICK f : IsLoop(f, start, a, n - 1)
    BY <2>1
  <2> DEFINE g == [k \in 0 .. n |-> IF k = n THEN 10 * f[n - 1] + a[n] ELSE f[k]]
  <2>3. \A k \in 0 .. n - 1 : f[k] \in Nat
    BY <2>2 DEF IsLoop
  <2>4. a[n] \in Nat /\ f[n - 1] \in Nat
    BY <1>2, <1>4, <2>3
  <2>5. g \in [0 .. n -> Nat]
    BY <2>3, <2>4
  <2>6. g[0] = start
    BY <1>2, <1>4, <2>2 DEF IsLoop, Follows
  <2>7. ASSUME NEW k \in 1 .. n  PROVE g[k] = 10 * g[k - 1] + a[k]
    <3>1. CASE k = n
      BY <1>2, <1>4, <3>1
    <3>2. CASE k # n
      <4>1. k \in 1 .. n - 1 /\ k - 1 # n /\ k \in 0 .. n /\ k - 1 \in 0 .. n
        BY <1>2, <2>7, <3>2
      <4>2. f[k] = 10 * f[k - 1] + a[k]
        BY <2>2, <4>1 DEF IsLoop, Follows
      <4> QED BY <3>2, <4>1, <4>2
    <3> QED BY <3>1, <3>2
  <2>8. IsLoop(g, start, a, n)
    <3> HIDE DEF g
    <3> QED BY <2>5, <2>6, <2>7 DEF IsLoop, Follows
  <2> QED BY <1>2, <2>8
<1> QED BY <1>3, <1>4

(* Two loops that do the same in every turn have the same values.          *)
LEMMA SameLoops ==
  ASSUME NEW f, NEW g, NEW n \in Nat, f[0] = g[0],
         \A k \in 1 .. n : f[k - 1] = g[k - 1] => f[k] = g[k]
  PROVE  \A k \in 0 .. n : f[k] = g[k]
<1> DEFINE T == {k \in 0 .. n : f[k] # g[k]}
<1> SUFFICES ASSUME T # {}  PROVE FALSE
  OBVIOUS
<1>1. PICK k \in T : \A j \in T : k <= j
  <2>1. T \subseteq Nat
    OBVIOUS
  <2> HIDE DEF T
  <2> QED BY <2>1, Least
<1>2. k \in 1 .. n /\ f[k] # g[k]
  OBVIOUS
<1>3. k - 1 \in 0 .. n /\ k - 1 \notin T
  BY <1>1, <1>2
<1> QED BY <1>2, <1>3

LEMMA DigitsLoop ==
  ASSUME NEW s \in Seq(Nat)
  PROVE  \E f : IsLoop(f, 0, s, Len(s)) /\ Digits(s) = f[Len(s)]
<1> DEFINE IsValue(f) ==
      f = [k \in 0 .. Len(s) |-> IF k = 0 THEN 0 ELSE 10 * f[k - 1] + s[k]]
<1>1. PICK n \in Nat : n = Len(s)
  OBVIOUS
<1>2. s \in [1 .. n -> Nat]
  BY <1>1
<1>3. PICK f : IsLoop(f, 0, s, n)
  BY <1>2, LoopExists
<1>4. f = [k \in 0 .. n |-> IF k = 0 THEN 0 ELSE 10 * f[k - 1] + s[k]]
  BY <1>3 DEF IsLoop, Follows
<1>5. Digits(s) = (CHOOSE g : IsValue(g))[n]
  BY <1>1 DEF Digits
<1>6. PICK g : IsValue(g) /\ Digits(s) = g[n]
  <2>1. IsValue(f)
    BY <1>1, <1>4
  <2> HIDE DEF IsValue
  <2> QED BY <1>5, <2>1
<1>7. g[0] = f[0] /\ \A k \in 1 .. n : g[k - 1] = f[k - 1] => g[k] = f[k]
  <2>1. g = [k \in 0 .. n |-> IF k = 0 THEN 0 ELSE 10 * g[k - 1] + s[k]]
    BY <1>1, <1>6
  <2>2. g[0] = 0 /\ \A k \in 1 .. n : g[k] = 10 * g[k - 1] + s[k]
    BY <2>1
  <2> QED BY <1>3, <2>2 DEF IsLoop, Follows
<1>8. g[n] = f[n]
  <2>1. \A k \in 0 .. n : g[k] = f[k]
    BY <1>7, SameLoops
  <2> QED BY <2>1
<1> QED BY <1>1, <1>3, <1>6, <1>8

Zeros(s) == [k \in 1 .. Len(s) |-> 0]

LEMMA ScaleLoop ==
  ASSUME NEW s \in Seq(Nat)
  PROVE  \E f : IsLoop(f, 1, Zeros(s), Len(s)) /\ Scale(s) = f[Len(s)]
<1> DEFINE IsValue(f) ==
      f = [k \in 0 .. Len(s) |-> IF k = 0 THEN 1 ELSE 10 * f[k - 1]]
<1>1. PICK n \in Nat : n = Len(s)
  OBVIOUS
<1>2. Zeros(s) \in [1 .. n -> Nat] /\ \A k \in 1 .. n : Zeros(s)[k] = 0
  BY <1>1 DEF Zeros
<1>3. PICK f : IsLoop(f, 1, Zeros(s), n)
  BY <1>2, LoopExists
<1>4. /\ f \in [0 .. n -> Nat] /\ f[0] = 1
      /\ \A k \in 1 .. n : f[k] = 10 * f[k - 1]
  <2>1. \A k \in 1 .. n : f[k] = 10 * f[k - 1] + 0 /\ f[k - 1] \in Nat
    BY <1>2, <1>3 DEF IsLoop, Follows
  <2> QED BY <1>3, <2>1 DEF IsLoop, Follows
<1>5. Scale(s) = (CHOOSE g : IsValue(g))[n]
  BY <1>1 DEF Scale
<1>6. PICK g : IsValue(g) /\ Scale(s) = g[n]
  <2>1. f = [k \in 0 .. n |-> IF k = 0 THEN 1 ELSE 10 * f[k - 1]]
    BY <1>4
  <2>2. IsValue(f)
    BY <1>1, <2>1
  <2> HIDE DEF IsValue
  <2> QED BY <1>5, <2>2
<1>7. g[0] = f[0] /\ \A k \in 1 .. n : g[k - 1] = f[k - 1] => g[k] = f[k]
  <2>1. g = [k \in 0 .. n |-> IF k = 0 THEN 1 ELSE 10 * g[k - 1]]
    BY <1>1, <1>6
  <2>2. g[0] = 1 /\ \A k \in 1 .. n : g[k] = 10 * g[k - 1]
    BY <2>1
  <2> QED BY <1>4, <2>2
<1>8. g[n] = f[n]
  <2>1. \A k \in 0 .. n : g[k] = f[k]
    BY <1>7, SameLoops
  <2> QED BY <2>1
<1> QED BY <1>1, <1>3, <1>6, <1>8

LEMMA DigitsType ==
  ASSUME NEW s \in Seq(Nat)
  PROVE  Digits(s) \in Nat /\ Scale(s) \in Nat \ {0}
<1>1. PICK n \in Nat : n = Len(s)
  OBVIOUS
<1>2. Digits(s) \in Nat
  BY <1>1, DigitsLoop DEF IsLoop
<1>3. PICK f : IsLoop(f, 1, Zeros(s), n) /\ Scale(s) = f[n]
  BY <1>1, ScaleLoop
<1> DEFINE g == [k \in 0 .. n |-> IF f[k] > 0 THEN f[k] ELSE 1]
<1>4. ASSUME NEW k \in 1 .. n, f[k - 1] = g[k - 1]  PROVE f[k] = g[k]
  <2>1. f[k] \in Nat /\ f[k - 1] \in Nat /\ f[k - 1] > 0
    BY <1>3, <1>4 DEF IsLoop
  <2>2. f[k] = 10 * f[k - 1] + 0
    BY <1>1, <1>3 DEF IsLoop, Follows, Zeros
  <2> QED BY <2>1, <2>2
<1>5. f[0] = g[0]
  BY <1>3 DEF IsLoop, Follows
<1>6. f[n] = g[n]
  <2>1. \A k \in 0 .. n : f[k] = g[k]
    <3> HIDE DEF g
    <3> QED BY <1>4, <1>5, SameLoops
  <2> QED BY <2>1
<1>7. f[n] > 0 /\ f[n] \in Nat
  BY <1>3, <1>6 DEF IsLoop
<1> QED BY <1>2, <1>3, <1>7

LEMMA DigitsOfEmpty == Digits(<<>>) = 0 /\ Scale(<<>>) = 1
<1>1. Len(<<>>) = 0 /\ <<>> \in Seq(Nat)
  OBVIOUS
<1>2. PICK f : IsLoop(f, 0, <<>>, 0) /\ Digits(<<>>) = f[0]
  BY <1>1, DigitsLoop
<1>3. PICK g : IsLoop(g, 1, Zeros(<<>>), 0) /\ Scale(<<>>) = g[0]
  BY <1>1, ScaleLoop
<1> QED BY <1>2, <1>3 DEF IsLoop, Follows

(* Digits behind others.                                                   *)
LEMMA DigitsOfConcatenation ==
  ASSUME NEW u \in Seq(Nat), NEW v \in Seq(Nat)
  PROVE  Digits(u \o v) = Digits(u) * Scale(v) + Digits(v)
<1>1. PICK n \in Nat, m \in Nat : n = Len(u) /\ m = Len(v)
  OBVIOUS
<1>2. u \o v \in Seq(Nat) /\ Len(u \o v) = n + m
  BY <1>1
<1>3. PICK f : IsLoop(f, 0, u, n) /\ Digits(u) = f[n]
  BY <1>1, DigitsLoop
<1>4. PICK g : IsLoop(g, 0, v, m) /\ Digits(v) = g[m]
  BY <1>1, DigitsLoop
<1>5. PICK h : IsLoop(h, 1, Zeros(v), m) /\ Scale(v) = h[m]
  BY <1>1, ScaleLoop
<1>6. PICK e : IsLoop(e, 0, u \o v, n + m) /\ Digits(u \o v) = e[n + m]
  BY <1>2, DigitsLoop
<1>7. e[n] = f[n]
  <2>1. e[0] = f[0] /\ \A k \in 1 .. n : e[k - 1] = f[k - 1] => e[k] = f[k]
    <3>1. \A k \in 1 .. n : (u \o v)[k] = u[k] /\ k \in 1 .. n + m
      BY <1>1
    <3> QED BY <1>3, <1>6, <3>1 DEF IsLoop, Follows
  <2>2. \A k \in 0 .. n : e[k] = f[k]
    BY ZenonT(40), <2>1, SameLoops
  <2> QED BY <2>2
<1>8. PICK x \in Nat : x = f[n]
  BY <1>3 DEF IsLoop
<1> DEFINE c == [k \in 0 .. m |-> x * h[k] + g[k]]
           d == [k \in 0 .. m |-> e[n + k]]
<1>9. d[0] = c[0]
  <2>1. h[0] = 1 /\ g[0] = 0
    BY <1>4, <1>5 DEF IsLoop, Follows
  <2>2. c[0] = x * 1 + 0 /\ d[0] = e[n]
    BY <2>1
  <2> QED BY <1>7, <1>8, <2>2
<1>10. ASSUME NEW k \in 1 .. m, d[k - 1] = c[k - 1]  PROVE d[k] = c[k]
  <2>1. h[k] = 10 * h[k - 1] + 0 /\ g[k] = 10 * g[k - 1] + v[k]
    BY <1>1, <1>4, <1>5 DEF IsLoop, Follows, Zeros
  <2>2. h[k - 1] \in Nat /\ g[k - 1] \in Nat /\ v[k] \in Nat
    <3>1. k \in 1 .. m /\ k - 1 \in 0 .. m
      BY <1>1, <1>10
    <3>2. v[k] \in Nat
      BY <1>1, <3>1
    <3>3. h \in [0 .. m -> Nat] /\ g \in [0 .. m -> Nat]
      BY <1>4, <1>5 DEF IsLoop
    <3> QED BY <3>1, <3>2, <3>3
  <2>3. e[n + k] = 10 * e[n + (k - 1)] + v[k]
    <3>1. (u \o v)[n + k] = v[k] /\ n + k \in 1 .. n + m /\ (n + k) - 1 = n + (k - 1)
      BY <1>1
    <3> QED BY <1>6, <3>1 DEF IsLoop, Follows
  <2>4. e[n + (k - 1)] = x * h[k - 1] + g[k - 1]
    BY <1>10
  <2>5. 10 * (x * h[k - 1] + g[k - 1]) + v[k]
          = x * (10 * h[k - 1] + 0) + (10 * g[k - 1] + v[k])
    BY SMTT(25), <2>2
  <2> QED BY <2>1, <2>3, <2>4, <2>5
<1>11. d[m] = c[m]
  <2>1. \A k \in 0 .. m : d[k] = c[k]
    <3> HIDE DEF c, d
    <3> QED BY ZenonT(40), <1>9, <1>10, SameLoops
  <2> QED BY <2>1
<1>12. e[n + m] = x * h[m] + g[m]
  BY <1>11
<1> QED BY <1>3, <1>4, <1>5, <1>6, <1>8, <1>12

LEMMA DigitsOfAppend ==
  ASSUME NEW s \in Seq(Nat), NEW c \in Nat
  PROVE  Digits(Append(s, c)) = 10 * Digits(s) + c
<1>1. PICK n \in Nat : n = Len(s)
  OBVIOUS
<1>2. PICK f : IsLoop(f, 0, s, n) /\ Digits(s) = f[n]
  BY <1>1, DigitsLoop
<1>3. Append(s, c) \in Seq(Nat) /\ Len(Append(s, c)) = n + 1
  BY <1>1
<1>4. PICK g : IsLoop(g, 0, Append(s, c), n + 1) /\ Digits(Append(s, c)) = g[n + 1]
  BY <1>3, DigitsLoop
<1>5. g[0] = f[0] /\ \A k \in 1 .. n : g[k - 1] = f[k - 1] => g[k] = f[k]
  <2>1. \A k \in 1 .. n : Append(s, c)[k] = s[k] /\ k \in 1 .. n + 1
    BY <1>1
  <2> QED BY <1>2, <1>4, <2>1 DEF IsLoop, Follows
<1>6. g[n] = f[n]
  <2>1. \A k \in 0 .. n : g[k] = f[k]
    BY ZenonT(40), <1>5, SameLoops
  <2> QED BY <2>1
<1>7. g[n + 1] = 10 * g[n] + c
  <2>1. Append(s, c)[n + 1] = c /\ n + 1 \in 1 .. n + 1 /\ (n + 1) - 1 = n
    BY <1>1
  <2> QED BY <1>4, <2>1 DEF IsLoop, Follows
<1> QED BY <1>2, <1>4, <1>6, <1>7

(***************************************************************************)
(* Reading.                                                                *)
(***************************************************************************)
LEMMA SeparatorIsFirst ==
  ASSUME NEW s, NEW n \in Nat, n = Len(s), DOMAIN s = 1 .. n
  PROVE  /\ Separator(s) \in 1 .. n + 1
         /\ Separator(s) <= n => s[Separator(s)] \in {Point, Slash}
         /\ \A j \in 1 .. n : s[j] \in {Point, Slash} => Separator(s) <= j
<1> DEFINE P == {i \in DOMAIN s : s[i] \in {Point, Slash}}
           F(i) == \A j \in P : i <= j
<1>1. P \subseteq Nat /\ P \subseteq 1 .. n
  OBVIOUS
<1>2. Separator(s) = CHOOSE i \in P \cup {n + 1} : F(i)
  BY DEF Separator
<1>3. \E i \in P \cup {n + 1} : F(i)
  <2>1. P \cup {n + 1} \subseteq Nat /\ P \cup {n + 1} # {}
    BY <1>1
  <2>2. \E i \in P \cup {n + 1} : \A j \in P \cup {n + 1} : i <= j
    <3> HIDE DEF P
    <3> QED BY <2>1, Least
  <2> QED BY <2>2
<1>4. Separator(s) \in P \cup {n + 1} /\ F(Separator(s))
  <2> HIDE DEF P, F
  <2> QED BY <1>2, <1>3
<1> QED BY <1>1, <1>4

(* The parts of a text.                                                    *)
Front(s) == SubSeq(s, 1, Separator(s) - 1)
Rest(s) == SubSeq(s, Separator(s) + 1, Len(s))

LEMMA NumeralParts ==
  ASSUME NEW s, IsNumeral(s)
  PROVE  \E i \in Nat, n \in Nat :
           /\ i = Separator(s) /\ n = Len(s) /\ DOMAIN s = 1 .. n
           /\ Front(s) \in Seq(Nat) /\ Rest(s) \in Seq(Nat)
           /\ i > n => Rest(s) = <<>>
           /\ i <= n /\ s[i] = Slash => Digits(Rest(s)) # 0
<1>1. s \in Seq(0 .. 9 \cup {Point, Slash})
  BY DEF IsNumeral
<1>2. PICK n \in Nat : n = Len(s)
  BY <1>1
<1>3. s \in [1 .. n -> Int] /\ s \in Seq(Int) /\ DOMAIN s = 1 .. n
  BY <1>1, <1>2 DEF Point, Slash
<1>4. PICK i \in 1 .. n + 1 :
        i = Separator(s) /\ \A j \in 1 .. n : s[j] \in {Point, Slash} => i <= j
  BY <1>2, <1>3, SeparatorIsFirst
<1>5. \A j \in 1 .. n : s[j] \in 0 .. 9 \cup {Point, Slash}
  BY <1>1, <1>2
<1>6. Front(s) \in Seq(Nat)
  <2>1. \A j \in 1 .. i - 1 : s[j] \in Nat
    BY <1>4, <1>5
  <2>2. Front(s) = [j \in 1 .. i - 1 |-> s[j]]
    BY <1>2, <1>3, <1>4 DEF Front
  <2>3. i - 1 \in Nat
    BY <1>4
  <2> QED BY <2>1, <2>2, <2>3
<1>7. Rest(s) \in Seq(Nat) /\ (i > n => Rest(s) = <<>>)
  <2>1. \A j \in i + 1 .. n : s[j] \in Nat
    BY <1>2, <1>4 DEF IsNumeral
  <2>2. CASE i >= n
    <3>1. Rest(s) = <<>>
      BY <1>2, <1>3, <1>4, <2>2 DEF Rest
    <3> QED BY <3>1
  <2>3. CASE i < n
    <3>1. Rest(s) = [j \in 1 .. n - i |-> s[j + i]]
      <4>1. n - (i + 1) + 1 = n - i
        BY <1>4
      <4>2. Rest(s) \in Seq(Int) /\ Len(Rest(s)) = n - i
        BY <1>2, <1>3, <1>4, <2>3, <4>1 DEF Rest
      <4>3. \A j \in 1 .. n - i : Rest(s)[j] = s[j + i]
        <5>1. ASSUME NEW j \in 1 .. n - i  PROVE Rest(s)[j] = s[j + i]
          <6>1. Rest(s)[j] = s[(i + 1) + j - 1] /\ (i + 1) + j - 1 = j + i
            BY SMTT(25), <1>2, <1>3, <1>4, <2>3, <5>1 DEF Rest
          <6> QED BY <6>1
        <5> QED BY <5>1
      <4> QED BY <4>2, <4>3
    <3>2. \A j \in 1 .. n - i : j + i \in i + 1 .. n
      BY <1>4, <2>3
    <3>3. n - i \in Nat
      BY <1>4, <2>3
    <3> QED BY <2>1, <2>3, <3>1, <3>2, <3>3
  <2> QED BY <1>4, <2>2, <2>3
<1>8. i <= n /\ s[i] = Slash => Digits(Rest(s)) # 0
  BY <1>2, <1>4 DEF IsNumeral, Rest
<1>9. i \in Nat /\ i = Separator(s)
  BY <1>4
<1> QED BY <1>2, <1>3, <1>6, <1>7, <1>8, <1>9

LEMMA WholeIsReduced ==
  ASSUME NEW n \in Int
  PROVE  IsReduced(Num(n, 1))
<1>1. 0 * n + 1 * 1 = 1
  OBVIOUS
<1>2. Coprime(n, 1)
  BY <1>1 DEF Coprime
<1> QED BY <1>2 DEF IsReduced, Fraction, Num

(* Reading keeps the value and reduces: an integer, a decimal whose fraction
   is reduced before the whole part is added, or a quotient. *)
THEOREM ParseIsExact ==
  ASSUME NEW s, IsNumeral(s)
  PROVE  IsReduced(Parse(s)) /\ Same(Parse(s), TextValue(s))
<1>1. PICK i \in Nat, n \in Nat :
        /\ i = Separator(s) /\ n = Len(s)
        /\ Front(s) \in Seq(Nat) /\ Rest(s) \in Seq(Nat)
        /\ i > n => Rest(s) = <<>>
        /\ i <= n /\ s[i] = Slash => Digits(Rest(s)) # 0
  BY NumeralParts
<1>2. PICK w \in Nat, d \in Nat, t \in Nat \ {0} :
        /\ w = Digits(Front(s)) /\ d = Digits(Rest(s)) /\ t = Scale(Rest(s))
        /\ Digits(Front(s) \o Rest(s)) = w * t + d
  BY <1>1, DigitsType, DigitsOfConcatenation
<1>3. TextValue(s) = IF i <= n /\ s[i] = Slash THEN <<w, d>> ELSE <<w * t + d, t>>
  BY <1>1, <1>2 DEF TextValue, Front, Rest
<1>4. CASE i > n
  <2>1. Parse(s) = Num(w, 1)
    BY <1>1, <1>2, <1>4 DEF Parse, Front
  <2>2. d = 0 /\ t = 1
    BY <1>1, <1>2, <1>4, DigitsOfEmpty
  <2>3. w * 1 = (w * 1 + 0) * 1
    OBVIOUS
  <2>4. TextValue(s) = <<w * 1 + 0, 1>>
    BY <1>3, <1>4, <2>2
  <2> QED BY <2>1, <2>3, <2>4, WholeIsReduced DEF Same, Num
<1>5. CASE i <= n /\ s[i] = Slash
  <2>1. d # 0
    BY <1>1, <1>2, <1>5
  <2>2. PICK g, x, y : AreQuotients(w, d, g, x, y)
    BY <2>1, Quotients
  <2>3. Parse(s) = Num(w \div gcd(w, d), d \div gcd(w, d))
    BY <1>1, <1>2, <1>5 DEF Parse, Front, Rest
  <2>4. Parse(s) = [numerator |-> x, denominator |-> y]
    BY <2>2, <2>3 DEF Num, AreQuotients
  <2>5. /\ x \in Int /\ y \in Nat \ {0} /\ Coprime(x, y)
        /\ g \in Nat /\ w = x * g /\ d = y * g
    BY <2>1, <2>2 DEF AreQuotients
  <2>6. x * d = w * y
    BY <2>5
  <2>7. TextValue(s) = <<w, d>>
    BY <1>3, <1>5
  <2> QED BY <2>4, <2>5, <2>6, <2>7 DEF IsReduced, Fraction, Same
<1>6. CASE i <= n /\ s[i] # Slash
  <2>1. IsReduced(Make(d, t)) /\ Same(Make(d, t), <<d, t>>)
    BY MakeReduces
  <2>2. PICK x \in Int, y \in Nat \ {0} :
          Make(d, t).numerator = x /\ Make(d, t).denominator = y
    BY <2>1, FractionParts DEF IsReduced
  <2>3. Parse(s) = ParseDecimal(Front(s), Rest(s))
    BY <1>1, <1>6 DEF Parse, Front, Rest
  <2>4. Parse(s) = [numerator |-> x + w * y, denominator |-> y]
    BY <1>2, <2>2, <2>3 DEF ParseDecimal, Num
  <2>5. Coprime(x + w * y, y)
    <3>1. PICK u \in Int, v \in Int : u * x + v * y = 1
      BY <2>1, <2>2 DEF IsReduced, Coprime
    <3>2. u * (x + w * y) + (v - u * w) * y = u * x + v * y
      OBVIOUS
    <3>3. v - u * w \in Int
      OBVIOUS
    <3>4. u * (x + w * y) + (v - u * w) * y = 1
      BY <3>1, <3>2
    <3> QED BY <3>3, <3>4 DEF Coprime
  <2>6. (x + w * y) * t = (w * t + d) * y
    <3>1. x * t = d * y
      BY <2>1, <2>2 DEF Same
    <3>2. (x + w * y) * t = x * t + (w * t) * y /\ (w * t + d) * y = (w * t) * y + d * y
      OBVIOUS
    <3> QED BY <3>1, <3>2
  <2>7. TextValue(s) = <<w * t + d, t>>
    BY <1>3, <1>6
  <2>8. x + w * y \in Int
    OBVIOUS
  <2> QED BY <2>4, <2>5, <2>6, <2>7, <2>8 DEF IsReduced, Fraction, Same
<1> QED BY <1>4, <1>5, <1>6

-----------------------------------------------------------------------------
(***************************************************************************)
(* Writing.                                                                *)
(***************************************************************************)
Step(f, x) == IF x < 10 THEN <<x>> ELSE Append(f[x \div 10], x % 10)
IsSegment(f, n) == f \in [0 .. n -> Seq(0 .. 9)] /\ \A x \in 0 .. n : f[x] = Step(f, x)

LEMMA Tenth ==
  ASSUME NEW x \in Nat, ~(x < 10)
  PROVE  x \div 10 \in Nat /\ x \div 10 < x /\ x % 10 \in 0 .. 9 /\ x = 10 * (x \div 10) + (x % 10)
OBVIOUS

LEMMA SegmentExists ==
  ASSUME NEW N \in Nat
  PROVE  \E f : IsSegment(f, N)
<1> SUFFICES ASSUME ~\E f : IsSegment(f, N)  PROVE FALSE
  OBVIOUS
<1> DEFINE T == {n \in Nat : ~\E f : IsSegment(f, n)}
<1>1. PICK n \in T : \A k \in T : n <= k
  <2>1. T \subseteq Nat /\ N \in T
    OBVIOUS
  <2> HIDE DEF T
  <2> QED BY <2>1, Least
<1>2. n \in Nat /\ ~\E f : IsSegment(f, n)
  OBVIOUS
<1>3. \E f : f \in [0 .. n - 1 -> Seq(0 .. 9)] /\ \A x \in 0 .. n - 1 : f[x] = Step(f, x)
  <2>1. CASE n = 0
    <3>1. 0 .. n - 1 = {}
      BY <2>1
    <3>2. [x \in 0 .. n - 1 |-> <<>>] \in [0 .. n - 1 -> Seq(0 .. 9)]
      BY <3>1
    <3> QED BY <3>1, <3>2
  <2>2. CASE n # 0
    <3>1. n - 1 \in Nat /\ n - 1 \notin T
      BY <1>1, <1>2, <2>2
    <3> QED BY <3>1 DEF IsSegment
  <2> QED BY <2>1, <2>2
<1>4. PICK f : f \in [0 .. n - 1 -> Seq(0 .. 9)] /\ \A x \in 0 .. n - 1 : f[x] = Step(f, x)
  BY <1>3
<1>5. Step(f, n) \in Seq(0 .. 9)
  <2>1. CASE n < 10
    <3>1. n \in 0 .. 9
      BY <1>2, <2>1
    <3> QED BY <2>1, <3>1 DEF Step
  <2>2. CASE ~(n < 10)
    <3>1. n \div 10 \in 0 .. n - 1 /\ n % 10 \in 0 .. 9
      BY <1>2, <2>2, Tenth
    <3>2. f[n \div 10] \in Seq(0 .. 9)
      BY <1>4, <3>1
    <3> QED BY <2>2, <3>1, <3>2 DEF Step
  <2> QED BY <2>1, <2>2
<1> DEFINE g == [x \in 0 .. n |-> IF x = n THEN Step(f, n) ELSE f[x]]
<1>6. ASSUME NEW x \in 0 .. n  PROVE g[x] \in Seq(0 .. 9) /\ g[x] = Step(g, x)
  <2>1. g[x] = Step(f, x)
    BY <1>2, <1>4, <1>6
  <2>2. CASE x < 10
    BY <1>2, <1>4, <1>5, <1>6, <2>1, <2>2 DEF Step
  <2>3. CASE ~(x < 10)
    <3>1. x \div 10 \in 0 .. n /\ x \div 10 # n
      BY <1>2, <1>6, <2>3, Tenth
    <3>2. g[x \div 10] = f[x \div 10]
      BY <3>1
    <3>3. g[x] = Step(g, x)
      <4> HIDE DEF g
      <4> QED BY <2>1, <2>3, <3>2 DEF Step
    <3> QED BY <1>2, <1>4, <1>5, <1>6, <3>3
  <2> QED BY <2>2, <2>3
<1>7. IsSegment(g, n)
  <2>1. g \in [0 .. n -> Seq(0 .. 9)]
    BY <1>6
  <2> HIDE DEF g
  <2> QED BY <1>6, <2>1 DEF IsSegment
<1> QED BY <1>2, <1>7

LEMMA SegmentsAgree ==
  ASSUME NEW n \in Nat, NEW m \in Nat, NEW f, NEW g, IsSegment(f, n), IsSegment(g, m)
  PROVE  \A x \in Nat : x <= n /\ x <= m => f[x] = g[x]
<1> DEFINE T == {x \in Nat : x <= n /\ x <= m /\ f[x] # g[x]}
<1> SUFFICES ASSUME T # {}  PROVE FALSE
  OBVIOUS
<1>1. PICK x \in T : \A y \in T : x <= y
  <2>1. T \subseteq Nat
    OBVIOUS
  <2> HIDE DEF T
  <2> QED BY <2>1, Least
<1>2. x \in Nat /\ x <= n /\ x <= m /\ f[x] # g[x]
  OBVIOUS
<1>3. f[x] = Step(f, x) /\ g[x] = Step(g, x)
  BY <1>2 DEF IsSegment
<1>4. ~(x < 10)
  BY <1>2, <1>3 DEF Step
<1>5. x \div 10 \in Nat /\ x \div 10 < x
  BY <1>2, <1>4, Tenth
<1>6. f[x \div 10] = g[x \div 10]
  <2>1. x \div 10 \notin T
    BY <1>1, <1>2, <1>5
  <2> QED BY <1>2, <1>5, <2>1
<1> QED BY <1>2, <1>3, <1>4, <1>6 DEF Step

LEMMA DecimalIsDefined ==
  \A x \in Nat : decimal[x] = Step(decimal, x)
<1> DEFINE IsDecimal(f) ==
      f = [x \in Nat |-> IF x < 10 THEN <<x>> ELSE Append(f[x \div 10], x % 10)]
           g == [x \in Nat |-> (CHOOSE f : IsSegment(f, x))[x]]
<1>1. ASSUME NEW n \in Nat, NEW f, IsSegment(f, n), NEW x \in Nat, x <= n
      PROVE  g[x] = f[x]
  <2>1. PICK e : IsSegment(e, x) /\ g[x] = e[x]
    <3>1. g[x] = (CHOOSE e : IsSegment(e, x))[x]
      OBVIOUS
    <3> HIDE DEF g
    <3> QED BY <3>1, SegmentExists
  <2> HIDE DEF g
  <2> QED BY <1>1, <2>1, SegmentsAgree
<1>2. ASSUME NEW x \in Nat  PROVE g[x] = Step(g, x)
  <2> HIDE DEF g
  <2>1. PICK f : IsSegment(f, x)
    BY SegmentExists
  <2>2. f[x] = Step(f, x) /\ g[x] = f[x]
    <3>1. x \in 0 .. x /\ x <= x
      OBVIOUS
    <3>2. f[x] = Step(f, x)
      BY <2>1, <3>1 DEF IsSegment
    <3> QED BY <1>1, <2>1, <3>1, <3>2
  <2>3. CASE x < 10
    BY <2>2, <2>3 DEF Step
  <2>4. CASE ~(x < 10)
    <3>1. x \div 10 \in Nat /\ x \div 10 <= x
      BY <2>4, Tenth
    <3>2. g[x \div 10] = f[x \div 10]
      BY <1>1, <2>1, <3>1
    <3> QED BY <2>2, <2>4, <3>2 DEF Step
  <2> QED BY <2>3, <2>4
<1>3. \E f : IsDecimal(f)
  <2>1. g = [x \in Nat |-> g[x]]
    OBVIOUS
  <2> HIDE DEF g
  <2>2. IsDecimal(g)
    BY <1>2, <2>1 DEF Step
  <2> HIDE DEF IsDecimal
  <2> QED BY <2>2
<1>4. IsDecimal(decimal)
  <2>1. decimal = CHOOSE f : IsDecimal(f)
    BY DEF decimal
  <2> HIDE DEF IsDecimal
  <2> QED BY <1>3, <2>1
<1>5. PICK f : f = decimal
  OBVIOUS
<1>6. f = [x \in Nat |-> IF x < 10 THEN <<x>> ELSE Append(f[x \div 10], x % 10)]
  BY <1>4, <1>5
<1>7. \A x \in Nat : f[x] = Step(f, x)
  BY <1>6 DEF Step
<1> QED BY <1>5, <1>7

(* The digits of a number stand for it.                                    *)
LEMMA DigitsOfDecimal ==
  ASSUME NEW n \in Nat
  PROVE  decimal[n] \in Seq(0 .. 9) /\ Digits(decimal[n]) = n
<1> DEFINE Good(x) == decimal[x] \in Seq(0 .. 9) /\ Digits(decimal[x]) = x
           T == {x \in Nat : ~Good(x)}
<1> SUFFICES ASSUME ~Good(n)  PROVE FALSE
  OBVIOUS
<1>1. PICK x \in T : \A y \in T : x <= y
  <2>1. T \subseteq Nat /\ n \in T
    OBVIOUS
  <2> HIDE DEF T
  <2> QED BY <2>1, Least
<1>2. x \in Nat /\ ~Good(x)
  OBVIOUS
<1>3. decimal[x] = Step(decimal, x)
  BY <1>2, DecimalIsDefined
<1>4. CASE x < 10
  <2>1. decimal[x] = Append(<<>>, x) /\ x \in 0 .. 9
    BY <1>2, <1>3, <1>4 DEF Step
  <2>2. <<>> \in Seq(Nat) /\ <<>> \in Seq(0 .. 9)
    OBVIOUS
  <2>3. Digits(Append(<<>>, x)) = 10 * 0 + x
    BY <1>2, <2>2, DigitsOfAppend, DigitsOfEmpty
  <2>4. Append(<<>>, x) \in Seq(0 .. 9)
    BY <2>1, <2>2
  <2> QED BY <1>2, <2>1, <2>3, <2>4
<1>5. CASE ~(x < 10)
  <2>1. /\ x \div 10 \in Nat /\ x \div 10 < x /\ x % 10 \in 0 .. 9
        /\ x = 10 * (x \div 10) + (x % 10)
    BY <1>2, <1>5, Tenth
  <2>2. Good(x \div 10)
    <3>1. x \div 10 \notin T
      BY <1>1, <1>2, <2>1
    <3> HIDE DEF Good
    <3> QED BY <2>1, <3>1
  <2>3. PICK w, c : w = decimal[x \div 10] /\ c = x % 10
    OBVIOUS
  <2>4. w \in Seq(0 .. 9) /\ w \in Seq(Nat) /\ c \in 0 .. 9 /\ c \in Nat /\ Digits(w) = x \div 10
    BY <2>1, <2>2, <2>3
  <2>5. decimal[x] = Append(w, c)
    BY <1>3, <1>5, <2>3 DEF Step
  <2>6. Digits(Append(w, c)) = 10 * Digits(w) + c
    BY <2>4, DigitsOfAppend
  <2>7. Append(w, c) \in Seq(0 .. 9)
    BY <2>4
  <2>8. 10 * Digits(w) + c = x
    BY <2>1, <2>3, <2>4
  <2> QED BY <1>2, <2>5, <2>6, <2>7, <2>8
<1> QED BY <1>4, <1>5

(* A text without a point or a slash has its separator behind its end, and
   one of two such texts around a slash has it between them. *)
LEMMA SeparatorOfWhole ==
  ASSUME NEW w \in Seq(0 .. 9)
  PROVE  Separator(w) = Len(w) + 1 /\ SubSeq(w, 1, Len(w)) = w
<1>1. PICK n \in Nat : n = Len(w)
  OBVIOUS
<1>2. DOMAIN w = 1 .. n /\ \A j \in 1 .. n : w[j] \notin {Point, Slash}
  BY <1>1 DEF Point, Slash
<1>3. Separator(w) = n + 1
  BY <1>1, <1>2, SeparatorIsFirst
<1> QED BY <1>1, <1>3

IsJoined(s, w, z, v) ==
  w \in Seq(Int) /\ v \in Seq(Int) /\ z \in Int /\ s = w \o (<<z>> \o v)

LEMMA Pieces ==
  ASSUME NEW s, NEW w, NEW z, NEW v, IsJoined(s, w, z, v)
  PROVE  /\ s \in Seq(Int) /\ DOMAIN s = 1 .. Len(w) + 1 + Len(v)
         /\ Len(s) = Len(w) + 1 + Len(v)
         /\ s[Len(w) + 1] = z /\ \A j \in 1 .. Len(w) : s[j] = w[j]
         /\ SubSeq(s, 1, Len(w)) = w
         /\ SubSeq(s, Len(w) + 2, Len(w) + 1 + Len(v)) = v
<1>a. w \in Seq(Int) /\ v \in Seq(Int) /\ z \in Int
  BY DEF IsJoined
<1>b. PICK n \in Nat, m \in Nat : n = Len(w) /\ m = Len(v)
  BY <1>a
<1>0. <<z>> \in Seq(Int) /\ Len(<<z>>) = 1 /\ <<z>>[1] = z
  BY <1>a
<1>1. PICK e : e = <<z>> /\ e \in Seq(Int) /\ Len(e) = 1 /\ e[1] = z
  BY <1>0
<1>2. PICK u : u = e \o v
  OBVIOUS
<1>3. /\ u \in Seq(Int) /\ Len(u) = 1 + m
      /\ \A i \in 1 .. 1 + m : u[i] = IF i <= 1 THEN e[i] ELSE v[i - 1]
  <2>1. /\ e \o v \in Seq(Int) /\ Len(e \o v) = Len(e) + Len(v)
        /\ \A i \in 1 .. Len(e) + Len(v) :
             (e \o v)[i] = IF i <= Len(e) THEN e[i] ELSE v[i - Len(e)]
    BY <1>a, <1>1, ConcatProperties
  <2> QED BY <1>1, <1>2, <1>b, <2>1
<1>4. /\ s \in Seq(Int) /\ Len(s) = n + (1 + m)
      /\ \A i \in 1 .. n + (1 + m) : s[i] = IF i <= n THEN w[i] ELSE u[i - n]
  <2>1. s = w \o u
    BY <1>1, <1>2 DEF IsJoined
  <2>2. /\ w \o u \in Seq(Int) /\ Len(w \o u) = Len(w) + Len(u)
        /\ \A i \in 1 .. Len(w) + Len(u) :
             (w \o u)[i] = IF i <= Len(w) THEN w[i] ELSE u[i - Len(w)]
    BY <1>a, <1>3, ConcatProperties
  <2> QED BY <1>3, <1>b, <2>1, <2>2
<1>5. ASSUME NEW j \in 1 .. n  PROVE s[j] = w[j]
  <2>1. j \in 1 .. n + (1 + m) /\ j <= n
    BY <1>5
  <2> QED BY <1>4, <2>1
<1>6. s[n + 1] = z
  <2>1. PICK k : k = n + 1
    OBVIOUS
  <2>2. k \in 1 .. n + (1 + m) /\ ~(k <= n) /\ k - n = 1 /\ 1 \in 1 .. 1 + m
    BY <2>1
  <2>3. s[k] = u[1] /\ u[1] = e[1]
    BY <1>3, <1>4, <2>2
  <2> QED BY <1>1, <2>1, <2>3
<1>7. ASSUME NEW j \in 1 .. m  PROVE s[(n + 2) + j - 1] = v[j]
  <2>1. PICK i, k : i = (n + 2) + j - 1 /\ k = i - n
    OBVIOUS
  <2>3. j \in Nat /\ j >= 1 /\ j <= m
    BY <1>7
  <2>4. i = n + 1 + j /\ k = 1 + j
    BY <2>1, <2>3
  <2>5. /\ i \in 1 .. n + (1 + m) /\ ~(i <= n)
        /\ k \in 1 .. 1 + m /\ ~(k <= 1) /\ k - 1 = j
    BY <2>3, <2>4
  <2>2. s[i] = u[k] /\ u[k] = v[k - 1]
    BY <1>3, <1>4, <2>1, <2>5
  <2> QED BY <2>1, <2>2, <2>5
<1>8. \A i \in 1 .. n + 1 + m : s[i] \in Int
  BY <1>4
<1>9. SubSeq(s, 1, n) = w
  <2>1. \A i \in 1 .. n : s[i] \in Int
    BY <1>8
  <2>2. PICK t : t = SubSeq(s, 1, n)
    OBVIOUS
  <2>3. /\ t \in Seq(Int) /\ Len(t) = IF 1 <= n THEN n - 1 + 1 ELSE 0
        /\ \A i \in 1 .. n - 1 + 1 : t[i] = s[1 + i - 1]
    BY <2>1, <2>2, SubSeqProperties
  <2>4. Len(t) = n
    BY <2>3
  <2>5. ASSUME NEW j \in 1 .. n  PROVE t[j] = w[j]
    <3>1. j \in 1 .. n - 1 + 1 /\ 1 + j - 1 = j
      BY <2>5
    <3> QED BY <1>5, <2>3, <2>5, <3>1
  <2> QED BY <1>a, <1>b, <2>2, <2>3, <2>4, <2>5, SeqEqual
<1>10. SubSeq(s, n + 2, n + 1 + m) = v
  <2>1. \A i \in n + 2 .. n + 1 + m : s[i] \in Int
    BY <1>8
  <2>2. PICK t, k, l : t = SubSeq(s, k, l) /\ k = n + 2 /\ l = n + 1 + m
    OBVIOUS
  <2>3. /\ t \in Seq(Int) /\ Len(t) = IF k <= l THEN l - k + 1 ELSE 0
        /\ \A i \in 1 .. l - k + 1 : t[i] = s[k + i - 1]
    BY <2>1, <2>2, SubSeqProperties
  <2>4. Len(t) = m /\ l - k + 1 = m
    BY <2>2, <2>3
  <2>5. ASSUME NEW j \in 1 .. m  PROVE t[j] = v[j]
    <3>1. t[j] = s[k + j - 1]
      BY <2>3, <2>4, <2>5
    <3> QED BY <1>7, <2>2, <2>5, <3>1
  <2> QED BY <1>a, <1>b, <2>2, <2>3, <2>4, <2>5, SeqEqual
<1>11. Len(s) = n + 1 + m /\ DOMAIN s = 1 .. n + 1 + m
  BY <1>4
<1> QED BY <1>b, <1>4, <1>5, <1>6, <1>9, <1>10, <1>11

LEMMA DigitsAreIntegers ==
  ASSUME NEW w \in Seq(0 .. 9)
  PROVE  w \in Seq(Int)
<1>1. PICK n \in Nat : n = Len(w) /\ DOMAIN w = 1 .. n
  OBVIOUS
<1>2. ASSUME NEW j \in 1 .. n  PROVE w[j] \in Int
  <2>1. w[j] \in 0 .. 9
    BY <1>1, <1>2, ElementOfSeq
  <2> QED BY <2>1
<1>3. w = [j \in 1 .. n |-> w[j]]
  BY <1>1
<1>4. [j \in 1 .. n |-> w[j]] \in Seq(Int)
  BY <1>2
<1> QED BY <1>3, <1>4

IsQuotient(s, w, v) ==
  w \in Seq(0 .. 9) /\ v \in Seq(0 .. 9) /\ s = w \o (<<Slash>> \o v)

LEMMA SeparatorOfQuotient ==
  ASSUME NEW s, NEW w, NEW v, IsQuotient(s, w, v)
  PROVE  /\ Separator(s) = Len(w) + 1 /\ Len(s) = Len(w) + 1 + Len(v)
         /\ s[Len(w) + 1] = Slash
         /\ SubSeq(s, 1, Len(w)) = w
         /\ SubSeq(s, Len(w) + 2, Len(w) + 1 + Len(v)) = v
<1>a. w \in Seq(0 .. 9) /\ v \in Seq(0 .. 9) /\ s = w \o (<<Slash>> \o v)
  BY DEF IsQuotient
<1>b. PICK n \in Nat, m \in Nat : n = Len(w) /\ m = Len(v)
  BY <1>a
<1>1. w \in Seq(Int)
  BY <1>a, DigitsAreIntegers
<1>2. v \in Seq(Int)
  BY <1>a, DigitsAreIntegers
<1>3. Slash \in Int
  BY DEF Slash
<1>4. /\ s \in Seq(Int) /\ Len(s) = n + 1 + m /\ DOMAIN s = 1 .. n + 1 + m
      /\ s[n + 1] = Slash /\ \A j \in 1 .. n : s[j] = w[j]
      /\ SubSeq(s, 1, n) = w /\ SubSeq(s, n + 2, n + 1 + m) = v
  <2>1. IsJoined(s, w, Slash, v)
    BY <1>a, <1>1, <1>2, <1>3 DEF IsJoined
  <2>2. /\ s \in Seq(Int) /\ DOMAIN s = 1 .. Len(w) + 1 + Len(v)
        /\ Len(s) = Len(w) + 1 + Len(v)
        /\ s[Len(w) + 1] = Slash /\ \A j \in 1 .. Len(w) : s[j] = w[j]
        /\ SubSeq(s, 1, Len(w)) = w
        /\ SubSeq(s, Len(w) + 2, Len(w) + 1 + Len(v)) = v
    BY <2>1, Pieces
  <2> QED BY <1>b, <2>2
<1>5. \A j \in 1 .. n : s[j] \notin {Point, Slash}
  <2>1. ASSUME NEW j \in 1 .. n  PROVE w[j] \in 0 .. 9
    BY <1>a, <1>b, <2>1, ElementOfSeq
  <2>2. ASSUME NEW j \in 1 .. n  PROVE s[j] \notin {Point, Slash}
    <3>1. PICK c \in 0 .. 9 : c = s[j]
      BY <1>4, <2>1, <2>2
    <3> QED BY <3>1 DEF Point, Slash
  <2> QED BY <2>2
<1>6. PICK l \in Nat : l = n + 1 + m
  OBVIOUS
<1>7. /\ Separator(s) \in 1 .. l + 1
      /\ Separator(s) <= l => s[Separator(s)] \in {Point, Slash}
      /\ Separator(s) <= n + 1
  <2>1. l = Len(s) /\ DOMAIN s = 1 .. l /\ n + 1 \in 1 .. l /\ s[n + 1] \in {Point, Slash}
    BY <1>4, <1>6
  <2> QED BY <2>1, SeparatorIsFirst
<1>8. Separator(s) \notin 1 .. n
  BY <1>5, <1>6, <1>7
<1>9. Separator(s) = n + 1
  BY <1>7, <1>8
<1> QED BY <1>4, <1>9, <1>b

(* A number that is not negative is read back as it was.                   *)
THEOREM WrittenIsRead ==
  ASSUME NEW q, IsReduced(q), q.numerator >= 0
  PROVE  Parse(Write(q)) = q
<1>1. PICK n \in Nat, k \in Nat \ {0} : q.numerator = n /\ q.denominator = k
  BY FractionParts DEF IsReduced
<1>2. q = [numerator |-> n, denominator |-> k]
  <2>1. q = [numerator |-> q.numerator, denominator |-> q.denominator]
    BY DEF IsReduced, Fraction
  <2> QED BY <1>1, <2>1
<1>3. PICK w \in Seq(0 .. 9), v \in Seq(0 .. 9) :
        w = decimal[n] /\ v = decimal[k] /\ Digits(w) = n /\ Digits(v) = k
  BY DigitsOfDecimal
<1>4. Write(q) = w \o (IF k = 1 THEN <<>> ELSE <<Slash>> \o v)
  <2>1. WriteInt(n) = w /\ WriteInt(k) = v
    BY <1>3 DEF WriteInt
  <2> QED BY <1>1, <2>1 DEF Write
<1>5. CASE k = 1
  <2>1. Write(q) = w
    BY <1>4, <1>5
  <2>2. Separator(w) > Len(w) /\ (Len(w) + 1) - 1 = Len(w) /\ Len(w) \in Nat
    BY SeparatorOfWhole
  <2>3. Parse(w) = Num(Digits(w), 1)
    BY <2>2, SeparatorOfWhole DEF Parse
  <2> QED BY <1>2, <1>3, <1>5, <2>1, <2>3 DEF Num
<1>6. CASE k # 1
  <2>1. PICK s : s = w \o (<<Slash>> \o v) /\ IsQuotient(s, w, v)
    BY DEF IsQuotient
  <2>2. Write(q) = s
    BY <1>4, <1>6, <2>1
  <2>3. PICK a \in Nat, b \in Nat : a = Len(w) /\ b = Len(v)
    OBVIOUS
  <2>4. /\ Separator(s) = a + 1 /\ Len(s) = a + 1 + b /\ s[a + 1] = Slash
        /\ SubSeq(s, 1, a) = w /\ SubSeq(s, a + 2, a + 1 + b) = v
    <3>1. /\ Separator(s) = Len(w) + 1 /\ Len(s) = Len(w) + 1 + Len(v)
          /\ s[Len(w) + 1] = Slash
          /\ SubSeq(s, 1, Len(w)) = w
          /\ SubSeq(s, Len(w) + 2, Len(w) + 1 + Len(v)) = v
      BY <2>1, SeparatorOfQuotient
    <3> QED BY <2>3, <3>1
  <2>5. ~(a + 1 > Len(s)) /\ (a + 1) - 1 = a /\ (a + 1) + 1 = a + 2
    BY <2>4
  <2>6. Parse(s) = Num(n \div gcd(n, k), k \div gcd(n, k))
    BY <1>3, <2>4, <2>5 DEF Parse
  <2>7. gcd(n, k) = 1
    <3>1. IsGcd(gcd(n, k), n, k)
      BY GcdIsGcd
    <3>2. Coprime(n, k)
      BY <1>1 DEF IsReduced
    <3> QED BY <3>1, <3>2, CoprimeDivisor DEF IsGcd
  <2>8. n \div 1 = n /\ k \div 1 = k
    OBVIOUS
  <2> QED BY <1>2, <2>2, <2>6, <2>7, <2>8 DEF Num
<1> QED BY <1>5, <1>6

-----------------------------------------------------------------------------
(***************************************************************************)
(* The programs.                                                           *)
(***************************************************************************)
LEMMA OperandsAreReduced ==
  ASSUME NEW p \in Operands
  PROVE  IsReduced(p)
<1>1. PICK r \in Pairs : p = Make(r[1], r[2])
  BY DEF Operands
<1>2. r[1] \in Int /\ r[2] \in Int \ {0}
  BY CalculatorAssumption DEF CalculatorAssumption
<1> QED BY <1>1, <1>2, MakeReduces

LEMMA FitIsWithin ==
  ASSUME NEW r, IsReduced(r), NEW s, Fits(s, r)
  PROVE  Abs(s[1]) <= Abs(r.numerator) /\ Abs(s[2]) <= r.denominator
<1>1. r.numerator \in Int /\ r.denominator \in Nat
  BY DEF IsReduced, Fraction
<1>2. Abs(r.numerator) \in Nat
  BY <1>1, AbsOf
<1> QED BY <1>1, <1>2 DEF Fits

(* The number is in lowest terms, and what the last operation says of it
   holds. *)
Sound == IsReduced(number) /\ Exact /\ ProductsFit

LEMMA ReadingIsSound == CalculatorInit => Sound
<1> SUFFICES ASSUME CalculatorInit  PROVE Sound
  OBVIOUS
<1>1. PICK s \in Texts : number = Parse(s) /\ computed = [op |-> "read", text |-> s]
  BY DEF CalculatorInit
<1>2. IsReduced(Parse(s)) /\ Same(Parse(s), TextValue(s))
  BY CalculatorAssumption, ParseIsExact DEF CalculatorAssumption
<1> QED BY <1>1, <1>2 DEF Sound, Exact, ProductsFit

LEMMA StepsAreSound == Sound /\ [CalculatorNext]_calculatorVars => Sound'
<1> SUFFICES ASSUME Sound, [CalculatorNext]_calculatorVars  PROVE Sound'
  OBVIOUS
<1>1. CASE UNCHANGED calculatorVars
  BY <1>1 DEF calculatorVars, Sound, Exact, ProductsFit, Within
<1>2. CASE CalculatorNext
  <2>1. PICK p \in Operands : Plus(p) \/ MinusBy(p) \/ Times(p) \/ DividedBy(p)
    BY <1>2 DEF CalculatorNext
  <2>2. IsReduced(p)
    BY OperandsAreReduced
  <2>3. PICK q : q = number
    OBVIOUS
  <2>4. IsReduced(q) /\ q \in Fraction /\ p \in Fraction
    BY <2>2, <2>3 DEF Sound, IsReduced
  <2>5. CASE Plus(p)
    <3>1. number' = Add(q, p) /\ computed' = [op |-> "+", q |-> q, p |-> p]
      BY <2>3, <2>5 DEF Plus, Compute
    <3> QED BY <2>4, <3>1, SumsAreExact DEF Sound, Exact, ProductsFit
  <2>6. CASE MinusBy(p)
    <3>1. number' = Subtract(q, p) /\ computed' = [op |-> "-", q |-> q, p |-> p]
      BY <2>3, <2>6 DEF MinusBy, Compute
    <3> QED BY <2>4, <3>1, SumsAreExact DEF Sound, Exact, ProductsFit
  <2>7. CASE Times(p)
    <3>1. number' = Multiply(q, p) /\ computed' = [op |-> "*", q |-> q, p |-> p]
      BY <2>3, <2>7 DEF Times, Compute
    <3>2. ProductsFit'
      BY <2>2, <2>4, <3>1, ProductsAreExact, FitIsWithin DEF ProductsFit, Within
    <3>3. IsReduced(number') /\ Exact'
      BY <2>2, <2>4, <3>1, ProductsAreExact DEF Exact
    <3> QED BY <3>2, <3>3 DEF Sound
  <2>8. CASE DividedBy(p)
    <3>1. /\ number' = Divide(q, p) /\ computed' = [op |-> "/", q |-> q, p |-> p]
          /\ p.numerator # 0
      BY <2>3, <2>8 DEF DividedBy, Compute
    <3>2. ProductsFit'
      BY <2>2, <2>4, <3>1, ProductsAreExact, FitIsWithin DEF ProductsFit, Within
    <3>3. IsReduced(number') /\ Exact'
      BY <2>2, <2>4, <3>1, ProductsAreExact DEF Exact
    <3> QED BY <3>2, <3>3 DEF Sound
  <2> QED BY <2>1, <2>5, <2>6, <2>7, <2>8
<1> QED BY <1>1, <1>2

LEMMA SoundIsArithmetic == Sound => Arithmetic
<1> SUFFICES ASSUME Sound  PROVE Arithmetic
  OBVIOUS
<1>1. IsReduced(number) /\ Exact /\ ProductsFit
  BY DEF Sound
<1>2. LowestTerms
  BY <1>1, ReducedIsLowest DEF LowestTerms
<1>3. Ordered
  <2>1. ASSUME NEW p \in Operands  PROVE number \in Fraction /\ p \in Fraction
    BY <1>1, OperandsAreReduced DEF IsReduced
  <2> QED BY <2>1, ComparisonsAreExact DEF Ordered
<1>4. PositiveValueArrives
  BY <1>1, WrittenIsRead DEF PositiveValueArrives, ValueArrives
<1> QED BY <1>1, <1>2, <1>3, <1>4 DEF Arithmetic

(* Whatever texts are read and whatever operands follow, the arithmetic is
   that of the rational numbers (Rational::Rational, operator+ to operator/
   and the comparisons of rational.cc). *)
THEOREM ArithmeticIsExact == CalculatorSpec => []Arithmetic
<1>1. CalculatorSpec => []Sound
  BY ReadingIsSound, StepsAreSound, PTL DEF CalculatorSpec
<1> QED BY <1>1, SoundIsArithmetic, PTL
=============================================================================
