------------------------------ MODULE Rational ------------------------------
(***************************************************************************)
(* Exact arithmetic: Rational (rational.cc), the type of probabilities,    *)
(* fluent values and rewards.  A number is a pair of machine integers in   *)
(* lowest terms.  The operators below compute with unbounded integers; the *)
(* *Steps operators list the intermediate results the code holds in an     *)
(* int, for the properties about overflow.  All divisions are exact.       *)
(*                                                                         *)
(* A text is a sequence of character codes less that of the digit zero, so *)
(* that a digit is its value, as the parsing code has it.                  *)
(***************************************************************************)
EXTENDS Integers, Sequences

Abs(x) == IF x < 0 THEN -x ELSE x

euclid[p \in Nat \X Nat] ==
  IF p[2] = 0 THEN p[1] ELSE euclid[<<p[2], p[1] % p[2]>>]
gcd(x, y) == euclid[<<Abs(x), Abs(y)>>]
lcm(x, y) == (x \div gcd(x, y)) * y

Factors(m, x, y) == <<m \div x, m \div y>>
multipliers(x, y) == Factors(lcm(x, y), x, y)

Num(x, y) == [numerator |-> x, denominator |-> y]

(* The constructor from two integers, for a denominator that is not zero.  *)
Reduced(x, y, d) == Num(x \div d, y \div d)
Signed(x, y, d) == IF y < 0 THEN Reduced(-x, -y, d) ELSE Reduced(x, y, d)
Make(x, y) == Signed(x, y, gcd(x, y))

(* Both numerators over a common denominator, and the denominator.         *)
Scaled(q, p) ==
  LET by(f) == <<q.numerator * f[1], p.numerator * f[2], q.denominator * f[1]>>
  IN  by(multipliers(q.denominator, p.denominator))
Over(s, F(_, _, _)) == F(s[1], s[2], s[3])

Less(q, p) == Over(Scaled(q, p), LAMBDA a, b, d : a < b)
LessOrEqual(q, p) == Over(Scaled(q, p), LAMBDA a, b, d : a <= b)
Equal(q, p) == Over(Scaled(q, p), LAMBDA a, b, d : a = b)

Add(q, p) == Over(Scaled(q, p), LAMBDA a, b, d : Make(a + b, d))
Subtract(q, p) == Over(Scaled(q, p), LAMBDA a, b, d : Make(a - b, d))

(* The factors are reduced against each other before they are multiplied.  *)
MultiplySteps(q, p) ==
  LET d1 == gcd(q.numerator, p.denominator)
      d2 == gcd(p.numerator, q.denominator)
  IN  <<(q.numerator \div d1) * (p.numerator \div d2),
        (q.denominator \div d2) * (p.denominator \div d1)>>
Quotient(s) == Make(s[1], s[2])
Multiply(q, p) == Quotient(MultiplySteps(q, p))

(* For a divisor that is not zero; the code throws otherwise.              *)
DivideSteps(q, p) ==
  LET d1 == gcd(q.numerator, p.numerator)
      d2 == gcd(p.denominator, q.denominator)
  IN  <<(q.numerator \div d1) * (p.denominator \div d2),
        (q.denominator \div d2) * (p.numerator \div d1)>>
Divide(q, p) == Quotient(DivideSteps(q, p))

(* Texts.                                                                  *)
Minus == -3
Point == -2
Slash == -1

(* The loops over the digits, which look at no character but their end: what
   they stand for, and the power of ten that they are divided by. *)
Digits(s) ==
  LET value[k \in 0 .. Len(s)] == IF k = 0 THEN 0 ELSE 10 * value[k - 1] + s[k]
  IN  value[Len(s)]
Scale(s) ==
  LET value[k \in 0 .. Len(s)] == IF k = 0 THEN 1 ELSE 10 * value[k - 1]
  IN  value[Len(s)]

(* The first point or slash of a text, or the position after its end.      *)
Separator(s) ==
  LET P == {i \in DOMAIN s : s[i] \in {Point, Slash}}
  IN  CHOOSE i \in P \cup {Len(s) + 1} : \A j \in P : i <= j

ParseDecimalTruncated(whole, fraction) == Num(Digits(whole), 1)

(* The fraction is reduced before the whole part is added.                 *)
ParseDecimal(whole, fraction) ==
  LET f == Make(Digits(fraction), Scale(fraction))
  IN  Num(f.numerator + Digits(whole) * f.denominator, f.denominator)

Parse(s) ==
  LET i == Separator(s)
      head == SubSeq(s, 1, i - 1)
      tail == SubSeq(s, i + 1, Len(s))
  IN  IF i > Len(s) THEN Num(Digits(head), 1)
      ELSE IF s[i] = Slash
      THEN LET d == gcd(Digits(head), Digits(tail))
           IN  Num(Digits(head) \div d, Digits(tail) \div d)
      ELSE ParseDecimal(head, tail)

(* How the library writes an integer.                                      *)
decimal[x \in Nat] ==
  IF x < 10 THEN <<x>> ELSE Append(decimal[x \div 10], x % 10)
WriteInt(x) == IF x < 0 THEN <<Minus>> \o decimal[-x] ELSE decimal[x]

WriteTruncated(q) == WriteInt(q.numerator \div q.denominator)

Write(q) ==
  WriteInt(q.numerator) \o
  (IF q.denominator = 1 THEN <<>> ELSE <<Slash>> \o WriteInt(q.denominator))
=============================================================================
