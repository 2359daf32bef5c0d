----------------------------- MODULE Calculator -----------------------------
(***************************************************************************)
(* What happens to a number in the programs: it is read from a text and    *)
(* changed by one update after the other, whose operands are made from     *)
(* pairs of integers.                                                      *)
(***************************************************************************)
EXTENDS Rational

CONSTANTS
  Texts,                          (* texts of numbers                       *)
  Pairs,                          (* operands, as pairs of integers         *)
  MaxNumerator, MaxDenominator    (* bounds: numbers that are changed       *)

VARIABLES
  number,
  computed                        (* history: the last operation            *)

calculatorVars == <<number, computed>>

(* The texts that the scanner takes for numbers, and those that the
   programs write; the constructor throws for a denominator of zero. *)
IsNumeral(s) ==
  LET i == Separator(s) IN
  /\ s \in Seq(0 .. 9 \cup {Point, Slash})
  /\ \A j \in i + 1 .. Len(s) : s[j] \in 0 .. 9
  /\ i <= Len(s) /\ s[i] = Slash => Digits(SubSeq(s, i + 1, Len(s))) # 0

ASSUME CalculatorAssumption ==
  /\ \A s \in Texts : IsNumeral(s)
  /\ Pairs \subseteq Int \X (Int \ {0})
  /\ MaxNumerator \in Int /\ MaxDenominator \in Int

Operands == {Make(p[1], p[2]) : p \in Pairs}

CalculatorInit ==
  \E s \in Texts : number = Parse(s) /\ computed = [op |-> "read", text |-> s]

Compute(op, result(_, _), p) ==
  /\ Abs(number.numerator) <= MaxNumerator /\ number.denominator <= MaxDenominator
  /\ number' = result(number, p)
  /\ computed' = [op |-> op, q |-> number, p |-> p]

Plus(p) == Compute("+", Add, p)
MinusBy(p) == Compute("-", Subtract, p)
Times(p) == Compute("*", Multiply, p)
DividedBy(p) == p.numerator # 0 /\ Compute("/", Divide, p)

CalculatorNext ==
  \E p \in Operands : Plus(p) \/ MinusBy(p) \/ Times(p) \/ DividedBy(p)

CalculatorSpec == CalculatorInit /\ [][CalculatorNext]_calculatorVars

-----------------------------------------------------------------------------
(* The textbook, on pairs that stand for the fraction v[1] / v[2].         *)
Same(q, v) == q.numerator * v[2] = v[1] * q.denominator

(* What a text stands for: the positional value of all of its digits over
   that of a one with as many zeros as there are digits after the point. *)
TextValue(s) ==
  LET i == Separator(s)
      before == SubSeq(s, 1, i - 1)
      after == SubSeq(s, i + 1, Len(s))
  IN  IF i <= Len(s) /\ s[i] = Slash THEN <<Digits(before), Digits(after)>>
      ELSE <<Digits(before \o after), Scale(after)>>

(* Every number is in lowest terms with a positive denominator, which the
   comparisons and the reduction of a product rely on. *)
InLowestTerms(q) ==
  /\ q \in [numerator : Int, denominator : Nat \ {0}]
  /\ \A d \in 2 .. q.denominator :
       ~(q.denominator % d = 0 /\ q.numerator % d = 0)
LowestTerms == InLowestTerms(number)

(* The operators compute what the textbook says, however the number was
   reached: from decimals, over negative divisors and through zero. *)
Exact ==
  IF computed.op = "read" THEN Same(number, TextValue(computed.text))
  ELSE LET n == computed.q.numerator
           k == computed.q.denominator
           m == computed.p.numerator
           l == computed.p.denominator
       IN  CASE computed.op = "+" -> Same(number, <<n * l + m * k, k * l>>)
             [] computed.op = "-" -> Same(number, <<n * l - m * k, k * l>>)
             [] computed.op = "*" -> Same(number, <<n * m, k * l>>)
             [] computed.op = "/" -> Same(number, <<n * l, k * m>>)

(* The comparisons order the number against any other one as the fractions
   are ordered. *)
Ordered ==
  \A p \in Operands :
    LET l == number.numerator * p.denominator
        r == p.numerator * number.denominator
    IN  /\ Less(number, p) <=> l < r
        /\ LessOrEqual(number, p) <=> l <= r
        /\ Equal(number, p) <=> l = r

(* No product overflows unless its result does: what the code multiplies is
   never greater than the parts of the reduced result. *)
Within(parts) ==
  Abs(parts[1]) <= Abs(number.numerator) /\ Abs(parts[2]) <= number.denominator
ProductsFit ==
  /\ computed.op = "*" => Within(MultiplySteps(computed.q, computed.p))
  /\ computed.op = "/" => Within(DivideSteps(computed.q, computed.p))

(* A fluent value the server writes is the value the client reads
   (README:185: "<value> -fluent value- </value>"). *)
ValueArrives == Parse(Write(number)) = number

(* The same for the values that are not negative.                          *)
PositiveValueArrives == number.numerator >= 0 => ValueArrives

(* Arithmetic is that of the rational numbers over any chain of operations:
   every result is the right one, in lowest terms, ordered as it should be,
   reached without a needless overflow (but for sums: rational.cc:155
   multiplies before it reduces), and not changed by going through its text
   unless it is negative. *)
Arithmetic == LowestTerms /\ Exact /\ Ordered /\ ProductsFit /\ PositiveValueArrives
=============================================================================
