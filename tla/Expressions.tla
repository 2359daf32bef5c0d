---------------------------- MODULE Expressions ----------------------------
(***************************************************************************)
(* Numeric expressions over terms (expressions.cc): how they are built,    *)
(* folded when their operands are values, evaluated in a state, and        *)
(* instantiated when an action schema is grounded.                         *)
(*                                                                         *)
(* A term is an object or a variable; a substitution is a function from    *)
(* variables to objects.  An exception is the value Throws, which every    *)
(* operator hands on as the code does by not catching it.                  *)
(***************************************************************************)
EXTENDS Rational

CONSTANTS
  Objects,            (* the objects of a problem                           *)
  Variables,          (* the variables of schemata and quantifiers          *)
  StaticFunctions     (* functions no action changes                        *)

ASSUME ExpressionsAssumption == Objects \cap Variables = {}

Throws == [kind |-> "throws"]
Then(v, F(_)) == IF v = Throws THEN Throws ELSE F(v)
Value(q) == [kind |-> "value", value |-> q]
Fluent(function, terms) ==
  [kind |-> "fluent", function |-> function, terms |-> terms]
Computation(op, e1, e2) == [kind |-> op, operand1 |-> e1, operand2 |-> e2]

IsValue(e) == e.kind = "value"

(* Terms under a substitution, and what the loops over them count.         *)
Replace(terms, subst) ==
  [i \in DOMAIN terms |->
     IF terms[i] \in DOMAIN subst THEN subst[terms[i]] ELSE terms[i]]
Substituted(terms, subst) == \E i \in DOMAIN terms : terms[i] \in DOMAIN subst
AllObjects(terms) == \A i \in DOMAIN terms : terms[i] \in Objects

(* The operation of a computation on two values; a division by zero throws.*)
Calculate(op, q, p) ==
  CASE op = "+" -> Value(Add(q, p))
    [] op = "-" -> Value(Subtract(q, p))
    [] op = "*" -> Value(Multiply(q, p))
    [] op = "/" -> IF p.numerator = 0 THEN Throws ELSE Value(Divide(q, p))

(* Addition::make and the others: two values are folded.                   *)
MakeComputation(op, e1, e2) ==
  CASE Throws \in {e1, e2} -> Throws
    [] IsValue(e1) /\ IsValue(e2) -> Calculate(op, e1.value, e2.value)
    [] OTHER -> Computation(op, e1, e2)

FluentValue(f, values) == IF f \in DOMAIN values THEN Value(values[f]) ELSE Throws

Computed(op, v1, v2) ==
  IF Throws \in {v1, v2} THEN Throws ELSE Calculate(op, v1.value, v2.value)

(* The value of an expression in a state.                                  *)
RECURSIVE ValueOf(_, _)
ValueOf(e, values) ==
  CASE IsValue(e) -> e
    [] e.kind = "fluent" -> FluentValue(e, values)
    [] OTHER -> Computed(e.kind, ValueOf(e.operand1, values),
                                 ValueOf(e.operand2, values))

(* A static fluent becomes its value as soon as no variable is left in it. *)
InstFluent(f, subst, values) ==
  LET inst == Fluent(f.function, Replace(f.terms, subst))
  IN  IF /\ f.function \in StaticFunctions
         /\ f.terms = <<>> \/ Substituted(f.terms, subst)
         /\ AllObjects(inst.terms)
        THEN FluentValue(inst, values)
        ELSE inst

(* The code keeps an expression whose operands did not change; made again
   it is the same. *)
RECURSIVE InstExpression(_, _, _)
InstExpression(e, subst, values) ==
  CASE IsValue(e) -> e
    [] e.kind = "fluent" -> InstFluent(e, subst, values)
    [] OTHER -> MakeComputation(e.kind, InstExpression(e.operand1, subst, values),
                                        InstExpression(e.operand2, subst, values))
=============================================================================
