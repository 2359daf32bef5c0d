------------------------------ MODULE Formulas ------------------------------
(***************************************************************************)
(* State formulas (formulas.cc): conditions of actions and effects, and    *)
(* goals.  How they are simplified when they are built, tested in a state, *)
(* and instantiated: with the arguments of an action (the static part is   *)
(* resolved), or with a whole state (all that can be is resolved).         *)
(*                                                                         *)
(* Ground atoms are interned, so identity of constants and ground atoms is *)
(* equality; all other formulas are distinct objects.  A state is a record *)
(* of its true atoms and its fluent values.                                *)
(***************************************************************************)
EXTENDS Expressions, SequencesExt, TLC

CONSTANTS
  StaticPredicates,   (* predicates no action changes                       *)
  Compatible          (* the list of objects each variable ranges over      *)

True == [kind |-> "constant", value |-> TRUE]
False == [kind |-> "constant", value |-> FALSE]
Atom(predicate, terms) ==
  [kind |-> "atom", predicate |-> predicate, terms |-> terms]
Equality(t1, t2) == [kind |-> "=", term1 |-> t1, term2 |-> t2]
Comparison(op, e1, e2) ==
  [kind |-> "compare", op |-> op, expr1 |-> e1, expr2 |-> e2]
Not(f) == [kind |-> "not", negand |-> f]
Conjunction(fs) == [kind |-> "and", parts |-> fs]
Disjunction(fs) == [kind |-> "or", parts |-> fs]
Quantified(kind, params, f) ==
  [kind |-> kind, parameters |-> params, body |-> f]

Tautology(f) == f = True
Contradiction(f) == f = False
SameObject(f, g) ==
  /\ f = g
  /\ f.kind = "constant" \/ (f.kind = "atom" /\ AllObjects(f.terms))

Parts(kind, f) == IF f.kind = kind THEN f.parts ELSE <<f>>

(* operator&& and operator||.                                              *)
And(f, g) ==
  CASE Throws \in {f, g} -> Throws
    [] SameObject(f, g) -> f
    [] Contradiction(f) \/ Contradiction(g) -> False
    [] Tautology(f) -> g
    [] Tautology(g) -> f
    [] OTHER -> Conjunction(Parts("and", f) \o Parts("and", g))

Or(f, g) ==
  CASE Throws \in {f, g} -> Throws
    [] SameObject(f, g) -> f
    [] Tautology(f) \/ Tautology(g) -> True
    [] Contradiction(f) -> g
    [] Contradiction(g) -> f
    [] OTHER -> Disjunction(Parts("or", f) \o Parts("or", g))

MakeNegation(f) ==
  CASE f = Throws -> Throws
    [] Tautology(f) -> False
    [] Contradiction(f) -> True
    [] OTHER -> Not(f)

MakeEquality(t1, t2) ==
  CASE t1 = t2 -> True
    [] t1 \in Objects /\ t2 \in Objects -> False
    [] OTHER -> Equality(t1, t2)

Compare(op, q, p) ==
  CASE op = "<" -> Less(q, p)
    [] op = "<=" -> LessOrEqual(q, p)
    [] op = "=" -> Equal(q, p)
    [] op = ">=" -> LessOrEqual(p, q)
    [] op = ">" -> Less(p, q)

Constant(b) == IF b THEN True ELSE False

MakeComparison(op, e1, e2) ==
  CASE Throws \in {e1, e2} -> Throws
    [] IsValue(e1) /\ IsValue(e2) -> Constant(Compare(op, e1.value, e2.value))
    [] OTHER -> Comparison(op, e1, e2)

MakeQuantified(kind, params, f) ==
  IF params = <<>> \/ Tautology(f) \/ Contradiction(f) THEN f
  ELSE Quantified(kind, params, f)

-----------------------------------------------------------------------------
(* The atom is looked up whether or not an action can change it.           *)
InstAtomEagerly(f, subst, s, state) ==
  LET inst == Atom(f.predicate, Replace(f.terms, subst))
  IN  IF AllObjects(inst.terms) THEN Constant(inst \in s.atoms) ELSE inst

(* Atom::instantiation.  An atom over objects alone is left as it is, even
   when the whole state is given. *)
InstAtom(f, subst, s, state) ==
  LET inst == Atom(f.predicate, Replace(f.terms, subst))
  IN  IF /\ state \/ f.predicate \in StaticPredicates
         /\ f.terms = <<>> \/ Substituted(f.terms, subst)
         /\ AllObjects(inst.terms)
        THEN Constant(inst \in s.atoms)
        ELSE inst

(* The code keeps a formula whose parts did not change; made again it is
   the same. *)
InstEquality(f, subst) ==
  LET t == Replace(<<f.term1, f.term2>>, subst) IN MakeEquality(t[1], t[2])

InstComparison(f, subst, s) ==
  MakeComparison(f.op, InstExpression(f.expr1, subst, s.values),
                       InstExpression(f.expr2, subst, s.values))

EmptyQuantifier(kind) == IF kind = "exists" THEN False ELSE True

RECURSIVE Instantiation(_, _, _, _), Expand(_, _, _, _, _, _)

(* The instances of a quantified body for all tuples of objects, in order,
   until the result is settled. *)
Expand(kind, f, params, acc, s, state) ==
  IF params = <<>>
    THEN IF kind = "exists" THEN Or(acc, f) ELSE And(acc, f)
    ELSE FoldLeft(
           LAMBDA a, o :
             IF a = Throws \/ (IF kind = "exists" THEN Tautology(a)
                                                  ELSE Contradiction(a))
               THEN a
               ELSE Expand(kind, Instantiation(f, Head(params) :> o, s, state),
                           Tail(params), a, s, state),
           acc, Compatible[Head(params)])

Instantiation(f, subst, s, state) ==
  CASE f.kind \in {"constant", "throws"} -> f
    [] f.kind = "atom" -> InstAtom(f, subst, s, state)
    [] f.kind = "=" -> InstEquality(f, subst)
    [] f.kind = "compare" -> InstComparison(f, subst, s)
    [] f.kind = "not" -> MakeNegation(Instantiation(f.negand, subst, s, state))
    [] f.kind = "and" ->
         FoldLeft(LAMBDA a, g : IF Contradiction(a) THEN a
                                ELSE And(a, Instantiation(g, subst, s, state)),
                  True, f.parts)
    [] f.kind = "or" ->
         FoldLeft(LAMBDA a, g : IF Tautology(a) THEN a
                                ELSE Or(a, Instantiation(g, subst, s, state)),
                  False, f.parts)
    [] OTHER ->
         IF \E i \in DOMAIN f.parameters : Compatible[f.parameters[i]] = <<>>
           THEN EmptyQuantifier(f.kind)
           ELSE Expand(f.kind, Instantiation(f.body, subst, s, state),
                       f.parameters, EmptyQuantifier(f.kind), s, state)

(* What a test yields: true, false, or an exception.                       *)
Answer(b) == IF b THEN "true" ELSE "false"

(* A quantified formula has to be reduced to TRUE.                         *)
Verdict(g) == IF g = Throws THEN "throws" ELSE Answer(Tautology(g))

Opposite(answer) ==
  IF answer = "throws" THEN "throws" ELSE Answer(answer = "false")

Outcome(op, v1, v2) ==
  IF Throws \in {v1, v2} THEN "throws" ELSE Answer(Compare(op, v1.value, v2.value))

NoSubstitution == [v \in {} |-> v]

(* StateFormula::holds.                                                    *)
RECURSIVE Holds(_, _)
Holds(f, s) ==
  CASE f.kind = "constant" -> Answer(f.value)
    [] f.kind = "throws" -> "throws"
    [] f.kind = "atom" -> Answer(f \in s.atoms)
    [] f.kind = "=" -> "throws"
    [] f.kind = "compare" ->
         Outcome(f.op, ValueOf(f.expr1, s.values), ValueOf(f.expr2, s.values))
    [] f.kind = "not" -> Opposite(Holds(f.negand, s))
    [] f.kind = "and" ->
         FoldLeft(LAMBDA a, g : IF a = "true" THEN Holds(g, s) ELSE a,
                  "true", f.parts)
    [] f.kind = "or" ->
         FoldLeft(LAMBDA a, g : IF a = "false" THEN Holds(g, s) ELSE a,
                  "false", f.parts)
    [] OTHER ->
         Verdict(Instantiation(f, NoSubstitution, s, TRUE))
=============================================================================
