----------------------------- MODULE MCLanguage -----------------------------
(***************************************************************************)
(* What the parser builds, bottom up, and what becomes of it: a number     *)
(* that is read and changed by updates, a formula, or an effect.  An       *)
(* effect is built beside what was written, whose distribution over        *)
(* successor states is computed without any of the rewriting.  A           *)
(* quantifier binds variables of its own, which do not occur again outside *)
(* it.                                                                     *)
(***************************************************************************)
EXTENDS Effects, Calculator

CONSTANTS
  o1, o2,                           (* objects                                *)
  x, y, z,                        (* variables; there is no object for z    *)
  MaxSteps,                       (* bound: operators in what is built      *)
  Kinds                           (* what is built                          *)

VARIABLES
  what,           (* "number", "formula" or "effect"                        *)
  built,          (* it                                                     *)
  written,        (* history: how it was written                            *)
  bound,          (* variables that a quantifier has bound                  *)
  steps

vars == <<calculatorVars, what, built, written, bound, steps>>

MCObjects == {o1, o2}
MCVariables == {x, y, z}
MCStaticPredicates == {"s"}
MCStaticFunctions == {"g"}
MCCompatible == x :> <<o1, o2>> @@ y :> <<o2, o1>> @@ z :> <<>>

Half == Make(1, 2)
Third == Make(1, 3)
H == Fluent("h", <<>>)
G(v) == Fluent("g", <<v>>)

NumberTexts == {<<0>>, <<7>>, <<1, 2>>, <<0, Point, 5>>, <<1, Point, 2, 5>>,
                <<Point, 7, 5>>, <<2, Point, 0, 0>>, <<1, Point, 0, 4>>,
                <<1, 2, Slash, 8>>, <<0, Slash, 5>>}
NumberPairs == ((-3 .. 4) \X {1, 2, 3}) \cup {<<5, -6>>, <<-9, -4>>}
AllKinds == {"number", "formula", "effect"}
OnlyNumbers == {"number"}
OnlyFormulas == {"formula"}

Build(v, w) ==
  steps < MaxSteps /\ steps' = steps + 1 /\ built' = v /\ written' = w

-----------------------------------------------------------------------------
(* A number.                                                               *)
NumberInit == what = "number" /\ CalculatorInit /\ built = <<>> /\ written = <<>>
NumberNext ==
  what = "number" /\ CalculatorNext /\ UNCHANGED <<built, written, bound, steps>>
NoNumber == number = Zero /\ computed = [op |-> "read", text |-> <<0>>]

-----------------------------------------------------------------------------
(* A formula.                                                              *)
FormulaLeaves == {
  Atom("s", <<x>>), Atom("p", <<x>>), Atom("p", <<o1>>), Atom("q", <<>>),
  Atom("p", <<y>>), Atom("s", <<o2>>), Atom("p", <<z>>),
  MakeEquality(x, y), MakeEquality(x, o1),
  MakeComparison("<", G(x), Value(Unit)),
  MakeComparison(">=", H, MakeComputation("+", G(y), Value(Unit))),
  MakeComparison("<=", MakeComputation("/", H, G(x)), Value(Unit))}

TermVars(terms) == {terms[i] : i \in DOMAIN terms} \cap Variables
RECURSIVE ExpressionVars(_), FreeVars(_)
ExpressionVars(e) ==
  CASE e.kind = "fluent" -> TermVars(e.terms)
    [] e.kind \in {"value", "throws"} -> {}
    [] OTHER -> ExpressionVars(e.operand1) \cup ExpressionVars(e.operand2)
FreeVars(g) ==
  CASE g.kind \in {"constant", "throws"} -> {}
    [] g.kind = "atom" -> TermVars(g.terms)
    [] g.kind = "=" -> TermVars(<<g.term1, g.term2>>)
    [] g.kind = "compare" -> ExpressionVars(g.expr1) \cup ExpressionVars(g.expr2)
    [] g.kind = "not" -> FreeVars(g.negand)
    [] g.kind \in {"and", "or"} -> UNION {FreeVars(g.parts[i]) : i \in DOMAIN g.parts}
    [] OTHER -> FreeVars(g.body) \ {g.parameters[i] : i \in DOMAIN g.parameters}

FormulaInit == what = "formula" /\ built \in FormulaLeaves /\ written = <<>>

BuildFormula(g) == Build(g, <<>>)
FreshFormulas == {g \in FormulaLeaves : FreeVars(g) \cap bound = {}}

Negate == BuildFormula(MakeNegation(built)) /\ UNCHANGED bound
Conjoin ==
  /\ \E g \in FreshFormulas : BuildFormula(And(built, g)) \/ BuildFormula(And(g, built))
  /\ UNCHANGED bound
Disjoin == \E g \in FreshFormulas : BuildFormula(Or(built, g)) /\ UNCHANGED bound
Imply ==
  \E g \in FreshFormulas : BuildFormula(Or(MakeNegation(built), g)) /\ UNCHANGED bound
Bind ==
  \E kind \in {"exists", "forall"}, ps \in {<<x>>, <<y>>, <<x, y>>, <<z>>, <<x, z>>} :
    /\ TermVars(ps) \cap bound = {}
    /\ BuildFormula(MakeQuantified(kind, ps, built))
    /\ bound' = bound \cup TermVars(ps)

FormulaNext ==
  what = "formula" /\ (Negate \/ Conjoin \/ Disjoin \/ Imply \/ Bind)

-----------------------------------------------------------------------------
(* An effect.                                                              *)
EffectLeaves == {
  AddEffect(Atom("p", <<x>>)), DeleteEffect(Atom("p", <<y>>)),
  MakeUpdate("increase", H, G(x)), MakeUpdate("decrease", H, Value(Zero))}
Conditions == {Atom("s", <<x>>), Atom("p", <<y>>), MakeNegation(Atom("p", <<o1>>))}
ConditionVars(f) ==
  IF f.kind = "not" THEN {} ELSE {f.terms[1]}

LeafVars(l) ==
  CASE l.kind \in {"add", "delete"} -> {l.atom.terms[1]}
    [] l.kind = "update" -> {l.expression.terms[1]}
    [] OTHER -> {}
FreshEffects == {l \in EffectLeaves : LeafVars(l) \cap bound = {}}

Leaf(l) == [kind |-> "leaf", effect |-> l]
Every(ws) == [kind |-> "all", parts |-> ws]
When(f, w) == [kind |-> "when", condition |-> f, body |-> w]
ForEach(ps, w) == [kind |-> "each", parameters |-> ps, body |-> w]
OneOf(ps, ws) == [kind |-> "one", probabilities |-> ps, parts |-> ws]

EffectInit ==
  what = "effect" /\ \E l \in EffectLeaves : built = l /\ written = Leaf(l)

Accompany ==
  /\ \E l \in FreshEffects : Build(Both(built, l), Every(<<written, Leaf(l)>>))
  /\ UNCHANGED bound
Condition ==
  /\ \E f \in Conditions :
       /\ ConditionVars(f) \cap bound = {}
       /\ Build(MakeConditional(f, built), When(f, written))
  /\ UNCHANGED bound
Repeat ==
  \E ps \in {<<x>>, <<y, x>>, <<z>>} :
    LET vs == {ps[i] : i \in DOMAIN ps}
    IN  /\ vs \cap bound = {}
        /\ Build(MakeForall(ps, built), ForEach(ps, written))
        /\ bound' = bound \cup vs
Choose ==
  /\ \E p \in {Half, Third} :
       \/ Build(MakeProbEffect(<< <<p, built>> >>), OneOf(<<p>>, <<written>>))
       \/ \E q \in {Half, Third, Make(1, 4)}, l \in FreshEffects :
            \/ Build(MakeProbEffect(<< <<p, built>>, <<q, l>> >>),
                     OneOf(<<p, q>>, <<written, Leaf(l)>>))
            \/ Build(MakeProbEffect(<< <<q, l>>, <<p, built>> >>),
                     OneOf(<<q, p>>, <<Leaf(l), written>>))
  /\ UNCHANGED bound

EffectNext ==
  what = "effect" /\ (Accompany \/ Condition \/ Repeat \/ Choose)

Init ==
  /\ what \in Kinds /\ bound = {} /\ steps = 0
  /\ NumberInit \/ (NoNumber /\ (FormulaInit \/ EffectInit))
Next ==
  /\ UNCHANGED what
  /\ NumberNext \/ (UNCHANGED calculatorVars /\ (FormulaNext \/ EffectNext))
Spec == Init /\ [][Next]_vars

-----------------------------------------------------------------------------
(* What a formula means: the truth of it in a state, with the variables
   standing for objects. *)
Objs(v) == {Compatible[v][i] : i \in DOMAIN Compatible[v]}
RECURSIVE Truth(_, _, _), Defined(_, _, _)
Evaluated(e, env, s) == ValueOf(InstExpression(e, env, s.values), s.values)
Envs(params) == {e \in [TermVars(params) -> Objects] :
                   \A v \in TermVars(params) : e[v] \in Objs(v)}
Truth(g, env, s) ==
  CASE g.kind = "constant" -> g.value
    [] g.kind = "atom" -> Atom(g.predicate, Replace(g.terms, env)) \in s.atoms
    [] g.kind = "=" -> LET t == Replace(<<g.term1, g.term2>>, env) IN t[1] = t[2]
    [] g.kind = "compare" -> Compare(g.op, Evaluated(g.expr1, env, s).value,
                                           Evaluated(g.expr2, env, s).value)
    [] g.kind = "not" -> ~Truth(g.negand, env, s)
    [] g.kind = "and" -> \A i \in DOMAIN g.parts : Truth(g.parts[i], env, s)
    [] g.kind = "or" -> \E i \in DOMAIN g.parts : Truth(g.parts[i], env, s)
    [] g.kind = "exists" -> \E e \in Envs(g.parameters) : Truth(g.body, e @@ env, s)
    [] g.kind = "forall" -> \A e \in Envs(g.parameters) : Truth(g.body, e @@ env, s)

(* No division by zero anywhere in the formula.                            *)
Defined(g, env, s) ==
  CASE g.kind \in {"constant", "atom", "="} -> TRUE
    [] g.kind = "compare" -> Throws \notin {Evaluated(g.expr1, env, s),
                                            Evaluated(g.expr2, env, s)}
    [] g.kind = "not" -> Defined(g.negand, env, s)
    [] g.kind \in {"and", "or"} -> \A i \in DOMAIN g.parts : Defined(g.parts[i], env, s)
    [] OTHER -> \A e \in Envs(g.parameters) : Defined(g.body, e @@ env, s)

StaticAtoms == {Atom("s", <<o1>>)}
FormulaState(A, v) ==
  [atoms |-> StaticAtoms \cup A,
   values |-> G(o1) :> Make(1, 2) @@ G(o2) :> Make(0, 1) @@ H :> v]
FormulaStates ==
  {FormulaState(A, v) :
     A \in SUBSET {Atom("p", <<o1>>), Atom("p", <<o2>>), Atom("q", <<>>)},
     v \in {Make(0, 1), Make(2, 1)}}
FormulaInitial == FormulaState({Atom("p", <<o1>>)}, Make(0, 1))

FormulaSubstitutions ==
  {e \in [FreeVars(built) -> Objects] : \A v \in FreeVars(built) : e[v] \in Objs(v)}

(* What is left of a condition in its instance: no variable, quantifier,
   equality or static predicate, on which testing it would fail or depend. *)
RECURSIVE Resolved(_)
Resolved(g) ==
  CASE g.kind = "atom" -> AllObjects(g.terms)
    [] g.kind \in {"constant", "throws"} -> TRUE
    [] g.kind = "compare" -> FreeVars(g) = {}
    [] g.kind = "not" -> Resolved(g.negand)
    [] g.kind \in {"and", "or"} -> \A i \in DOMAIN g.parts : Resolved(g.parts[i])
    [] OTHER -> FALSE

(* Instantiating a condition once, in the initial state, leaves nothing to
   resolve, and testing the instance in any later state says the same as the
   condition itself with the arguments put in: only what no action changes is
   resolved early. *)
InstanceIsFaithful ==
  what = "formula" =>
    \A subst \in FormulaSubstitutions :
      LET g == Instantiation(built, subst, FormulaInitial, FALSE)
      IN  /\ Resolved(g)
          /\ \A s \in FormulaStates :
               Defined(built, subst, s) => Holds(g, s) = Answer(Truth(built, subst, s))

(* What quantified goals may contain to be tested rightly: below a
   quantifier, no atom over objects alone and no comparison. *)
RECURSIVE Testable(_, _)
Testable(g, below) ==
  CASE g.kind = "atom" -> ~below \/ g.terms = <<>> \/ TermVars(g.terms) # {}
    [] g.kind = "compare" -> ~below
    [] g.kind \in {"constant", "="} -> TRUE
    [] g.kind = "not" -> Testable(g.negand, below)
    [] g.kind \in {"and", "or"} ->
         \A i \in DOMAIN g.parts : Testable(g.parts[i], below)
    [] OTHER -> Testable(g.body, TRUE)

(* A goal is tested as it was written: a closed formula holds in a state if
   and only if it is true there (formulas.h: "Tests if this state formula
   holds in the given state."). *)
GoalsHold ==
  what = "formula" /\ FreeVars(built) = {} =>
    \A s \in FormulaStates :
      Defined(built, NoSubstitution, s) =>
        Holds(built, s) = Answer(Truth(built, NoSubstitution, s))

(* The same for goals that keep ground atoms and comparisons out of their
   quantifiers. *)
TestableGoalsHold == what = "formula" /\ Testable(built, FALSE) => GoalsHold

(* What a formula says is what was written, whether it is tested through its
   instance or as it is (formulas.cc:300, 873). *)
FormulasAreFaithful == InstanceIsFaithful /\ TestableGoalsHold

-----------------------------------------------------------------------------
EffectState(A) ==
  [atoms |-> {Atom("s", <<o1>>)} \cup A,
   values |-> G(o1) :> Make(1, 2) @@ G(o2) :> Make(2, 1) @@ H :> Zero]
EffectStates == {EffectState(A) : A \in SUBSET {Atom("p", <<o1>>), Atom("p", <<o2>>)}}
EffectInitial == EffectState({Atom("p", <<o1>>)})

Ground(l, env, s) ==
  CASE l.kind = "empty" -> NoChange
    [] l.kind = "add" -> Change({Substitute(l.atom, env)}, {}, <<>>)
    [] l.kind = "delete" -> Change({}, {Substitute(l.atom, env)}, <<>>)
    [] l.kind = "update" ->
         Change({}, {}, << [l EXCEPT !.expression =
                              Value(s.values[Substitute(@, env)])] >>)

TrueIn(f, env, s) ==
  IF f.kind = "not" THEN Substitute(f.negand, env) \notin s.atoms
                    ELSE Substitute(f, env) \in s.atoms

(* The distribution of a written effect.                                   *)
RECURSIVE Meaning(_, _, _)
Meaning(w, env, s) ==
  CASE w.kind = "leaf" -> Surely(Ground(w.effect, env, s))
    [] w.kind = "all" ->
         FoldLeft(LAMBDA D, v : Independently(D, Meaning(v, env, s)),
                  Surely(NoChange), w.parts)
    [] w.kind = "when" -> IF TrueIn(w.condition, env, s)
                            THEN Meaning(w.body, env, s) ELSE Surely(NoChange)
    [] w.kind = "each" ->
         FoldSet(LAMBDA a, D : Independently(D, Meaning(w.body, a @@ env, s)),
                 Surely(NoChange), Envs(w.parameters))
    [] w.kind = "one" ->
         LET rest == FoldLeft(LAMBDA a, p : Subtract(a, p), Unit, w.probabilities)
         IN  Mixture(Append(w.probabilities, rest),
                     Append([i \in DOMAIN w.parts |-> Meaning(w.parts[i], env, s)],
                            Surely(NoChange)))

(* The distribution over what becomes of the state.                        *)
Outcomes(D, s) ==
  [r \in {Affect(ch, s) : ch \in DOMAIN D} |->
     Total([ch \in {p \in DOMAIN D : Affect(p, s) = r} |-> D[ch]])]

EffectSubstitutions ==
  {a \in [Variables \ (bound \cup {z}) -> Objects] :
     \A v \in DOMAIN a : a[v] \in Objs(v)}

(* An effect, simplified while it was parsed, with nested probabilities
   multiplied out and quantifiers expanded in the initial state, does in every
   state what was written, each outcome with the probability written. *)
EffectIsFaithful ==
  what = "effect" =>
    \A subst \in EffectSubstitutions :
      LET inst == InstEffect(built, subst, EffectInitial)
      IN  \A s \in EffectStates :
            Outcomes(StateChange(inst, s), s)
              = Outcomes(Meaning(written, subst, s), s)

(* The weights of a probabilistic effect are over the least common
   denominator of its probabilities: they are no larger than they must be,
   which is what keeps them in the range of an int. *)
RECURSIVE Least(_)
Least(f) ==
  CASE f.kind = "probabilistic" ->
         /\ f.weight_sum = FoldLeft(lcm, 1, [i \in DOMAIN f.weights |->
                                               Probability(f, i).denominator])
         /\ \A i \in DOMAIN f.effects : Least(f.effects[i])
    [] f.kind = "and" -> \A i \in DOMAIN f.conjuncts : Least(f.conjuncts[i])
    [] f.kind \in {"when", "forall"} -> Least(f.effect)
    [] OTHER -> TRUE
WeightsAreLeast == what = "effect" => Least(built)

(* What an instance of an effect does is what was written, with weights that
   stay in the range of an int as long as they can (effects.cc:574-610). *)
EffectsAreFaithful == EffectIsFaithful /\ WeightsAreLeast
=============================================================================
