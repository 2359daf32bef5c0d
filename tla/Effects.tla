------------------------------ MODULE Effects ------------------------------
(***************************************************************************)
(* Effects of actions (effects.cc): how they are built, instantiated, and  *)
(* what they may do in a state.                                            *)
(*                                                                         *)
(* state_change samples: it fills lists of atoms to add and delete and of  *)
(* updates.  Here it is the distribution over such changes, a function     *)
(* from changes to probabilities, in which a probabilistic effect counts   *)
(* the values of its random number that select each outcome.  The bool of  *)
(* add_outcome only cuts a list of outcomes short that is over-full.       *)
(***************************************************************************)
EXTENDS Formulas, FiniteSets

Empty == [kind |-> "empty"]
AddEffect(a) == [kind |-> "add", atom |-> a]
DeleteEffect(a) == [kind |-> "delete", atom |-> a]
UpdateEffect(op, f, e) ==
  [kind |-> "update", op |-> op, fluent |-> f, expression |-> e]
ConjunctiveEffect(es) == [kind |-> "and", conjuncts |-> es]
ConditionalEffect(c, e) == [kind |-> "when", condition |-> c, effect |-> e]
QuantifiedEffect(params, e) ==
  [kind |-> "forall", parameters |-> params, effect |-> e]
ProbabilisticEffect(ws, sum, es) ==
  [kind |-> "probabilistic", weights |-> ws, weight_sum |-> sum, effects |-> es]

Zero == Make(0, 1)
Unit == Make(1, 1)

(* An update that changes nothing is not made.                             *)
MakeUpdate(op, f, e) ==
  IF \/ op \in {"scale-up", "scale-down"} /\ e = Value(Unit)
     \/ op \in {"increase", "decrease"} /\ e = Value(Zero)
    THEN Empty ELSE UpdateEffect(op, f, e)

Conjuncts(e) == IF e.kind = "and" THEN e.conjuncts ELSE <<e>>

(* operator&&.                                                             *)
Both(e1, e2) ==
  CASE Throws \in {e1, e2} -> Throws
    [] e1 = Empty -> e2
    [] e2 = Empty -> e1
    [] OTHER -> ConjunctiveEffect(Conjuncts(e1) \o Conjuncts(e2))

MakeConditional(c, e) ==
  CASE Throws \in {c, e} -> Throws
    [] Tautology(c) -> e
    [] Contradiction(c) \/ e = Empty -> Empty
    [] OTHER -> ConditionalEffect(c, e)

MakeForall(params, e) ==
  IF params = <<>> \/ e \in {Empty, Throws} THEN e ELSE QuantifiedEffect(params, e)

-----------------------------------------------------------------------------
(* Probabilistic effects: integer weights over a common denominator.       *)
NoOutcomes == ProbabilisticEffect(<<>>, 0, <<>>)
Probability(e, i) == Make(e.weights[i], e.weight_sum)

(* The weights that are there already keep their old denominator.          *)
PushOutcomeUnscaled(e, p, effect) ==
  LET f == IF e.weight_sum = 0 THEN <<0, 1>>
           ELSE multipliers(e.weight_sum, p.denominator)
  IN  ProbabilisticEffect(Append(e.weights, p.numerator * f[2]),
        IF e.weight_sum = 0 THEN p.denominator ELSE e.weight_sum * f[1],
        Append(e.effects, effect))

PushOutcome(e, p, effect) ==
  IF e.weight_sum = 0
    THEN ProbabilisticEffect(<<p.numerator>>, p.denominator, <<effect>>)
    ELSE LET f == multipliers(e.weight_sum, p.denominator)
         IN  ProbabilisticEffect(
               Append([i \in DOMAIN e.weights |-> e.weights[i] * f[1]],
                      p.numerator * f[2]),
               e.weight_sum * f[1],
               Append(e.effects, effect))

(* An outcome that is itself probabilistic is merged into the effect.      *)
RECURSIVE AddOutcome(_, _, _)
AddOutcome(e, p, effect) ==
  CASE Throws \in {e, effect} -> Throws
    [] effect.kind = "probabilistic" ->
         FoldLeft(LAMBDA a, i :
                    AddOutcome(a, Multiply(p, Probability(effect, i)),
                               effect.effects[i]),
                  e, [i \in DOMAIN effect.effects |-> i])
    [] effect.kind # "probabilistic" /\ p # Zero -> PushOutcome(e, p, effect)
    [] OTHER -> e

(* ProbabilisticEffect::make: what comes before the first outcome that can
   do something is left out. *)
MakeProbabilistic(os) ==
  LET useful == {i \in DOMAIN os : os[i][1] # Zero /\ os[i][2] # Empty}
      first == CHOOSE i \in useful : \A j \in useful : i <= j
  IN  IF useful = {} THEN Empty
      ELSE FoldLeft(LAMBDA a, o : AddOutcome(a, o[1], o[2]), NoOutcomes,
                    SubSeq(os, first, Len(os)))

(* The parser's test of the outcomes it read.                              *)
PSum(os) == FoldLeft(LAMBDA a, o : Add(a, o[1]), Zero, os)
MakeProbEffect(os) ==
  IF Less(Unit, PSum(os)) THEN Empty ELSE MakeProbabilistic(os)

-----------------------------------------------------------------------------
Substitute(f, subst) == [f EXCEPT !.terms = Replace(f.terms, subst)]

(* The static part of a condition is resolved against the initial state s. *)
RECURSIVE InstEffect(_, _, _), ExpandEffect(_, _, _, _)

(* The instances of a quantified effect, in the order of the objects.      *)
ExpandEffect(e, params, acc, s) ==
  IF params = <<>> THEN Both(acc, e)
  ELSE FoldLeft(LAMBDA a, o :
                  ExpandEffect(InstEffect(e, Head(params) :> o, s),
                               Tail(params), a, s),
                acc, Compatible[Head(params)])

InstEffect(e, subst, s) ==
  CASE e.kind \in {"empty", "throws"} -> e
    [] e.kind \in {"add", "delete"} -> [e EXCEPT !.atom = Substitute(@, subst)]
    [] e.kind = "update" ->
         LET v == InstExpression(e.expression, subst, s.values)
         IN  IF v = Throws THEN Throws
             ELSE UpdateEffect(e.op, Substitute(e.fluent, subst), v)
    [] e.kind = "and" ->
         FoldLeft(LAMBDA a, c :
                    LET i == InstEffect(c, subst, s)
                    IN  IF Throws \in {a, i} THEN Throws
                        ELSE ConjunctiveEffect(a.conjuncts \o Conjuncts(i)),
                  ConjunctiveEffect(<<>>), e.conjuncts)
    [] e.kind = "when" ->
         MakeConditional(Instantiation(e.condition, subst, s, FALSE),
                         InstEffect(e.effect, subst, s))
    [] e.kind = "probabilistic" ->
         FoldLeft(LAMBDA a, i :
                    AddOutcome(a, Probability(e, i),
                               InstEffect(e.effects[i], subst, s)),
                  NoOutcomes, [i \in DOMAIN e.effects |-> i])
    [] e.kind = "forall" ->
         IF \E i \in DOMAIN e.parameters : Compatible[e.parameters[i]] = <<>>
           THEN Empty
           ELSE ExpandEffect(InstEffect(e.effect, subst, s), e.parameters,
                             Empty, s)

-----------------------------------------------------------------------------
(* What an effect does to the lists of state_change.                       *)
Change(adds, deletes, updates) ==
  [adds |-> adds, deletes |-> deletes, updates |-> updates, thrown |-> FALSE]
NoChange == Change({}, {}, <<>>)
Thrown == [NoChange EXCEPT !.thrown = TRUE]
Merge(a, b) ==
  IF a.thrown \/ b.thrown THEN Thrown
  ELSE Change(a.adds \cup b.adds, a.deletes \cup b.deletes,
              a.updates \o b.updates)

(* Distributions.                                                          *)
Surely(change) == change :> Unit
Total(weight) == FoldSet(LAMBDA x, acc : Add(weight[x], acc), Zero, DOMAIN weight)

Independently(D, E) ==
  LET pairs == (DOMAIN D) \X (DOMAIN E)
  IN  [c \in {Merge(x[1], x[2]) : x \in pairs} |->
         Total([x \in {p \in pairs : Merge(p[1], p[2]) = c} |->
                  Multiply(D[x[1]], E[x[2]])])]

(* One of several distributions, each with its probability, which may be 0. *)
Mixture(ps, Ds) ==
  LET likely == {i \in DOMAIN ps : ps[i] # Zero}
  IN  [c \in UNION {DOMAIN Ds[i] : i \in likely} |->
         Total([i \in {j \in likely : c \in DOMAIN Ds[j]} |->
                  Multiply(ps[i], Ds[i][c])])]

(* The outcome that the random number w selects, or none (0): the first one
   whose weights with those before it exceed w. *)
WeightUpTo(e, i) == FoldLeft(LAMBDA a, w : a + w, 0, SubSeq(e.weights, 1, i))
FirstOf(I) == IF I = {} THEN 0 ELSE CHOOSE i \in I : \A j \in I : i <= j
Select(e, w) == FirstOf({i \in DOMAIN e.weights : w < WeightUpTo(e, i)})

(* How many of the random numbers select outcome i, out of all.            *)
Chance(e, i) ==
  Make(Cardinality({w \in 0 .. e.weight_sum - 1 : Select(e, w) = i}),
       e.weight_sum)

(* A conditional effect, by what the test of its condition yields.         *)
CaseOf(answer, change) ==
  IF answer = "true" THEN change
  ELSE Surely(IF answer = "false" THEN NoChange ELSE Thrown)

RECURSIVE StateChange(_, _)
StateChange(e, s) ==
  CASE e.kind = "empty" -> Surely(NoChange)
    [] e.kind = "throws" -> Surely(Thrown)
    [] e.kind = "add" -> Surely(Change({e.atom}, {}, <<>>))
    [] e.kind = "delete" -> Surely(Change({}, {e.atom}, <<>>))
    [] e.kind = "update" -> Surely(Change({}, {}, <<e>>))
    [] e.kind = "and" ->
         FoldLeft(LAMBDA D, c : Independently(D, StateChange(c, s)),
                  Surely(NoChange), e.conjuncts)
    [] e.kind = "when" ->
         CaseOf(Holds(e.condition, s), StateChange(e.effect, s))
    [] e.kind = "probabilistic" ->
         IF e.effects = <<>> THEN Surely(NoChange)
         ELSE Mixture(Append([i \in DOMAIN e.effects |-> Chance(e, i)], Chance(e, 0)),
                      Append([i \in DOMAIN e.effects |->
                                StateChange(e.effects[i], s)],
                             Surely(NoChange)))
    [] e.kind = "forall" -> Surely(Thrown)

-----------------------------------------------------------------------------
(* The arithmetic of an update.                                            *)
OperationOf == ("scale-up" :> "*") @@ ("scale-down" :> "/")
               @@ ("increase" :> "+") @@ ("decrease" :> "-")

Operated(values, u, q) ==
  CASE u.op = "assign" -> Value(q)
    [] u.op # "assign" /\ u.fluent \notin DOMAIN values -> Throws
    [] OTHER -> Calculate(OperationOf[u.op], values[u.fluent], q)

(* Update::affect.  Only assign gives a value to a fluent without one.     *)
AffectUpdate(values, u) ==
  Then(Then(ValueOf(u.expression, values), LAMBDA v : Operated(values, u, v.value)),
       LAMBDA r : Value((u.fluent :> r.value) @@ values))

(* The updates one after the other, each on what those before have left.   *)
AffectUpdates(values, us) ==
  FoldLeft(LAMBDA before, u : Then(before, LAMBDA v : AffectUpdate(v.value, u)),
           Value(values), us)

(* Action::affect, for one of the changes the effect may sample.           *)
Affect(change, s) ==
  IF change.thrown THEN Throws
  ELSE Then(AffectUpdates(s.values, change.updates), LAMBDA v :
              Value([atoms |-> (s.atoms \ change.deletes) \cup change.adds,
                     values |-> v.value]))
=============================================================================
