------------------------------ MODULE Actions ------------------------------
(***************************************************************************)
(* Action schemata and problems (actions.cc, problems.cc): the actions     *)
(* that a problem has, when they are enabled, and what they do.            *)
(*                                                                         *)
(* A problem is a record: its initial atoms, values and effects, its goal, *)
(* goal reward (NoReward if there is none), metric, and the schemata of    *)
(* its domain.                                                             *)
(***************************************************************************)
EXTENDS Effects

NoReward == [kind |-> "none"]

Schema(name, params, precondition, effect) ==
  [name |-> name, parameters |-> params,
   precondition |-> precondition, effect |-> effect]

(* The tuples of objects for a list of parameters.                         *)
ObjectTuples(params) ==
  {t \in [DOMAIN params -> Objects] :
     \A i \in DOMAIN params : \E j \in DOMAIN Compatible[params[i]] :
       t[i] = Compatible[params[i]][j]}

Binding(params, objs) ==
  [v \in {params[i] : i \in DOMAIN params} |->
     objs[CHOOSE i \in DOMAIN params : params[i] = v]]

(* With everything resolved that the initial state decides.                *)
InstPreconditionInState(schema, objs, s) ==
  Instantiation(schema.precondition, Binding(schema.parameters, objs), s, TRUE)

(* The precondition for a tuple of objects, one parameter after the other. *)
InstPrecondition(schema, objs, s) ==
  IF objs = <<>>
    THEN Instantiation(schema.precondition, NoSubstitution, s, FALSE)
    ELSE FoldLeft(LAMBDA f, i : Instantiation(f, schema.parameters[i] :> objs[i],
                                              s, FALSE),
                  schema.precondition, [i \in DOMAIN objs |-> i])

(* ActionSchema::instantiation.                                            *)
InstAction(schema, objs, precondition, s) ==
  [name |-> schema.name, arguments |-> objs, precondition |-> precondition,
   effect |-> InstEffect(schema.effect, Binding(schema.parameters, objs), s)]

(* What ActionSchema::instantiations finds (module Odometer).              *)
Instances(schema, s) ==
  {InstAction(schema, t, InstPrecondition(schema, t, s), s) :
     t \in {u \in ObjectTuples(schema.parameters) :
              ~Contradiction(InstPrecondition(schema, u, s))}}

InitialState(p) == [atoms |-> p.init_atoms, values |-> p.init_values]

(* Problem::instantiate.                                                   *)
InstReward(p) ==
  IF p.goal_reward = NoReward THEN NoReward
  ELSE LET v == InstExpression(p.goal_reward.expression, NoSubstitution,
                               p.init_values)
       IN  IF v = Throws THEN Throws ELSE [p.goal_reward EXCEPT !.expression = v]

InstMetric(p) == InstExpression(p.metric, NoSubstitution, p.init_values)

ActionsOf(p) == UNION {Instances(sc, InitialState(p)) : sc \in p.schemata}

Instantiate(p) ==
  LET found == ActionsOf(p)
      thrown == \/ Throws \in {InstReward(p), InstMetric(p)}
                \/ \E a \in found : Throws \in {a.precondition, a.effect}
  IN  IF thrown THEN Throws
      ELSE [init_effects |-> p.init_effects, goal |-> p.goal,
            goal_reward |-> InstReward(p), metric |-> InstMetric(p),
            actions |-> found]

-----------------------------------------------------------------------------
(* Action::enabled, and Problem::enabled_actions.                          *)
Enabled(a, s) == Holds(a.precondition, s) = "true"
EnabledActions(actions, s) == {a \in actions : Enabled(a, s)}

(* What an effect may do.                                                  *)
Possible(effect, s) == DOMAIN StateChange(effect, s)

TotalTime == Fluent("total-time", <<>>)
GoalAchieved == Fluent("goal-achieved", <<>>)
Reward == Fluent("reward", <<>>)

(* The effects a problem begins with (make_problem).                       *)
Assign(f, q) == UpdateEffect("assign", f, Value(q))
DefaultEffects(rewards) ==
  <<Assign(TotalTime, Zero), Assign(GoalAchieved, Zero)>>
    \o (IF rewards THEN <<Assign(Reward, Zero)>> ELSE <<>>)

(* A state with its goal flag, unless an exception was thrown before.      *)
Flagged(v, goal) ==
  IF v = Throws THEN Throws
  ELSE [atoms |-> v.value.atoms, values |-> v.value.values, goal |-> goal]

(* Reaching a goal is recorded, without the reward.                        *)
CreditUnpaid(p, s) == Value([s EXCEPT !.values = (GoalAchieved :> Unit) @@ @])

(* What is credited on reaching a goal.                                    *)
Paid(p, values) ==
  IF p.goal_reward = NoReward THEN Value(values) ELSE AffectUpdate(values, p.goal_reward)
Credit(p, s) ==
  Then(Paid(p, (GoalAchieved :> Unit) @@ s.values),
       LAMBDA paid : Value([s EXCEPT !.values = paid.value]))

(* The goal is tested, and credited when it was not reached before.        *)
Tested(p, s, before, answer) ==
  CASE answer = "throws" -> Throws
    [] answer = "true" /\ ~before -> Flagged(Credit(p, s), TRUE)
    [] OTHER -> Flagged(Value(s), answer = "true")
TestGoal(p, s, before) == Tested(p, s, before, Holds(p.goal, s))

(* State::State: the initial effects in turn; what they delete is ignored. *)
InitialStates(p, init) ==
  LET sampled(s, e) ==
        {Affect([c EXCEPT !.deletes = {}], s) : c \in Possible(e, s)}
      all == FoldLeft(
               LAMBDA S, e : UNION {IF s = Throws THEN {s} ELSE sampled(s.value, e)
                                      : s \in S},
               {Value(init)}, p.init_effects)
  IN  {IF s = Throws THEN s ELSE TestGoal(p, s.value, FALSE) : s \in all}

(* State::next.                                                            *)
Tick(s) ==
  IF s = Throws THEN s
  ELSE [s EXCEPT !.values =
          (TotalTime :> Add(IF TotalTime \in DOMAIN @ THEN @[TotalTime] ELSE Zero,
                            Unit)) @@ @]
NextStates(p, s, a) ==
  LET after == {Affect(c, [atoms |-> s.atoms, values |-> s.values]) :
                  c \in Possible(a.effect, s)}
  IN  {IF t = Throws THEN t ELSE Tick(TestGoal(p, t.value, s.goal)) : t \in after}
=============================================================================
