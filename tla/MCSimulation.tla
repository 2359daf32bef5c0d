---------------------------- MODULE MCSimulation ----------------------------
(***************************************************************************)
(* Two places between which something moves, on ground that may or may not *)
(* be safe, and work that raises a level.  The problems differ in what the *)
(* initial state leaves open, in their rewards, and in whether an action   *)
(* mentions a static atom over constants.                                  *)
(***************************************************************************)
EXTENDS Simulation

CONSTANTS o1, o2, x, y

MCObjects == {o1, o2}
MCVariables == {x, y}
MCStaticPredicates == {"safe"}
MCStaticFunctions == {"cost"}
MCCompatible == x :> <<o1, o2>> @@ y :> <<o2, o1>>

At(t) == Atom("at", <<t>>)
Safe(t) == Atom("safe", <<t>>)
Done == Atom("done", <<>>)
Level == Fluent("level", <<>>)
Cost(t) == Fluent("cost", <<t>>)
Half == Make(1, 2)
Bonus == Make(10, 1)
Pay == MakeUpdate("decrease", Reward, Value(Unit))

Move(precondition) ==
  Schema("move", <<x, y>>, And(At(x), precondition),
         Both(Both(DeleteEffect(At(x)), AddEffect(At(y))),
              Both(Pay, MakeConditional(MakeNegation(Safe(y)), DeleteEffect(Done)))))
Work(precondition) ==
  Schema("work", <<x>>, And(And(At(x), Safe(x)), precondition),
         Both(Both(Pay, MakeUpdate("increase", Level, Cost(x))),
              MakeProbEffect(<< <<Half, AddEffect(Done)>> >>)))

SafeMoves == MakeQuantified("exists", <<y>>, Safe(y))
Cheap == MakeComparison("<=", Level, Value(Unit))
Goal == And(And(At(o2), Done), MakeComparison(">", Level, Value(Half)))

BasicProblem(safe, init, rewarded) ==
  [init_atoms |-> {At(o1)} \cup {Safe(t) : t \in safe},
   init_values |-> Level :> Zero @@ Cost(o1) :> Half @@ Cost(o2) :> Make(1, 3),
   init_effects |-> DefaultEffects(TRUE) \o init,
   goal |-> Goal,
   goal_reward |-> IF rewarded THEN UpdateEffect("increase", Reward, Value(Bonus))
                   ELSE NoReward,
   metric |-> Reward,
   schemata |-> {Move(True), Work(Cheap)}]

Sampled == MakeProbEffect(<< <<Half, AddEffect(Done)>> >>)
(* A level that was never given is tested, or raised.                      *)
NoLevel(p) ==
  [p EXCEPT !.init_values = [f \in (DOMAIN @) \ {Level} |-> @[f]]]
FailingProblems ==
  LET p == NoLevel(BasicProblem({o1, o2}, <<>>, TRUE))
  IN  {p, [p EXCEPT !.goal = At(o2)],
       [p EXCEPT !.goal = At(o2), !.schemata = {Work(True)}],
       [p EXCEPT !.metric = Cost(o1), !.init_values = <<>>]}
PlainProblems ==
  FailingProblems \cup
  {BasicProblem(safe, init, rewarded) :
     safe \in {{o1, o2}, {o2}, {}}, init \in {<<>>, <<Sampled>>},
     rewarded \in BOOLEAN}

(* A precondition with a static atom over a constant of the domain.        *)
ConstantProblems ==
  {[p EXCEPT !.schemata = {Move(MakeNegation(Safe(o1))), Work(True)}] :
     p \in PlainProblems \ FailingProblems}

-----------------------------------------------------------------------------
(* The truth of a precondition in a state with the arguments put in, with
   quantifiers over all objects. *)
RECURSIVE Truth(_, _, _)
Truth(f, env, s) ==
  CASE f.kind = "constant" -> f.value
    [] f.kind = "atom" -> Atom(f.predicate, Replace(f.terms, env)) \in s.atoms
    [] f.kind = "compare" ->
         LET v(e) == ValueOf(InstExpression(e, env, s.values), s.values).value
         IN  Compare(f.op, v(f.expr1), v(f.expr2))
    [] f.kind = "not" -> ~Truth(f.negand, env, s)
    [] f.kind = "=" -> Replace(<<f.term1>>, env) = Replace(<<f.term2>>, env)
    [] f.kind = "and" -> \A i \in DOMAIN f.parts : Truth(f.parts[i], env, s)
    [] f.kind = "or" -> \E i \in DOMAIN f.parts : Truth(f.parts[i], env, s)
    [] f.kind = "exists" ->
         \E o \in Objects : Truth(f.body, (f.parameters[1] :> o) @@ env, s)

Running == status \in {"running", "over", "disabled"} /\ problem \notin FailingProblems

(* In every state of a round, the actions that are enabled are those whose
   precondition, as it was written, is true for their arguments, although
   the instances were made once, in a state the round may not begin in. *)
ActionsAreLegal ==
  Running =>
    \A sc \in problem.schemata : \A t \in ObjectTuples(sc.parameters) :
      (\E a \in instance.actions :
         a.name = sc.name /\ a.arguments = t /\ Enabled(a, state))
        <=> Truth(sc.precondition, Binding(sc.parameters, t), state)

(* The time is the number of turns, a goal is recorded and paid for when it
   is reached and not otherwise, and a round is scored accordingly. *)
Accounts ==
  Running /\ problem \in PlainProblems =>
    LET reached == Truth(problem.goal, NoSubstitution, state)
        paid == IF reached /\ problem.goal_reward # NoReward THEN Bonus ELSE Zero
    IN  /\ state.goal = reached
        /\ state.values[TotalTime] = Make(turn, 1)
        /\ (state.values[GoalAchieved] = Unit) = reached
        /\ state.values[Reward] = Subtract(paid, Make(turn, 1))
        /\ status = "over" => score = state.values[Reward]

(* A client that picks an action that is enabled in the state it received
   picks one that the server takes (README: mdpclient "executes random legal
   actions"). *)
ClientPlaysLegally == status # "disabled"

(* And it misses none. *)
ClientMissesNothing ==
  status = "running" =>
    EnabledActions(instance.actions, View(state))
      = EnabledActions(instance.actions, state)
=============================================================================
