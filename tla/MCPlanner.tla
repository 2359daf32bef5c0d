----------------------------- MODULE MCPlanner -----------------------------
(***************************************************************************)
(* Something that moves by chance between two places and work that may     *)
(* succeed, fail or spoil what was done, in problems small enough to be    *)
(* solved exactly: with and without rewards, with and without a goal.      *)
(***************************************************************************)
EXTENDS MCSimulation, Planner

CONSTANT Horizon      (* turns that the values of the reference look ahead  *)

Quarter == Make(1, 4)
HalfValue == Make(1, 2)
Wet == Atom("wet", <<>>)
Earn(q) == MakeUpdate("increase", Reward, Value(q))
Lose(q) == MakeUpdate("decrease", Reward, Value(q))

(* Goes to another place with probability one half, and may get wet.       *)
Go ==
  Schema("go", <<x, y>>, And(At(x), MakeNegation(MakeEquality(x, y))),
         Both(MakeProbEffect(<< <<Half, Both(DeleteEffect(At(x)), AddEffect(At(y)))>> >>),
              Both(MakeConditional(MakeNegation(Safe(y)), AddEffect(Wet)),
                   Lose(Quarter))))

(* Succeeds, which earns something in dry conditions, or does nothing, or
   spoils things half of the time. *)
Try(else) ==
  Schema("try", <<>>, And(At(o2), MakeNegation(Done)),
         MakeProbEffect(<< <<Half, Both(AddEffect(Done),
                                        MakeConditional(MakeNegation(Wet), Earn(Unit)))>>,
                           <<Quarter, else>>,
                           <<Quarter, MakeProbEffect(<< <<Half, AddEffect(Wet)>>,
                                                        <<Half, Lose(Unit)>> >>)>> >>))
Rest(e) == Schema("rest", <<>>, Or(Done, Wet), Both(DeleteEffect(Done), e))

PlannedProblem(schemata, goal, goalReward, rewards, init) ==
  [init_atoms |-> {At(o1), Safe(o1)} \cup init,
   init_values |-> [f \in {} |-> Zero],
   init_effects |-> DefaultEffects(rewards)
                      \o <<MakeProbEffect(<< <<Half, AddEffect(Wet)>> >>)>>,
   goal |-> goal, goal_reward |-> goalReward,
   metric |-> IF rewards THEN Reward ELSE GoalAchieved,
   schemata |-> schemata]

GoalReward(q) == UpdateEffect("increase", Reward, Value(q))
Doubtful == MakeProbEffect(<< <<Half, DeleteEffect(Wet)>> >>)

PlannedProblems ==
  {PlannedProblem({Go, Try(Doubtful)}, And(Done, At(o2)), GoalReward(Make(2, 1)), TRUE, {}),
   PlannedProblem({Go, Try(Empty)}, Or(Done, MakeNegation(Wet)), NoReward, FALSE, {Wet}),
   PlannedProblem({Go, Rest(Earn(Half))}, False, NoReward, TRUE, {Done}),
   PlannedProblem({Go, Rest(Doubtful)}, And(At(o2), MakeNegation(Wet)),
                  GoalReward(Unit), TRUE, {Safe(o2)})}

(* What the planner does not take: numbers in the state (PlainProblems), and
   an action that may set and clear an atom, here when it stays where it is. *)
Stray == Schema("stray", <<x, y>>, At(x), Both(DeleteEffect(At(x)), AddEffect(At(y))))
Straying == PlannedProblem({Stray}, At(o2), GoalReward(Unit), TRUE, {})

(* Problems with as many variables as the one before, and with fewer.      *)
Still(e) == PlannedProblem({Rest(e)}, Or(Done, At(o2)), GoalReward(Unit), TRUE, {})
Continued == {<<Still(Empty), Still(Earn(Half))>>}
Shrinking == {<<p, Still(Empty)>> : p \in {q \in PlannedProblems : q.goal = False}}

MCProcesses ==
  {<<p>> : p \in PlainProblems \cup PlannedProblems \cup {Straying}}
    \cup Continued \cup Shrinking
MCProblems == UNION {Range(q) : q \in MCProcesses}

(* An outcome that earns something, and otherwise nothing happens.         *)
Gamble == Schema("gamble", <<>>, True, MakeProbEffect(<< <<Quarter, Earn(Unit)>> >>))
GambleProblems ==
  {PlannedProblem({Go, Gamble}, At(o2), GoalReward(Unit), TRUE, {})}
GambleProcesses == {<<p>> : p \in GambleProblems}

(* A condition on an atom that no effect mentions.                         *)
Broken(t) == Atom("broken", <<t>>)
Use == Schema("use", <<x>>, And(MakeNegation(Broken(x)), Safe(x)),
              Both(AddEffect(Broken(x)), Earn(Unit)))
UseAll == Schema("use-all", <<>>, MakeNegation(Broken(o2)), Earn(Unit))
BrokenProblems == {PlannedProblem({Use, UseAll}, False, NoReward, TRUE, {Broken(o2)})}
BrokenProcesses == {<<p>> : p \in BrokenProblems}

(* A problem with more variables after one with fewer.                     *)
GrowingProcesses ==
  {<<PlannedProblem({Go}, At(o2), GoalReward(Unit), TRUE, {}), p>> :
     p \in PlannedProblems}
AllProblems ==
  {q[i] : q \in GambleProcesses \cup BrokenProcesses \cup GrowingProcesses, i \in {1}}
    \cup PlannedProblems

-----------------------------------------------------------------------------
(* The reference: a state of the simulation for a row, and what an action
   does there, with the chances, by the definitions of the simulation alone. *)
StateAt(r) ==
  [atoms |-> {frame.vars[i] : i \in {j \in DOMAIN frame.vars : DdLevel(frame, j - 1) \in r}}
             \cup {a \in problem.init_atoms : ~HasVariable(frame, a)},
   values |-> TotalTime :> Zero @@ GoalAchieved :> Zero @@ Reward :> Zero,
   goal |-> FALSE]

GoalAt(r) == Truth(problem.goal, NoSubstitution, StateAt(r))

(* What a step to the state t yields.                                      *)
Gain(t) ==
  LET v == TestGoal(instance, t, FALSE).values
  IN  IF HasReward(problem) THEN v[Reward] ELSE v[GoalAchieved]

OutcomesAt(i, r) ==
  LET s == StateAt(r)
      D == StateChange(ordering[i].effect, s)
  IN  [c \in DOMAIN D |->
         LET t == Affect(c, s).value
         IN  [chance |-> D[c], row |-> StateRow(frame, t.atoms), gain |-> Gain(t)]]

Expected(outcomes, F(_)) ==
  FoldSet(LAMBDA c, p : Add(p, Multiply(outcomes[c].chance, F(outcomes[c]))), Zero,
          DOMAIN outcomes)

Converted == phase = "iterating" /\ iters = 0

(* The matrix of every action is the distribution over the states that the
   simulation may go to, in all states, reachable or not. *)
MatrixIsFaithful ==
  Converted =>
    \A i \in DOMAIN ordering, r \in mdp.rows :
      LET outcomes == OutcomesAt(i, r)
      IN  \A c \in mdp.rows :
            mdp.matrix[i][r][c]
              = Expected(outcomes, LAMBDA o : IF o.row = c THEN Unit ELSE Zero)

(* The reward vector of every action is what the simulation pays on average
   (README: "representations of transition probability matrices and reward
   vectors for PPDDL actions"). *)
RewardIsExpected ==
  Converted =>
    \A i \in DOMAIN ordering, r \in mdp.rows \ mdp.goal :
      mdp.reward[i][r] = Expected(OutcomesAt(i, r), LAMBDA o : o.gain)

(* Value iteration contracts: no values grow out of bounds, and it stops
   after as many rounds as the discount needs to get below the tolerance. *)
MaxReward == Make(4, 1)
RECURSIVE Power(_, _)
Power(q, n) == IF n = 0 THEN Unit ELSE Multiply(q, Power(q, n - 1))
StopsInTime ==
  phase = "iterating" /\ iters > 0 =>
    ~LessOrEqual(Multiply(Power(Gamma, iters - 1), MaxReward), Tolerance(Gamma, Epsilon))

(* The best that can be had in a number of turns, and what the policy gets. *)
Looking(table, v, i, r) ==
  Expected(table[i, r], LAMBDA o : Add(o.gain, Multiply(Gamma, v[o.row])))
Values(rows, choice(_, _)) ==
  FoldLeft(LAMBDA v, n : [r \in rows |-> choice(v, r)] @@ NoValues, [r \in rows |-> Zero],
           [n \in 1 .. Horizon |-> n])

PlanIsNearOptimal ==
  phase = "planned" /\ status = "loaded" =>
    LET rows == DOMAIN mapping
        table == [i \in DOMAIN ordering, r \in rows |-> OutcomesAt(i, r)] @@ NoValues
        goal == [r \in rows |-> GoalAt(r)] @@ NoValues
        legal == [r \in rows |-> {i \in DOMAIN ordering : Enabled(ordering[i], StateAt(r))}] @@ NoValues
        best(v, r) ==
          IF goal[r] THEN Zero
          ELSE FoldSet(LAMBDA i, q : LET p == Looking(table, v, i, r)
                                     IN  IF Less(q, p) THEN p ELSE q, Zero, legal[r])
        chosen(v, r) ==
          IF goal[r] \/ mapping[r] = 0 THEN Zero ELSE Looking(table, v, mapping[r], r)
        optimal == Values(rows, best)
        reached == Values(rows, chosen)
        cut == Multiply(Power(Gamma, Horizon), Multiply(MaxReward, Make(2, 1)))
    IN  \A r \in rows :
          LessOrEqual(Subtract(optimal[r], reached[r]), Add(Epsilon, cut))

(* In every state of a round, whoever has played before, the planner gives
   up or picks an action that the server takes. *)
PlanIsLegal ==
  phase = "planned" /\ status = "running" /\ ~state.goal =>
    LET i == Decision(View(state)) IN i = 0 \/ Enabled(ordering[i], state)
=============================================================================
