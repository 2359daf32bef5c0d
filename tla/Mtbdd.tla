------------------------------- MODULE Mtbdd -------------------------------
(***************************************************************************)
(* The conversion of a problem to transition matrices and reward vectors   *)
(* (mtbdd.cc), as the planner of mtbddclient needs them.                   *)
(*                                                                         *)
(* Each ground atom that counts becomes a state variable, and each random  *)
(* choice some auxiliary variables that number its outcomes.  A variable   *)
(* has a level in the order of the decision diagrams.  A point is a pair   *)
(* of a row (the levels that are true before the action) and a column      *)
(* (those that are true after it, with the auxiliary ones); a BDD is the   *)
(* set of points where it is true, an ADD a function.  Numbers are exact   *)
(* here and doubles in the code.                                           *)
(*                                                                         *)
(* A frame is a record of the variables of a problem: the state variables  *)
(* as a sequence of atoms, the number of auxiliary ones, and var_order,    *)
(* the levels as a sequence, whose index i + 1 has the level of variable i.*)
(***************************************************************************)
EXTENDS Actions

(* Formulas at which collect_state_variables and formula_bdd throw.         *)
RECURSIVE Unexpected(_)
Unexpected(f) ==
  CASE f.kind \in {"constant", "atom"} -> FALSE
    [] f.kind = "not" -> Unexpected(f.negand)
    [] f.kind \in {"and", "or"} -> \E i \in DOMAIN f.parts : Unexpected(f.parts[i])
    [] OTHER -> TRUE

(* collect_state_variables, for a formula and for an effect.               *)
CollectAtom(vars, a) ==
  IF \E i \in DOMAIN vars : vars[i] = a THEN vars ELSE Append(vars, a)

RECURSIVE CollectFormula(_, _)
CollectFormula(vars, f) ==
  CASE f.kind = "constant" -> vars
    [] f.kind = "atom" -> CollectAtom(vars, f)
    [] f.kind = "not" -> CollectFormula(vars, f.negand)
    [] f.kind \in {"and", "or"} -> FoldLeft(CollectFormula, vars, f.parts)

PartsOf(e) ==
  CASE e.kind = "and" -> e.conjuncts
    [] e.kind = "when" -> <<e.effect>>
    [] e.kind = "probabilistic" -> e.effects
    [] OTHER -> <<>>

(* Effects for which it throws: numbers other than the reward.             *)
RECURSIVE Numeric(_, _)
Numeric(e, rewards) ==
  \/ /\ e.kind = "update"
     /\ e.fluent \notin {TotalTime, GoalAchieved}
     /\ ~(rewards /\ e.fluent = Reward)
  \/ \E i \in DOMAIN PartsOf(e) : Numeric(PartsOf(e)[i], rewards)

(* The condition of an effect is not looked at.                            *)
RECURSIVE CollectEffect(_, _)
CollectEffect(vars, e) ==
  IF e.kind \in {"add", "delete"} THEN CollectAtom(vars, e.atom)
  ELSE FoldLeft(CollectEffect, vars, PartsOf(e))

-----------------------------------------------------------------------------
(* Auxiliary variables.                                                    *)
ceil_log2(n) == CHOOSE k \in 0 .. n : 2 ^ k >= n /\ \A j \in 0 .. k - 1 : 2 ^ j < n

(* What the probabilities of the outcomes leave.                           *)
PRest(e) ==
  FoldLeft(LAMBDA p, i : Subtract(p, Probability(e, i)), Unit,
           [i \in DOMAIN e.effects |-> i])
OutcomeCount(e) == Len(e.effects) + (IF Less(Zero, PRest(e)) THEN 1 ELSE 0)

RECURSIVE AuxiliaryVariables(_)
AuxiliaryVariables(e) ==
  LET all(es) == FoldLeft(LAMBDA n, c : n + AuxiliaryVariables(c), 0, es)
  IN  CASE e.kind = "and" -> all(e.conjuncts)
        [] e.kind = "when" -> AuxiliaryVariables(e.effect)
        [] e.kind = "probabilistic" -> ceil_log2(OutcomeCount(e)) + all(e.effects)
        [] OTHER -> 0

AuxVars(actions) ==
  FoldSet(LAMBDA a, n : LET k == AuxiliaryVariables(a.effect)
                        IN  IF k > n THEN k ELSE n, 0, actions)

-----------------------------------------------------------------------------
(* Frames.                                                                 *)
Frame(vars, aux, order) == [vars |-> vars, aux |-> aux, order |-> order]
NVars(fr) == Len(fr.vars) + fr.aux
DdLevel(fr, i) == fr.order[i + 1]

(* The order is not emptied before the variables of a problem are appended:
   auxiliary variables first, then the state variables. *)
NewOrder(vars, aux) ==
  [i \in 1 .. Len(vars) + aux |->
     IF i <= Len(vars) THEN i - 1 + aux ELSE i - 1 - Len(vars)]
PushOrder(order, vars, aux) == order \o NewOrder(vars, aux)

LevelOf(fr, a) == DdLevel(fr, (CHOOSE i \in DOMAIN fr.vars : fr.vars[i] = a) - 1)
StateLevels(fr) == {DdLevel(fr, i - 1) : i \in DOMAIN fr.vars}
AuxLevels(fr, next) == {DdLevel(fr, i) : i \in Len(fr.vars) .. next - 1}
Rows(fr) == SUBSET StateLevels(fr)
Columns(fr) == SUBSET {DdLevel(fr, i) : i \in 0 .. NVars(fr) - 1}
Points(fr) == Rows(fr) \X Columns(fr)

HasVariable(fr, a) == \E i \in DOMAIN fr.vars : fr.vars[i] = a

(* formula_bdd: an atom without a variable is false.                       *)
RECURSIVE FormulaBdd(_, _)
FormulaBdd(fr, f) ==
  CASE f.kind = "constant" -> IF f.value THEN Rows(fr) ELSE {}
    [] f.kind = "atom" ->
         IF HasVariable(fr, f) THEN {r \in Rows(fr) : LevelOf(fr, f) \in r} ELSE {}
    [] f.kind = "not" -> Rows(fr) \ FormulaBdd(fr, f.negand)
    [] f.kind = "and" ->
         {r \in Rows(fr) : \A i \in DOMAIN f.parts : r \in FormulaBdd(fr, f.parts[i])}
    [] f.kind = "or" ->
         UNION {FormulaBdd(fr, f.parts[i]) : i \in DOMAIN f.parts}

(* state_bdd: the row of a set of atoms.                                   *)
StateRow(fr, atoms) ==
  {DdLevel(fr, i - 1) : i \in {j \in DOMAIN fr.vars : fr.vars[j] \in atoms}}
-----------------------------------------------------------------------------
(* effect_dbn.  A network is a record: the pairs of an atom and a point at
   which it is set, and cleared, the probabilities of the auxiliary variables
   (ADDs over columns), the next auxiliary variable, and the expected reward
   (an ADD over rows). *)
Network(sets, clears, chances, next, reward) ==
  [sets |-> sets, clears |-> clears, chances |-> chances, next |-> next,
   reward |-> reward]
NoGain(fr) == [r \in Rows(fr) |-> Zero]
PlusVector(v, w) == [r \in DOMAIN v |-> Add(v[r], w[r])]
TimesVector(p, v) == [r \in DOMAIN v |-> Multiply(p, v[r])]

(* combine_cpts and the sum of the rewards.                                *)
Combine(n1, n2) ==
  Network(n1.sets \cup n2.sets, n1.clears \cup n2.clears,
          n1.chances \o n2.chances, n2.next, PlusVector(n1.reward, n2.reward))

(* The columns in which the variables low .. high - 1 number outcome i.    *)
Encoding(fr, low, high, i) ==
  {c \in Columns(fr) :
     \A b \in low .. high - 1 :
       (DdLevel(fr, b) \in c) <=> ((i - 1) \div 2 ^ (high - 1 - b)) % 2 = 1}

(* The probability that the columns of outcome i have.                     *)
ChoiceProbability(e, i) ==
  IF i > Len(e.effects) THEN PRest(e) ELSE Probability(e, i)
Chances(fr, e, low, high) ==
  [c \in Columns(fr) |->
     LET I == {i \in 1 .. OutcomeCount(e) : c \in Encoding(fr, low, high, i)}
     IN  IF I = {} THEN Zero ELSE ChoiceProbability(e, CHOOSE i \in I : TRUE)]

(* The factor for the reward of outcome i: for the last one what the
   probabilities leave, if they leave any. *)
RewardFactor(e, i) ==
  IF i = Len(e.effects) /\ Less(Zero, PRest(e)) THEN PRest(e)
  ELSE Probability(e, i)

(* The value of an update of the reward.                                   *)
UpdateReward(u) == AffectUpdate(u.fluent :> Zero, u)

RECURSIVE EffectDbn(_, _, _, _, _, _)
EffectDbn(fr, rewards, next, condition, points, e) ==
  LET empty == Network({}, {}, <<>>, next, NoGain(fr))
  IN
  CASE condition = {} \/ e = Empty -> empty
    [] condition # {} /\ e.kind = "update" ->
         IF ~rewards \/ e.fluent # Reward THEN Throws
         ELSE Then(UpdateReward(e), LAMBDA v :
                [empty EXCEPT !.reward =
                   [r \in Rows(fr) |->
                      IF r \in condition THEN v.value[Reward] ELSE Zero]])
    [] condition # {} /\ e.kind = "add" ->
         [empty EXCEPT !.sets = {e.atom} \X points]
    [] condition # {} /\ e.kind = "delete" ->
         [empty EXCEPT !.clears = {e.atom} \X points]
    [] condition # {} /\ e.kind = "and" ->
         FoldLeft(LAMBDA net, c : Then(net, LAMBDA n :
                    Then(EffectDbn(fr, rewards, n.next, condition, points, c),
                         LAMBDA m : Combine(n, m))),
                  empty, e.conjuncts)
    [] condition # {} /\ e.kind = "when" ->
         IF Unexpected(e.condition) THEN Throws
         ELSE LET f == FormulaBdd(fr, e.condition)
              IN  EffectDbn(fr, rewards, next, condition \cap f,
                            {pt \in points : pt[1] \in f}, e.effect)
    [] condition # {} /\ e.kind = "probabilistic" ->
         LET high == next + ceil_log2(OutcomeCount(e))
             outcome(n, i) ==
               EffectDbn(fr, rewards, n.next, condition,
                         {pt \in points : pt[2] \in Encoding(fr, next, high, i)},
                         e.effects[i])
         IN  FoldLeft(LAMBDA net, i : Then(net, LAMBDA n :
                        Then(outcome(n, i), LAMBDA m :
                          Combine(n, [m EXCEPT !.reward =
                                        TimesVector(RewardFactor(e, i), @)]))),
                      [empty EXCEPT !.chances = <<Chances(fr, e, next, high)>>,
                                    !.next = high],
                      [i \in DOMAIN e.effects |-> i])
    [] OTHER -> Throws

-----------------------------------------------------------------------------
(* action_dbn: the points after which an atom is true.  Nothing may both set
   and clear it, not even in states that no round reaches. *)
Inconsistent(net) == net.sets \cap net.clears # {}

AfterForgetful(fr, net, a, pt) == <<a, pt>> \in net.sets
After(fr, net, a, pt) ==
  \/ <<a, pt>> \in net.sets
  \/ LevelOf(fr, a) \in pt[1] /\ <<a, pt>> \notin net.clears

ActionDbn(fr, rewards, a) ==
  Then(Then(a.effect, LAMBDA e :
              EffectDbn(fr, rewards, Len(fr.vars), Rows(fr), Points(fr), e)),
       LAMBDA n : IF Inconsistent(n) THEN Throws ELSE n)

(* The transition matrix of an action, row by row: the product of the tables
   of all variables, summed over the auxiliary ones. *)
TransitionMatrix(fr, net) ==
  LET aux == AuxLevels(fr, net.next)
      product(r, c) ==
        IF \A i \in DOMAIN fr.vars :
             (DdLevel(fr, i - 1) \in c) <=> After(fr, net, fr.vars[i], <<r, c>>)
          THEN FoldLeft(LAMBDA p, t : Multiply(p, t[c]), Unit, net.chances)
          ELSE Zero
  IN  [r \in Rows(fr) |-> [c \in Rows(fr) |->
         FoldSet(LAMBDA x, p : Add(p, product(r, (c \ aux) \cup x)), Zero,
                 SUBSET aux)]]

(* Cudd_addMatrixMultiply with a vector, at one row.                       *)
Times(line, v) ==
  FoldSet(LAMBDA c, p : Add(p, Multiply(line[c], v[c])), Zero,
          {c \in DOMAIN line : line[c] # Zero /\ v[c] # Zero})

(* The reward for an action, with what is expected for reaching a goal.    *)
RewardVectorEarly(fr, net, matrix, goal, reward) ==
  [r \in Rows(fr) |-> IF r \in goal THEN Add(net.reward[r], reward) ELSE net.reward[r]]
RewardVector(fr, net, matrix, goal, reward) ==
  LET gain == [r \in Rows(fr) |-> IF r \in goal THEN reward ELSE Zero]
  IN  [r \in Rows(fr) |-> Add(net.reward[r], Times(matrix[r], gain))]

-----------------------------------------------------------------------------
(* solve_problem up to value iteration.  p is the problem as it was parsed,
   inst its instance. *)
HasReward(p) == \E i \in DOMAIN p.init_effects : p.init_effects[i] = Assign(Reward, Zero)

PlannersGoalReward(p, inst) ==
  CASE ~HasReward(p) -> Value(Unit)
    [] HasReward(p) /\ inst.goal_reward = NoReward -> Value(Zero)
    [] OTHER -> Then(UpdateReward(inst.goal_reward),
                     LAMBDA v : Value(v.value[inst.goal_reward.fluent]))

InstGoal(p) == Instantiation(p.goal, NoSubstitution, InitialState(p), FALSE)

Refused(p, actions) ==
  \/ Unexpected(InstGoal(p))
  \/ \E e \in {a.effect : a \in actions} \cup Range(p.init_effects) :
       Numeric(e, HasReward(p))

(* The actions come in the order of their addresses: any.                  *)
StateVariables(p, actions) ==
  FoldLeft(CollectEffect,
           FoldLeft(LAMBDA v, a : CollectEffect(v, a.effect),
                    CollectFormula(<<>>, InstGoal(p)), actions),
           p.init_effects)

(* The rows whose values count for an action; those without a goal alone.  *)
FilterUntested(fr, a, goal) == Rows(fr) \ goal
Filter(fr, a, goal) == FormulaBdd(fr, a.precondition) \ goal

(* The model of a problem that value iteration works on, or Throws.        *)
Rated(fr, actions, goal, reward, net, matrix) ==
  [rows |-> Rows(fr), goal |-> goal, matrix |-> matrix,
   filter |-> [i \in DOMAIN actions |-> Filter(fr, actions[i], goal)],
   reward |-> [i \in DOMAIN actions |->
                 RewardVector(fr, net[i], matrix[i], goal, reward)]]
Model(fr, actions, goal, reward, net) ==
  IF \E i \in DOMAIN actions : net[i] = Throws \/ Unexpected(actions[i].precondition)
    THEN Throws
    ELSE Rated(fr, actions, goal, reward, net,
               [i \in DOMAIN actions |-> TransitionMatrix(fr, net[i])])
Convert(p, inst, actions, fr) ==
  Then(PlannersGoalReward(p, inst), LAMBDA reward :
         Model(fr, actions, FormulaBdd(fr, InstGoal(p)), reward.value,
               [i \in DOMAIN actions |-> ActionDbn(fr, HasReward(p), actions[i])]))

-----------------------------------------------------------------------------
(* One round of value_iteration: the best value of each row and the action
   that has it, 0 for none; only what is better replaces it. *)
ActionValueUndiscounted(mdp, gamma, i, v, r) ==
  Add(mdp.reward[i][r], Times(mdp.matrix[i][r], v))
ActionValue(mdp, gamma, i, v, r) ==
  Add(mdp.reward[i][r], Multiply(gamma, Times(mdp.matrix[i][r], v)))

BackupGreedy(mdp, gamma, v) ==
  [r \in mdp.rows |->
     FoldLeft(LAMBDA best, i :
                LET q == ActionValue(mdp, gamma, i, v, r)
                IN  IF r \in mdp.filter[i] /\ Less(Zero, q)
                      THEN [value |-> q, action |-> i] ELSE best,
              [value |-> Zero, action |-> 0], [i \in DOMAIN mdp.reward |-> i])]
Backup(mdp, gamma, v) ==
  [r \in mdp.rows |->
     FoldLeft(LAMBDA best, i :
                LET q == ActionValue(mdp, gamma, i, v, r)
                IN  IF r \in mdp.filter[i] /\ Less(best.value, q)
                      THEN [value |-> q, action |-> i] ELSE best,
              [value |-> Zero, action |-> 0], [i \in DOMAIN mdp.reward |-> i])]

(* Cudd_EqualSupNorm: no two values differ by more.                        *)
Distance(q, p) == IF Less(q, p) THEN Subtract(p, q) ELSE Subtract(q, p)
EqualSupNorm(v, w, tolerance) ==
  \A r \in DOMAIN v : LessOrEqual(Distance(v[r], w[r]), tolerance)

Tolerance(gamma, epsilon) ==
  Divide(Multiply(epsilon, Subtract(Unit, gamma)), Multiply(Make(2, 1), gamma))
=============================================================================
