---------------------------- MODULE MCInstances ----------------------------
(***************************************************************************)
(* Two families of problems.  The ones that are only instantiated have     *)
(* schemata with up to three parameters over lists of up to three objects, *)
(* some of them empty, and preconditions that rule out objects early,      *)
(* late, or by combination.  The ones that are played have quantifiers in  *)
(* conditions, effects and goals.  A variable is a number and the list of  *)
(* the objects it ranges over.                                             *)
(***************************************************************************)
EXTENDS Instances

CONSTANTS a, b, c

MCObjects == {a, b, c}
ObjectLists == {<<>>, <<b>>, <<a, c>>, <<a, b, c>>}
MCVariables == (1 .. 3) \X (ObjectLists \cup {<<c, a>>})
MCCompatible == [v \in MCVariables |-> v[2]]
MCStaticPredicates == {"first", "second", "third", "differ", "never", "road"}
MCStaticFunctions == {}

(* What a precondition may exclude: an object for a parameter, or the same
   object for two. *)
Rules == {"nothing", "first", "second", "third", "equal", "everything"}
At(t) == Atom("at", <<t>>)
Pairs(vs) == UNION {{<<vs[j], vs[k]>> : k \in j + 1 .. Len(vs)} : j \in DOMAIN vs}
AllOf(fs) == FoldSet(LAMBDA f, acc : And(f, acc), True, fs)
Unary(rule, vs, k) == IF Len(vs) < k THEN True ELSE Atom(rule, <<vs[k]>>)
RuleFor(rule, vs) ==
  CASE rule = "nothing" -> IF vs = <<>> THEN True ELSE At(vs[1])
    [] rule = "first" -> Unary(rule, vs, 1)
    [] rule = "second" -> Unary(rule, vs, 2)
    [] rule = "third" -> Unary(rule, vs, 3)
    [] rule = "equal" -> AllOf({Atom("differ", p) : p \in Pairs(vs)})
    [] rule = "everything" -> Atom("never", <<>>)

Facts ==
  {Atom("first", <<o>>) : o \in {b, c}} \cup {Atom("second", <<o>>) : o \in {a, b}}
    \cup {Atom("third", <<o>>) : o \in {a, c}}
    \cup {Atom("differ", <<o, p>>) : <<o, p>> \in {q \in MCObjects \X MCObjects : q[1] # q[2]}}

ProblemWith(params, precondition, effect, init, goal) ==
  [init_atoms |-> init, init_values |-> NoValues, init_effects |-> <<>>,
   goal |-> goal, goal_reward |-> NoReward, metric |-> Value(Zero),
   schemata |-> {Schema("act", params, precondition, effect)}]

Looped(lists, rules) ==
  LET vs == [k \in DOMAIN lists |-> <<k, lists[k]>>]
  IN  ProblemWith(vs, AllOf({RuleFor(r, vs) : r \in rules}),
                  IF vs = <<>> THEN Empty ELSE DeleteEffect(At(vs[1])), Facts, False)
LoopedProblems ==
  UNION {{Looped(ls, rs) : <<ls, rs>> \in [1 .. n -> ObjectLists] \X (SUBSET Rules \ {{}})} :
           n \in 0 .. 2}
    \cup {Looped(ls, {r}) : <<ls, r>> \in [1 .. 3 -> ObjectLists \ {<<>>}] \X Rules}

x == <<1, <<a, c>>>>
z == <<2, <<a, c>>>>
w == <<3, <<c, a>>>>
Wet(t) == Atom("wet", <<t>>)
Link(t, u) == Atom("link", <<t, u>>)
Road(t, u) == Atom("road", <<t, u>>)
OrNot(S) == S \cup {MakeNegation(f) : f \in S}

(* What may be said of every z, or of some, or of every z and w, if it depends
   on them; t is what it may also be about. *)
Joins(S) == S \cup {And(p[1], p[2]) : p \in S \X S} \cup {Or(p[1], p[2]) : p \in S \X S}
Conditions(t) ==
  {MakeQuantified(q, <<z>>, f) :
     q \in {"exists", "forall"}, f \in Joins(OrNot({At(z), Wet(z), Road(t, z)}))}
    \cup {MakeQuantified(q, <<z, w>>, f) :
            q \in {"exists", "forall"}, f \in Joins({Link(z, w), MakeNegation(Road(z, w))})}

Spread(t) ==
  MakeForall(<<z>>, MakeConditional(And(At(z), MakeNegation(Wet(z))),
                                    Both(DeleteEffect(At(z)), AddEffect(Link(t, z)))))
Roads == {Road(a, c), Road(c, a), Road(c, c)}
Start == Roads \cup {At(a), At(c), Link(c, a)}

(* A condition of an action, of an effect, and of a goal.                  *)
PlayedProblems ==
  {ProblemWith(<<x>>, f, Both(AddEffect(Wet(x)), Spread(x)), Start,
               MakeQuantified("forall", <<z>>, Wet(z))) : f \in Conditions(x)}
    \cup {ProblemWith(<<x>>, And(At(x), MakeNegation(Wet(x))),
                      Both(MakeConditional(f, Spread(a)), AddEffect(Wet(x))), Start,
                      MakeQuantified("exists", <<z>>, Or(Link(a, z), Wet(z)))) : f \in Conditions(x)}
    \cup {ProblemWith(<<x>>, Or(Wet(x), Road(x, a)), Both(Spread(x), DeleteEffect(Wet(c))),
                      Start, f) : f \in Conditions(a)}

(* What is left of the quantified condition does not depend on z, and nobody
   but the loop over z holds it. *)
LeavingProblems ==
  {ProblemWith(<<x>>, MakeQuantified("exists", <<z>>, And(Wet(x), Road(x, z))),
               DeleteEffect(At(x)), Start, False)}

MCProblems == LoopedProblems \cup PlayedProblems
MCTurnLimit(p) == IF p \in LoopedProblems THEN 0 ELSE 2
=============================================================================
