------------------------------ MODULE Domains ------------------------------
(***************************************************************************)
(* Definitions of domains and problems as they follow one another in the   *)
(* files the program reads (parser.yy, domains.cc, problems.cc,            *)
(* functions.cc): which functions are static, whose values instantiation   *)
(* puts in for good at the end of each problem, and the function reward,   *)
(* which the requirement :rewards declares and every problem scores with.  *)
(* Functions here have no parameters.                                      *)
(***************************************************************************)
EXTENDS Naturals, Sequences

CONSTANTS
  DomainNames, ProblemNames,
  Ordinary,       (* names of functions that are not reserved               *)
  Repeats,        (* whether a domain's name is defined again               *)
  MaxDomains, MaxProblems, MaxFunctions   (* bounds                         *)

VARIABLES
  stage,           (* of the text, or "threw"                                *)
  domains,        (* the domains constructed so far                         *)
  problems,       (* the problems constructed so far                        *)
  domain,         (* the current domain, as its place in domains            *)
  size,           (* FunctionTable::names_.size()                           *)
  static_functions_,
  reward_function,
  correct         (* success: no error was reported                         *)

domainVars == <<stage, domains, problems, domain, size, static_functions_,
          reward_function, correct>>

NoFunction == 0
Names == Ordinary \cup {"reward"}
Reserved == {"total-time", "goal-achieved"}
Problem == problems[Len(problems)]
Current == domains[domain]

DomainInit ==
  /\ stage = "file" /\ domains = <<>> /\ problems = <<>> /\ domain = NoFunction
  /\ size = 0 /\ static_functions_ = {} /\ reward_function = NoFunction
  /\ correct = TRUE

(* Domain::Domain: a domain of the same name is deleted; the functions that
   every domain has are dynamic. *)
NewDomain(name) ==
  [name |-> name, alive |-> TRUE, rewards |-> FALSE,
   table |-> [f \in Reserved |-> IF f = "total-time" THEN size + 1 ELSE size + 2],
   updates |-> {}, reads |-> {}]
WithoutNamed(list, name) ==
  [i \in DOMAIN list |-> [list[i] EXCEPT !.alive = @ /\ list[i].name # name]]
MakeDomain(name) ==
  /\ stage = "file" /\ Len(domains) < MaxDomains
  /\ Repeats \/ \A i \in DOMAIN domains : domains[i].name # name
  /\ domains' = Append(WithoutNamed(domains, name), NewDomain(name))
  /\ domain' = Len(domains) + 1
  /\ size' = size + 2
  /\ stage' = "domain"
  /\ UNCHANGED <<problems, static_functions_, reward_function, correct>>

(* FunctionTable::add_function.  A name that is there keeps its function,
   which becomes static again. *)
Added(name) == IF name \in DOMAIN Current.table THEN Current.table[name] ELSE size + 1
WithFunction(name) ==
  [Current EXCEPT !.table =
     [f \in DOMAIN @ \cup {name} |-> IF f \in DOMAIN @ THEN @[f] ELSE size + 1]]
AddFunction(name) ==
  /\ size < MaxFunctions
  /\ size' = size + 1
  /\ static_functions_' = static_functions_ \cup {Added(name)}

(* The requirement :rewards or :mdp, of a domain or of a problem.          *)
RequireRewards ==
  /\ stage \in {"domain", "problem"}
  /\ AddFunction("reward")
  /\ reward_function' = Added("reward")
  /\ IF stage = "domain"
       THEN /\ domains' = [domains EXCEPT ![domain] =
                             [WithFunction("reward") EXCEPT !.rewards = TRUE]]
            /\ UNCHANGED problems
       ELSE /\ domains' = [domains EXCEPT ![domain] = WithFunction("reward")]
            /\ problems' = [problems EXCEPT ![Len(problems)].rewards = TRUE]
  /\ UNCHANGED <<stage, domain, correct>>

(* make_function: repeated declarations are ignored.                       *)
DeclareFunction(name) ==
  /\ stage \in {"domain", "functions"} /\ name \notin DOMAIN Current.table
  /\ AddFunction(name)
  /\ domains' = [domains EXCEPT ![domain] = WithFunction(name)]
  /\ stage' = "functions"
  /\ UNCHANGED <<problems, domain, reward_function, correct>>

-----------------------------------------------------------------------------
Requirements == IF stage \in {"problem", "init"} THEN Problem.rewards ELSE Current.rewards

(* prepare_fluent: where reserved functions may be named.                  *)
Allowed(name, effect_fluent, metric_fluent) ==
  IF Requirements /\ name = "reward" THEN effect_fluent \/ metric_fluent
  ELSE name \in Reserved => metric_fluent

(* prepare_fluent: a function that was not declared is added.              *)
FindOrAdd(name) ==
  IF name \in DOMAIN Current.table
    THEN UNCHANGED <<size, static_functions_>>
    ELSE AddFunction(name)

(* A fluent in a precondition.                                             *)
Condition(name) ==
  /\ stage \in {"domain", "functions", "actions"}
  /\ FindOrAdd(name)
  /\ correct' = (correct /\ Allowed(name, FALSE, FALSE))
  /\ domains' = [domains EXCEPT ![domain] =
                   [WithFunction(name) EXCEPT !.reads = @ \cup {Added(name)}]]
  /\ stage' = "actions"
  /\ UNCHANGED <<problems, domain, reward_function>>

(* make_assign_effect and make_increase_effect, and their like, with a number
   as operand.  The function becomes dynamic. *)
IncreaseOrAssign(kind, name) ==
  IF Requirements /\ Added(name) = reward_function THEN kind = "increase" ELSE TRUE

(* The function stays what it is.                                          *)
UpdateLeftStatic(kind, name) ==
  /\ stage \in {"domain", "functions", "actions"}
  /\ size < MaxFunctions
  /\ FindOrAdd(name)
  /\ correct' = (correct /\ Allowed(name, TRUE, FALSE) /\ IncreaseOrAssign(kind, name))
  /\ domains' = [domains EXCEPT ![domain] =
                   [WithFunction(name) EXCEPT !.updates = @ \cup {Added(name)}]]
  /\ stage' = "actions"
  /\ UNCHANGED <<problems, domain, reward_function>>

Update(kind, name) ==
  /\ stage \in {"domain", "functions", "actions"}
  /\ size < MaxFunctions
  /\ static_functions_' = static_functions_ \ {Added(name)}
  /\ size' = IF name \in DOMAIN Current.table THEN size ELSE size + 1
  /\ correct' = (correct /\ Allowed(name, TRUE, FALSE) /\ IncreaseOrAssign(kind, name))
  /\ domains' = [domains EXCEPT ![domain] =
                   [WithFunction(name) EXCEPT !.updates = @ \cup {Added(name)}]]
  /\ stage' = "actions"
  /\ UNCHANGED <<problems, domain, reward_function>>

EndDomain ==
  /\ stage \in {"domain", "functions", "actions"}
  /\ stage' = "file"
  /\ UNCHANGED <<domains, problems, domain, size, static_functions_,
                 reward_function, correct>>

-----------------------------------------------------------------------------
Registered(name) == {i \in DOMAIN domains : domains[i].alive /\ domains[i].name = name}

(* The total time and the achieved goal start at zero, and so does the reward
   if the domain requires rewards.  A problem of the same name is deleted. *)
NewProblem(name, d, rewards, table) ==
  [name |-> name, alive |-> TRUE, domain |-> d, rewards |-> rewards,
   initialised |-> {table["total-time"], table["goal-achieved"]}
                     \cup (IF rewards THEN {table["reward"]} ELSE {}),
   values |-> {}, effects |-> {}, metric |-> NoFunction, goal_reward |-> NoFunction,
   resolved |-> {}, ready |-> FALSE]

(* The reward function stays that of the domain defined last.              *)
MakeProblemWithOldReward(name, d) ==
  /\ stage = "file" /\ Len(problems) < MaxProblems /\ d \in DOMAIN domains
  /\ domains[d].alive
  /\ domain' = d
  /\ problems' = Append(WithoutNamed(problems, name),
                        NewProblem(name, d, domains[d].rewards, domains[d].table))
  /\ stage' = "problem"
  /\ UNCHANGED <<domains, size, static_functions_, reward_function, correct>>

MakeProblem(name, d) ==
  /\ stage = "file" /\ Len(problems) < MaxProblems /\ d \in DOMAIN domains
  /\ domains[d].alive
  /\ domain' = d
  /\ problems' = Append(WithoutNamed(problems, name),
                        NewProblem(name, d, domains[d].rewards, domains[d].table))
  /\ reward_function' = IF domains[d].rewards THEN domains[d].table["reward"]
                        ELSE reward_function
  /\ stage' = "problem"
  /\ UNCHANGED <<domains, size, static_functions_, correct>>

(* A problem of a domain that is not known gets an empty domain, and an error
   is reported. *)
MakeProblemWithoutDomain(name, dname) ==
  /\ stage = "file" /\ Len(problems) < MaxProblems /\ Len(domains) < MaxDomains
  /\ Registered(dname) = {}
  /\ domains' = Append(domains, NewDomain(dname))
  /\ domain' = Len(domains) + 1
  /\ size' = size + 2
  /\ problems' = Append(WithoutNamed(problems, name),
                        NewProblem(name, Len(domains) + 1, FALSE, NewDomain(dname).table))
  /\ correct' = FALSE
  /\ stage' = "problem"
  /\ UNCHANGED <<static_functions_, reward_function>>

(* A value in the initial state.                                           *)
InitValue(name) ==
  /\ stage \in {"problem", "init"}
  /\ FindOrAdd(name)
  /\ correct' = (correct /\ Allowed(name, FALSE, FALSE))
  /\ domains' = [domains EXCEPT ![domain] = WithFunction(name)]
  /\ problems' = [problems EXCEPT ![Len(problems)].values = @ \cup {Added(name)}]
  /\ stage' = "init"
  /\ UNCHANGED <<domain, reward_function>>

(* A value in a probabilistic initial effect.                              *)
InitEffect(name) ==
  /\ stage \in {"problem", "init"}
  /\ size < MaxFunctions
  /\ static_functions_' = static_functions_ \ {Added(name)}
  /\ size' = IF name \in DOMAIN Current.table THEN size ELSE size + 1
  /\ correct' = (correct /\ Allowed(name, FALSE, FALSE) /\ IncreaseOrAssign("assign", name))
  /\ domains' = [domains EXCEPT ![domain] = WithFunction(name)]
  /\ problems' = [problems EXCEPT ![Len(problems)].effects = @ \cup {Added(name)}]
  /\ stage' = "init"
  /\ UNCHANGED <<domain, reward_function>>

(* set_goal_reward and set_default_metric; what the metric is, by name.    *)
MetricNames == Reserved \cup {"reward"}
Metric(name) ==
  IF name # "default" THEN Current.table[name]
  ELSE IF Problem.rewards THEN reward_function
  ELSE Current.table["goal-achieved"]

(* Problem::instantiate: static functions are replaced by their values; a
   static function without a value is an exception, which ends the program. *)
Used(name) == Current.reads \cup {Metric(name)}
EndProblem(name, goal_reward) ==
  /\ stage \in {"problem", "init"}
  /\ name = "default" \/ name \in DOMAIN Current.table
  /\ goal_reward => Problem.rewards
  /\ static_functions_' =
       IF goal_reward THEN static_functions_ \ {reward_function} ELSE static_functions_
  /\ problems' =
       [problems EXCEPT ![Len(problems)] =
          [@ EXCEPT !.metric = Metric(name),
                    !.goal_reward = IF goal_reward THEN reward_function ELSE NoFunction,
                    !.resolved = Used(name) \cap static_functions_',
                    !.ready = TRUE]]
  /\ stage' = IF Used(name) \cap static_functions_' \subseteq Problem.values
               THEN "file" ELSE "threw"
  /\ UNCHANGED <<domains, domain, size, reward_function, correct>>

DomainNext ==
  \/ \E name \in DomainNames : MakeDomain(name)
  \/ RequireRewards \/ EndDomain
  \/ \E name \in Names :
       DeclareFunction(name) \/ Condition(name) \/ InitValue(name) \/ InitEffect(name)
  \/ \E name \in Names, kind \in {"increase", "assign"} : Update(kind, name)
  \/ \E name \in ProblemNames :
       \/ \E d \in 1 .. MaxDomains : MakeProblem(name, d)
       \/ \E dname \in DomainNames : MakeProblemWithoutDomain(name, dname)
  \/ \E name \in MetricNames \cup {"default"}, goal_reward \in BOOLEAN :
       EndProblem(name, goal_reward)

DomainSpec == DomainInit /\ [][DomainNext]_domainVars

-----------------------------------------------------------------------------
Accepted == {i \in DOMAIN problems : correct /\ stage # "threw" /\ problems[i].ready
                                     /\ problems[i].alive}

(* A problem that requires :rewards when its domain does not makes the      *)
(* domain's function reward static, whatever its actions do to it.          *)
RequiresAlone(j) == problems[j].rewards /\ ~domains[problems[j].domain].rewards

MadeStatic(i) ==
  IF \E j \in 1 .. i - 1 : problems[j].domain = problems[i].domain /\ RequiresAlone(j)
  THEN {domains[problems[i].domain].table["reward"]} ELSE {}

(* What instantiation has put a value in for is changed by no action of the
   problem's domain and by no initial effect of the problem: a function is
   made dynamic before any problem that could miss it is instantiated, and
   a requirement that makes reward static again does no harm, except that of
   an earlier problem alone, and that to this one function only. *)
ResolvedStays ==
  \A i \in Accepted :
    problems[i].resolved \cap (domains[problems[i].domain].updates \cup problems[i].effects)
      \subseteq MadeStatic(i)

(* In a domain that requires rewards, what actions change by the name reward,
   what the goal adds to, what starts at zero and what the problem is scored
   by unless it says otherwise are one function, whatever other domains and
   problems were read before. *)
RewardIsOne ==
  \A i \in Accepted :
    domains[problems[i].domain].rewards =>
      LET reward == domains[problems[i].domain].table["reward"]
      IN  /\ reward \in problems[i].initialised
          /\ problems[i].goal_reward \in {NoFunction, reward}
          /\ problems[i].metric # reward
               => problems[i].metric \in problems[i].initialised

(* What later definitions and files must leave as it is: the functions that a
   problem has resolved stay static (instantiate reads the flags once), and a
   domain has one reward, which starts with a value. *)
ProblemsStand == ResolvedStays /\ RewardIsOne

(* problems.h:69, "Returns the domain of this problem": it still exists.   *)
DomainIsThere == \A i \in Accepted : domains[problems[i].domain].alive

(* parser.yy:1575, "goal reward only allowed with the `:rewards'
   requirement": with it, the reward has a value to add to. *)
GoalRewardHasBase ==
  \A i \in Accepted :
    problems[i].goal_reward # NoFunction =>
      problems[i].goal_reward \in problems[i].initialised \cup problems[i].values

(* A domain and a problem without an error can be used.                    *)
AcceptedIsUsable == correct => stage # "threw"
=============================================================================
