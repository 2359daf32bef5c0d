--------------------------- MODULE StateTransfer ---------------------------
(***************************************************************************)
(* How a client learns the state: State::printXML (states.cc) and getState *)
(* (client.cc).  The static atoms and fluents are not sent, nor are the    *)
(* time and the achievement of the goal.  The client finds the predicates, *)
(* functions and objects by their names in its own copy of the problem, so *)
(* that they are the same here; values go through their text.              *)
(***************************************************************************)
EXTENDS Actions

PrintedTruncated(s) ==
  [is_goal |-> s.goal,
   atoms |-> {a \in s.atoms : a.predicate \notin StaticPredicates},
   fluents |-> [f \in {g \in DOMAIN s.values : g.function \notin StaticFunctions}
                  \ {TotalTime, GoalAchieved} |-> WriteTruncated(s.values[f])]]

Printed(s) ==
  [is_goal |-> s.goal,
   atoms |-> {a \in s.atoms : a.predicate \notin StaticPredicates},
   fluents |-> [f \in {g \in DOMAIN s.values : g.function \notin StaticFunctions}
                  \ {TotalTime, GoalAchieved} |-> Write(s.values[f])]]

GetState(message) ==
  [atoms |-> message.atoms,
   values |-> [f \in DOMAIN message.fluents |-> Parse(message.fluents[f])]]

View(s) == GetState(Printed(s))
=============================================================================
