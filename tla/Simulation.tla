----------------------------- MODULE Simulation -----------------------------
(***************************************************************************)
(* The simulation of a problem: turn by turn an action is chosen among     *)
(* those that are enabled, in the state itself (mdpsim without a port), or *)
(* by a client in the state that it was sent (mdpclient); the server tests *)
(* what the client has chosen.  Rounds, clocks and messages are in the     *)
(* modules Session and Protocol.                                           *)
(***************************************************************************)
EXTENDS StateTransfer

CONSTANTS
  Problems,           (* problems as they were parsed                       *)
  TurnLimit           (* the turn limit                                     *)

VARIABLES
  problem,            (* the problem, as it was parsed                      *)
  instance,           (* and after its instantiation                        *)
  state,              (* the state of the round                             *)
  turn,               (* turns taken                                        *)
  status,             (* "loaded", "running", "over", "disabled", "thrown"  *)
  score               (* the metric at the end of the round                 *)

vars == <<problem, instance, state, turn, status, score>>

NoState == [atoms |-> {}, values |-> [f \in {} |-> Zero], goal |-> FALSE]

(* The problems after their instantiation.                                 *)
Instantiated == [p \in Problems |-> Instantiate(p)]

Init ==
  /\ problem \in Problems
  /\ instance = Instantiated[problem]
  /\ state = NoState
  /\ turn = 0
  /\ status = IF instance = Throws THEN "thrown" ELSE "loaded"
  /\ score = Zero

(* A sampled state, or an exception that ends the program.                 *)
Becomes(s) ==
  IF s = Throws THEN status' = "thrown" /\ UNCHANGED state
  ELSE status' = "running" /\ state' = s

(* The initial state of a round is sampled.                                *)
Begin ==
  /\ status = "loaded"
  /\ \E s \in InitialStates(instance, InitialState(problem)) : Becomes(s)
  /\ UNCHANGED <<problem, instance, turn, score>>

Take(a) ==
  /\ \E s \in NextStates(instance, state, a) : Becomes(s)
  /\ turn' = turn + 1
  /\ UNCHANGED <<problem, instance, score>>

Score(how, v) ==
  IF v = Throws THEN status' = "thrown" /\ UNCHANGED score
  ELSE status' = how /\ score' = v.value
End(how) ==
  /\ Score(how, ValueOf(instance.metric, state.values))
  /\ UNCHANGED <<problem, instance, state, turn>>

Playing == status = "running" /\ turn < TurnLimit /\ ~state.goal

(* A test of a precondition throws.                                        *)
Failing(s) == \E a \in instance.actions : Holds(a.precondition, s) = "throws"

Fail == status' = "thrown" /\ UNCHANGED <<problem, instance, state, turn, score>>

(* A turn of whoever sees the state as s.  Nothing may be enabled, and what
   is enabled in s is tested in the state itself. *)
Choose(actions) ==
  \/ actions = {} /\ End("over")
  \/ \E a \in actions : IF Enabled(a, state) THEN Take(a) ELSE End("disabled")
Turn(s) ==
  IF Failing(s) THEN Fail ELSE Choose(EnabledActions(instance.actions, s))

(* mdpsim without a port chooses in the state itself, a client in the state
   as it was sent. *)
LocalTurn == Playing /\ Turn(state)
RemoteTurn == Playing /\ Turn(View(state))

(* The goal is reached, or no turn is left.                                *)
Finish ==
  /\ status = "running" /\ ~Playing
  /\ End("over")

Next == Begin \/ LocalTurn \/ RemoteTurn \/ Finish
Spec == Init /\ [][Next]_vars
=============================================================================
