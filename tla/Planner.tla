------------------------------ MODULE Planner ------------------------------
(***************************************************************************)
(* The planner of mtbddclient (mtbdd.cc): it converts a problem, finds a   *)
(* policy by value iteration before the first round, and from then on      *)
(* looks up its actions, which the server tests like anybody's.  Without a *)
(* port the program plans for one problem after the other and plays none.  *)
(*                                                                         *)
(* Planning reads nothing of the round, so that it is done here before the *)
(* round begins.                                                           *)
(***************************************************************************)
EXTENDS Mtbdd, Simulation

CONSTANTS
  Gamma,              (* the discount factor                                *)
  Epsilon,            (* the error tolerance                                *)
  Processes           (* the problems a process has, each a sequence        *)

ASSUME PlannerAssumption ==
  /\ Less(Zero, Epsilon)
  /\ Less(Zero, Gamma) /\ Less(Gamma, Unit)

VARIABLES
  later,              (* the problems still to be solved, with instances    *)
  phase,              (* "idle", "iterating", "planned", "thrown", "undefined" *)
  frame,              (* state_variables, aux_vars and var_order            *)
  ordering,           (* the actions in the order of their addresses        *)
  mdp,                (* matrices, rewards and filters while they are kept  *)
  V,                  (* the value function                                 *)
  iters,              (* rounds of value iteration                          *)
  mapping             (* the policy: for a row the number of an action, or 0 *)

plan == <<later, phase, frame, ordering, mdp, V, iters, mapping>>
pvars == <<vars, plan>>

NoMdp == [rows |-> {}, goal |-> {}, filter |-> <<>>, matrix |-> <<>>, reward |-> <<>>]
NoValues == [r \in {} |-> Zero]
NoMapping == [r \in {} |-> 0]

(* All problems are instantiated when they are read.                       *)
PInit ==
  /\ Init
  /\ \E q \in Processes :
       /\ problem = Head(q)
       /\ later = [i \in 1 .. Len(q) - 1 |->
                     [problem |-> q[i + 1], instance |-> Instantiated[q[i + 1]]]]
  /\ phase = "idle"
  /\ frame = Frame(<<>>, 0, <<>>)
  /\ ordering = <<>>
  /\ mdp = NoMdp /\ V = NoValues /\ iters = 0 /\ mapping = NoMapping

(* A level beyond the tables of permutations, which have 2 * nvars entries. *)
OutOfRange(fr) == \E i \in 0 .. NVars(fr) - 1 : DdLevel(fr, i) >= NVars(fr)

Abandon(how) ==
  /\ phase' = how
  /\ UNCHANGED <<frame, mdp, V>>

(* initRound, up to value iteration, for the actions in some order.        *)
Install(fr, conv) ==
  IF conv = Throws THEN Abandon("thrown")
  ELSE /\ phase' = "iterating" /\ frame' = fr /\ mdp' = conv
       /\ V' = [r \in conv.rows |-> Zero]
Arrange(acts, fr) ==
  IF OutOfRange(fr) THEN Abandon("undefined")
  ELSE Install(fr, Convert(problem, instance, acts, fr))
NewFrame(sv, aux) == Frame(sv, aux, PushOrder(frame.order, sv, aux))
Prepare(acts) ==
  /\ ordering' = acts
  /\ Arrange(acts, NewFrame(StateVariables(problem, acts), AuxVars(instance.actions)))

SolveProblem ==
  /\ phase = "idle" /\ status = "loaded"
  /\ IF Refused(problem, instance.actions)
       THEN Abandon("thrown") /\ UNCHANGED ordering
       ELSE \E acts \in SetToSeqs(instance.actions) : Prepare(acts)
  /\ iters' = 0 /\ mapping' = NoMapping
  /\ UNCHANGED <<vars, later>>

(* A round of value_iteration.  The policy is that of the last round, and the
   matrices go with it. *)
Stop(best) ==
  /\ phase' = "planned" /\ mdp' = NoMdp
  /\ mapping' = [r \in mdp.rows |-> best[r].action]
Step(best, next) ==
  /\ V' = next
  /\ IF EqualSupNorm(V, next, Tolerance(Gamma, Epsilon))
       THEN Stop(best) ELSE UNCHANGED <<phase, mdp, mapping>>
Iterate ==
  /\ phase = "iterating"
  /\ LET best == Backup(mdp, Gamma, V)
     IN  Step(best, [r \in mdp.rows |-> best[r].value])
  /\ iters' = iters + 1
  /\ UNCHANGED <<vars, later, frame, ordering>>

(* decideAction, for a state as the client has it.                         *)
Decision(s) == mapping[StateRow(frame, s.atoms)]

(* A turn of the planner: 0 means that the client gives up.                *)
Chosen(i) == IF i = 0 THEN {} ELSE {ordering[i]}
PolicyTurn ==
  /\ phase = "planned" /\ Playing
  /\ Choose(Chosen(Decision(View(state))))
  /\ UNCHANGED plan

(* Without a port, the next problem of the process.                        *)
NextProblem ==
  /\ phase = "planned" /\ status = "loaded" /\ later # <<>>
  /\ problem' = Head(later).problem /\ instance' = Head(later).instance
  /\ later' = Tail(later)
  /\ status' = IF instance' = Throws THEN "thrown" ELSE "loaded"
  /\ phase' = "idle" /\ mapping' = NoMapping /\ V' = NoValues
  /\ UNCHANGED <<state, turn, score, frame, ordering, mdp, iters>>

(* What happens without the planner, while it is not at work.              *)
Idle == phase # "iterating" /\ UNCHANGED plan

PNext ==
  \/ SolveProblem \/ Iterate \/ PolicyTurn \/ NextProblem
  \/ Begin /\ Idle
  \/ LocalTurn /\ Idle
  \/ RemoteTurn /\ Idle
  \/ Finish /\ Idle
PSpec == PInit /\ [][PNext]_pvars
=============================================================================
