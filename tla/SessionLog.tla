---------------------------- MODULE SessionLog -----------------------------
(***************************************************************************)
(* What the log file of a contestant shows of a session (module Session):  *)
(* the paths it records are executions of the planning problem, the time   *)
(* it accounts for adds up, and as a whole it is a Contest.                *)
(***************************************************************************)
EXTENDS Session, FiniteSets, FiniteSetsExt

Positions(type) == {i \in DOMAIN log : log[i].type = type}

(* The announcement of the round that the entry at position i belongs to.  *)
Opening(i) == CHOOSE j \in Positions("round-init") :
                /\ j < i
                /\ \A k \in Positions("round-init") : k < i => k <= j

ActionsIn(first, last) == Cardinality({k \in Positions("action") : first < k /\ k < last})

(***************************************************************************)
(* PathsReplay: with --log-paths, the states and actions of a round form   *)
(* an execution of the problem.  The first state is an initial one, every  *)
(* further state is a successor of the state before it under the enabled   *)
(* action between them, no state in which a turn is played is a goal, and  *)
(* the final state and the number of turns that end-round reports are      *)
(* those of the recorded path (host_problem, mdpserver.cc:316-407).  The   *)
(* one exception is a last action that was logged when it was read and not *)
(* executed because the time limit passed: it does not count as a turn.    *)
(***************************************************************************)
Follows(st, i) ==
  CASE log[i].type = "round-init" -> st \in InitStates
    [] log[i].type = "action"     -> st \in Succ[<<log[i-1].state, log[i].action>>]
    [] OTHER                      -> FALSE

Unexecuted(i, st) == log[i].type = "action" /\ st = log[i-1].state

PathsReplay ==
  log_paths =>
    /\ \A i \in Positions("state") :
         log[i].state \notin Goal /\ Follows(log[i].state, i - 1)
    /\ \A i \in Positions("action") :
         /\ log[i-1].type = "state"
         /\ <<log[i-1].state, log[i].action>> \in Enabled
    /\ \A i \in Positions("end-round") :
         LET st == log[i].state
             n  == ActionsIn(Opening(i), i)
         IN  \/ Follows(st, i - 1) /\ log[i].turns_used = n
             \/ Unexecuted(i - 1, st) /\ log[i].turns_used = n - 1
             \/ /\ log[i-1].type = "error"
                /\ log[i-2].type = "state" /\ st = log[i-2].state
                /\ log[i].turns_used = n
             \/ /\ log[i-1].type = "state" /\ st = log[i-1].state
                /\ log[i].turns_used = n

(***************************************************************************)
(* Ledger: the time a client is told it has left when a round opens is at  *)
(* most what it was told before any earlier round of the session, less the *)
(* time it was told that round took; and once it is told that nothing is   *)
(* left, no turn is played and no time is charged any more.                *)
(***************************************************************************)
Ledger ==
  \A i, j \in Positions("round-init") : \A k \in Positions("end-round") :
    /\ i < k /\ k < j /\ Opening(k) = i =>
         log[j].time_left <= Largest(0, log[i].time_left - log[k].time_spent)
    /\ i < k /\ log[i].time_left = 0 =>
         log[k].turns_used = 0 /\ log[k].time_spent = 0

(***************************************************************************)
(* ImplementsContest: the log file is a Contest.                           *)
(***************************************************************************)
Terms(e) == [time_limit |-> e.time, round_limit |-> e.rounds, turn_limit |-> e.turns]

Announced == {Terms(log[i]) : i \in Positions("session-init")}

Result(e) ==
  [goal |-> e.goal, time |-> e.time_spent, turns |-> e.turns_used, metric |-> Metric[e.state]]

(* The results that a sequence of entries reports, in their order.         *)
Results(entries) ==
  LET upto[i \in 0 .. Len(entries)] ==
        IF i = 0 THEN <<>>
        ELSE IF entries[i].type = "end-round" THEN Append(upto[i - 1], Result(entries[i]))
             ELSE upto[i - 1]
  IN  upto[Len(entries)]

Reported == Results(log)

Verdict(e) ==
  [rounds |-> e.rounds, failed |-> e.failed, successes |-> e.successes,
   time |-> {a.time : a \in e.averages}, metric |-> e.metric]

Concluded == {Verdict(log[i]) : i \in Positions("end-session")}

AsContest == INSTANCE Contest WITH
  Offers  <- {DefaultCfg} \cup {config_map[p] : p \in DOMAIN config_map},
  Metrics <- {Metric[st] : st \in States},
  terms   <- Announced,
  results <- Reported,
  verdict <- Concluded

ImplementsContest == AsContest!Spec

(***************************************************************************)
(* TurnAverage: the turns that the end-session message averages over are   *)
(* the turns of the successful rounds, as the README says of turn-average. *)
(***************************************************************************)
TurnAverage ==
  \A i \in Positions("end-session") : \A a \in log[i].averages :
    a.turns = MapThenSumSet(LAMBDA k : log[k].turns_used,
                            {k \in Positions("end-round") : log[k].goal})

(***************************************************************************)
(* RoundReplies: while a round is open the server answers with a state or  *)
(* an end-round message, as the README says (README:155).                  *)
(***************************************************************************)
RoundReplies ==
  [][InRound /\ Len(s2c') > Len(s2c) => s2c'[Len(s2c')].type \in {"state", "end-round"}]_vars
=============================================================================
