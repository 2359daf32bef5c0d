------------------------------ MODULE Session ------------------------------
(***************************************************************************)
(* One planning session as the server runs it: the thread host_problem     *)
(* (mdpserver.cc) that the accept loop starts for one connection.          *)
(*                                                                         *)
(* The thread reads requests from the client's socket (c2s), writes        *)
(* replies to it (s2c) and appends what it does to the contestant's log    *)
(* file (log).  Wall-clock time may pass between any two of its steps: the *)
(* two Timer objects of the code are the clock readings session_timer and  *)
(* round_timer, and every GetElapsedMilliseconds() of the code is a        *)
(* reading of the clock in the step that makes the call.                   *)
(*                                                                         *)
(* The planning problem is abstract: its states, the actions enabled in    *)
(* each, the successors Action::affect may sample and the value of the     *)
(* metric in a state.  The client is any program that speaks the message   *)
(* vocabulary of the README, in any order, and may hang up at any time.    *)
(***************************************************************************)
EXTENDS Integers, Sequences

CONSTANTS
  Problems,      (* problem names a client may ask for                      *)
  KnownProblems, (* the names Problem::find finds                           *)
  config_map,    (* problem name -> configuration, for some of the names    *)
  DefaultCfg,    (* the command-line limits used for the other names        *)
  States,        (* planning states                                         *)
  InitStates,    (* the states State(problem) may construct                 *)
  Goal,          (* the states whose goal() is true                         *)
  Actions,       (* the ground actions of the problem                       *)
  Enabled,       (* the pairs <<s, a>> with a enabled in s                  *)
  Succ,          (* <<s, a>> -> the states s->next(a) may return            *)
  Metric,        (* state -> value of the problem's metric                  *)
  BadAction,     (* an action name and arguments that name no ground action *)
  Garbage,       (* what an uninitialised int may hold                      *)
  log_paths,     (* the --log-paths option                                  *)
  MaxPending,    (* bound: requests sent and not yet read                   *)
  MaxClock       (* bound: the last instant of the clock                    *)

Cfg == [time_limit : Int, round_limit : Int, turn_limit : Int]

ASSUME SessionAssumption ==
  /\ KnownProblems \subseteq Problems
  /\ DOMAIN config_map \subseteq Problems
  /\ \A p \in DOMAIN config_map : config_map[p] \in Cfg
  /\ DefaultCfg \in Cfg
  /\ InitStates \subseteq States
  /\ InitStates # {}
  /\ Goal \subseteq States
  /\ BadAction \notin Actions
  /\ Enabled \subseteq States \X Actions
  /\ Succ \in [Enabled -> SUBSET States]
  /\ \A e \in Enabled : Succ[e] # {}
  /\ Metric \in [States -> Int]
  /\ Garbage \subseteq Int
  /\ log_paths \in BOOLEAN

VARIABLES
  now,           (* the steady clock                                        *)
  c2s,           (* requests the client wrote and the thread has not read   *)
  s2c,           (* replies the thread wrote and the client has not read    *)
  open,          (* the client has not closed its end of the connection     *)
  alive,         (* the server process exists                               *)
  log,           (* the lines this session appended to the log file         *)
  pc,            (* where the thread is                                     *)
  cfg, session_timer, total_metric, total_time, total_turns, success_count,
  round, time_left, round_timer, s, running, turn, action
                 (* the thread's local variables                            *)

wire    == <<c2s, s2c, open>>
totals  == <<total_metric, total_time, total_turns, success_count>>
session == <<cfg, session_timer>>
game    == <<time_left, round_timer, s, running, turn>>
locals  == <<session, totals, round, game, action>>
vars    == <<now, wire, alive, log, pc, locals>>

(***************************************************************************)
(* Messages.                                                               *)
(***************************************************************************)
Requests ==
  [type : {"session-request"}, problem : Problems]
    \cup [type : {"round-request", "done"}]
    \cup [type : {"act"}, action : Actions \cup {BadAction}]

SessionInit(c) ==
  [type |-> "session-init", rounds |-> c.round_limit,
   time |-> c.time_limit, turns |-> c.turn_limit]

RoundInit(r, left, more) ==
  [type |-> "round-init", round |-> r, time_left |-> left, rounds_left |-> more]

StateMsg(st) == [type |-> "state", state |-> st]

Error(why) == [type |-> "error", reason |-> why]

EndRoundMsg(r, st, spent, turns) ==
  [type |-> "end-round", round |-> r, state |-> st, goal |-> st \in Goal,
   time_spent |-> spent, turns_used |-> turns]

EndSessionAllFailed(rounds, limit, successes, time, turns, metric) ==  \* mutant of EndSessionMsg
  [type |-> "end-session", rounds |-> rounds,
   failed |-> rounds, successes |-> successes,
   averages |-> IF successes > 0 THEN {[time |-> time, turns |-> turns]} ELSE {},
   metric |-> IF limit > 0 THEN {metric} ELSE {}]

(* The averages are printed only when they have a denominator; averages is *)
(* empty otherwise.  Quotients are kept as numerators and denominator.     *)
EndSessionMsg(rounds, limit, successes, time, turns, metric) ==
  [type |-> "end-session", rounds |-> rounds,
   failed |-> limit - successes, successes |-> successes,
   averages |-> IF successes > 0 THEN {[time |-> time, turns |-> turns]} ELSE {},
   metric |-> IF limit > 0 THEN {metric} ELSE {}]

ActionEntry(a) == [type |-> "action", action |-> a]

(***************************************************************************)
(* The socket and the clock.                                               *)
(***************************************************************************)
Largest(a, b) == IF a >= b THEN a ELSE b
Least(a, b)   == IF a <= b THEN a ELSE b

Elapsed(timer) == now - timer

TimeLeftUnclamped == cfg.time_limit - Elapsed(session_timer)   \* mutant of TimeLeft
TimeLeftRefilled  == Largest(0, cfg.time_limit)                \* mutant of TimeLeft

(* What remains of the session's time when a round is requested.           *)
TimeLeft == Largest(0, cfg.time_limit - Elapsed(session_timer))

TimeSpentUncapped == Elapsed(round_timer)                      \* mutant of TimeSpent

(* What the current round is charged.                                      *)
TimeSpent == Largest(0, Least(time_left, Elapsed(round_timer)))

(* read_node returned the next request of the client.                      *)
Receive(m) == c2s # <<>> /\ m = Head(c2s) /\ c2s' = Tail(c2s)

(* read_node returned a null pointer: the client hung up.                  *)
ReceiveNothing == c2s = <<>> /\ ~open /\ UNCHANGED c2s

(* write(client_socket, m).  Nothing is told to a client that hung up: the *)
(* write is lost or, once the connection is reset, raises SIGPIPE, which   *)
(* ends the process.                                                       *)
Write(m) ==
  IF open
  THEN s2c' = Append(s2c, m) /\ UNCHANGED alive
  ELSE s2c' = s2c /\ alive' \in BOOLEAN

(***************************************************************************)
(* The thread.                                                             *)
(***************************************************************************)
At(label) == alive /\ pc = label

Return == pc' = "returned"

ConfigOf(p) == IF p \in DOMAIN config_map THEN config_map[p] ELSE DefaultCfg

(* host_problem up to the construction of session_timer.                   *)
StartSession ==
  /\ At("read_session")
  /\ \E m \in Requests :
       /\ Receive(m)
       /\ m.type = "session-request"
       /\ m.problem \in KnownProblems
       /\ LET c == ConfigOf(m.problem) IN
            /\ cfg' = c
            /\ log' = Append(log, SessionInit(c))
            /\ Write(SessionInit(c))
  /\ session_timer' = now
  /\ total_metric' = 0 /\ total_time' = 0 /\ success_count' = 0
  /\ total_turns' \in Garbage
  /\ round' = 1
  /\ pc' = "round_head"
  /\ UNCHANGED <<now, open, game, action>>

RefuseProblem ==
  /\ At("read_session")
  /\ \E m \in Requests :
       /\ Receive(m)
       /\ m.type = "session-request"
       /\ m.problem \notin KnownProblems
  /\ log' = Append(log, Error("bad problem"))
  /\ Write(Error("bad problem"))
  /\ Return
  /\ UNCHANGED <<now, open, locals>>

UnexpectedNoEof(type) == \E m \in Requests : Receive(m) /\ m.type # type  \* mutant of Unexpected

(* The request is missing or is not the one the thread waits for.          *)
Unexpected(type) ==
  \/ ReceiveNothing
  \/ \E m \in Requests : Receive(m) /\ m.type # type

RefuseSession ==
  /\ At("read_session")
  /\ Unexpected("session-request")
  /\ Return
  /\ UNCHANGED <<now, s2c, open, alive, log, locals>>

RefuseRound ==
  /\ At("round_head") /\ round <= cfg.round_limit
  /\ Unexpected("round-request")
  /\ Return
  /\ UNCHANGED <<now, s2c, open, alive, log, locals>>

(* Head of the round loop, up to the write of round-init.                  *)
AnnounceRound ==
  /\ At("round_head") /\ round <= cfg.round_limit
  /\ \E m \in Requests : Receive(m) /\ m.type = "round-request"
  /\ time_left' = TimeLeft
  /\ LET m == RoundInit(round, time_left', cfg.round_limit - round)
     IN  log' = Append(log, m) /\ Write(m)
  /\ pc' = "round_init"
  /\ UNCHANGED <<now, open, session, totals, round, round_timer, s, running, turn, action>>

(* The initial state and the start of the round's own timer.             *)
StartRound ==
  /\ At("round_init")
  /\ s' \in InitStates
  /\ running' = (time_left > 0)
  /\ turn' = 1
  /\ round_timer' = now
  /\ pc' = "turn_head"
  /\ UNCHANGED <<now, wire, alive, log, session, totals, round, time_left, action>>

PlayingOneMore     == running /\ turn <= cfg.turn_limit + 1 /\ s \notin Goal  \* mutant of Playing
PlayingThroughGoal == running /\ turn <= cfg.turn_limit                      \* mutant of Playing

(* Condition of the turn loop.                                             *)
Playing == running /\ turn <= cfg.turn_limit /\ s \notin Goal

SendState ==
  /\ At("turn_head") /\ Playing
  /\ log' = IF log_paths THEN Append(log, StateMsg(s)) ELSE log
  /\ Write(StateMsg(s))
  /\ pc' = "read_act"
  /\ UNCHANGED <<now, c2s, open, locals>>

(* An action of the problem that is enabled in the current state.          *)
AcceptAction ==
  /\ At("read_act")
  /\ \E m \in Requests :
       /\ Receive(m)
       /\ m.type = "act"
       /\ <<s, m.action>> \in Enabled
       /\ action' = m.action
       /\ log' = IF log_paths THEN Append(log, ActionEntry(m.action)) ELSE log
  /\ pc' = "check_time"
  /\ UNCHANGED <<now, s2c, open, alive, session, totals, round, game>>

(* No such action, or one that is not enabled: the round is over.          *)
RejectAction ==
  /\ At("read_act")
  /\ \E m \in Requests :
       /\ Receive(m)
       /\ m.type = "act"
       /\ <<s, m.action>> \notin Enabled
       /\ LET e == Error(IF m.action \in Actions THEN "disabled action" ELSE "bad action")
          IN  log' = Append(log, e) /\ Write(e)
  /\ running' = FALSE
  /\ pc' = "check_time"
  /\ UNCHANGED <<now, open, session, totals, round, time_left, round_timer, s, turn, action>>

ReadDone ==
  /\ At("read_act")
  /\ \E m \in Requests : Receive(m) /\ m.type = "done"
  /\ running' = FALSE
  /\ pc' = "check_time"
  /\ UNCHANGED <<now, s2c, open, alive, log, session, totals, round,
                 time_left, round_timer, s, turn, action>>

(* Anything else in place of an action ends the session.                   *)
AbandonRound ==
  /\ At("read_act")
  /\ \/ ReceiveNothing
     \/ \E m \in Requests : Receive(m) /\ m.type \notin {"act", "done"}
  /\ Return
  /\ UNCHANGED <<now, s2c, open, alive, log, locals>>

(* The test of the session's time limit, and the transition if the round   *)
(* goes on.                                                                *)
OutOfTime == cfg.time_limit <= Elapsed(session_timer)

TakeTurn ==
  /\ At("check_time") /\ running /\ ~OutOfTime
  /\ s' \in Succ[<<s, action>>]
  /\ turn' = turn + 1
  /\ pc' = "turn_head"
  /\ UNCHANGED <<now, wire, alive, log, session, totals, round,
                 time_left, round_timer, running, action>>

StopRound ==
  /\ At("check_time") /\ (OutOfTime \/ ~running)
  /\ running' = FALSE
  /\ pc' = "turn_head"
  /\ UNCHANGED <<now, wire, alive, log, session, totals, round,
                 time_left, round_timer, s, turn, action>>

EndRound ==
  /\ At("turn_head") /\ ~Playing
  /\ total_metric' = total_metric + Metric[s]
  /\ IF s \in Goal
     THEN /\ total_time' = total_time + TimeSpent
          /\ total_turns' = total_turns + (turn - 1)
          /\ success_count' = success_count + 1
     ELSE UNCHANGED <<total_time, total_turns, success_count>>
  /\ LET m == EndRoundMsg(round, s, TimeSpent, turn - 1)
     IN  log' = Append(log, m) /\ Write(m)
  /\ round' = round + 1
  /\ pc' = "round_head"
  /\ UNCHANGED <<now, c2s, open, session, game, action>>

EndSession ==
  /\ At("round_head") /\ round > cfg.round_limit
  /\ LET m == EndSessionMsg(round - 1, cfg.round_limit, success_count,
                            total_time, total_turns, total_metric)
     IN  log' = Append(log, m) /\ Write(m)
  /\ Return
  /\ UNCHANGED <<now, c2s, open, locals>>

Thread ==
  \/ StartSession \/ RefuseProblem \/ RefuseSession
  \/ AnnounceRound \/ RefuseRound \/ StartRound
  \/ SendState \/ AcceptAction \/ RejectAction \/ ReadDone \/ AbandonRound
  \/ TakeTurn \/ StopRound
  \/ EndRound \/ EndSession

(***************************************************************************)
(* The environment: time and an arbitrary client.                          *)
(***************************************************************************)
Tick == now < MaxClock /\ now' = now + 1 /\ UNCHANGED <<wire, alive, log, pc, locals>>

ClientWrites(m) ==
  /\ open /\ Len(c2s) < MaxPending
  /\ c2s' = Append(c2s, m)
  /\ UNCHANGED <<now, s2c, open, alive, log, pc, locals>>

ClientReads ==
  /\ open /\ s2c # <<>>
  /\ s2c' = Tail(s2c)
  /\ UNCHANGED <<now, c2s, open, alive, log, pc, locals>>

(* Closing with replies unread resets the connection, and then requests    *)
(* the thread has not read yet are lost.                                   *)
ClientCloses ==
  /\ open
  /\ open' = FALSE
  /\ c2s' = c2s \/ (s2c # <<>> /\ c2s' = <<>>)
  /\ UNCHANGED <<now, s2c, alive, log, pc, locals>>

Client == (\E m \in Requests : ClientWrites(m)) \/ ClientReads \/ ClientCloses

Init ==
  /\ now = 0
  /\ c2s = <<>> /\ s2c = <<>> /\ open = TRUE /\ alive = TRUE
  /\ log = <<>>
  /\ pc = "read_session"
  /\ cfg = DefaultCfg
  /\ session_timer = 0
  /\ total_metric = 0 /\ total_time = 0 /\ total_turns = 0 /\ success_count = 0
  /\ round = 1
  /\ time_left = 0 /\ round_timer = 0
  /\ s \in InitStates
  /\ running = FALSE /\ turn = 1
  /\ action = BadAction

Next == Thread \/ Tick \/ Client

Spec == Init /\ [][Next]_vars

(***************************************************************************)
(* Properties.                                                             *)
(***************************************************************************)
Replies ==
  [type : {"session-init"}, rounds : Int, time : Int, turns : Int]
    \cup [type : {"round-init"}, round : Int, time_left : Int, rounds_left : Int]
    \cup [type : {"state"}, state : States]
    \cup [type : {"error"}, reason : {"bad problem", "bad action", "disabled action"}]
    \cup [type : {"end-round"}, round : Int, state : States, goal : BOOLEAN,
          time_spent : Int, turns_used : Int]
    \cup [type : {"end-session"}, rounds : Int, failed : Int, successes : Int,
          averages : SUBSET [time : Int, turns : Int], metric : SUBSET Int]

Labels == {"read_session", "round_head", "round_init", "turn_head", "read_act",
           "check_time", "returned"}

(* Every variable has its type; no duration is negative.                   *)
TypeOK ==
  /\ now \in Nat
  /\ c2s \in Seq(Requests) /\ s2c \in Seq(Replies)
  /\ open \in BOOLEAN /\ alive \in BOOLEAN
  /\ log \in Seq(Replies \cup [type : {"action"}, action : Actions])
  /\ pc \in Labels
  /\ cfg \in Cfg
  /\ session_timer \in Nat /\ round_timer \in Nat
  /\ total_metric \in Int /\ total_time \in Nat /\ total_turns \in Int
  /\ success_count \in Nat
  /\ round \in Nat /\ time_left \in Nat /\ turn \in Nat
  /\ s \in States /\ running \in BOOLEAN
  /\ action \in Actions \cup {BadAction}

(* The time charged to the successful rounds never exceeds the time limit  *)
(* of the session, nor the time that has really passed since it began,     *)
(* whatever the interleaving of the clock with the thread's readings of it *)
(* (mdpserver.cc:305-307, 395-400).                                        *)
TimeBudget ==
  /\ total_time <= Largest(0, cfg.time_limit)
  /\ total_time <= Elapsed(session_timer)

(* No session plays more rounds than its round limit, no round more turns  *)
(* than its turn limit, and at most the rounds already played are counted  *)
(* as successes, so that a session cut off anywhere has consistent counts. *)
Limits ==
  /\ success_count <= round - 1
  /\ round - 1 <= Largest(0, cfg.round_limit)
  /\ turn - 1 <= Largest(0, cfg.turn_limit)

(* The inductive strengthening: while a round is open, what it may still   *)
(* be charged is not yet in total_time, and its timer starts no earlier    *)
(* than the moment up to which total_time has been accounted for.          *)
InRound == pc \in {"turn_head", "read_act", "check_time"}

Accounting ==
  /\ session_timer <= now /\ round_timer <= now
  /\ pc = "round_init" \/ InRound =>
       time_left = 0 \/ total_time + time_left <= cfg.time_limit
  /\ InRound => total_time <= round_timer - session_timer

Counting ==
  /\ pc = "read_session" => total_time = 0 /\ success_count = 0 /\ round = 1 /\ turn = 1
  /\ pc = "round_init" \/ InRound => round <= cfg.round_limit
  /\ pc \in {"read_act", "check_time"} => turn <= cfg.turn_limit
  /\ pc = "check_time" /\ running => <<s, action>> \in Enabled
  /\ round >= 1 /\ turn >= 1

IInv == TypeOK /\ TimeBudget /\ Limits /\ Accounting /\ Counting
=============================================================================
