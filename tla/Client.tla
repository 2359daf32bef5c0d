------------------------------- MODULE Client -------------------------------
(***************************************************************************)
(* The client program of the repository: the main loop of mdpclient.cc     *)
(* (mtbddclient.cc has the same one) and the constructor of XMLClient      *)
(* (client.cc), which plays one problem.  All problems of the command line *)
(* are played one after the other over the same connection.                *)
(*                                                                         *)
(* The planner is abstract: decideAction returns any action of the         *)
(* problem, or none.                                                       *)
(***************************************************************************)
EXTENDS Integers, Sequences

CONSTANTS
  Actions,     (* what decideAction may return                              *)
  Todos,       (* the lists of problems the client may be started with      *)
  NoState,     (* no state has been received                                *)
  MaxPending   (* bound: requests sent and not yet read                     *)

VARIABLES
  c2s, s2c, open,   (* the connection, as in module Session                 *)
  cpc,              (* where the client is                                  *)
  todo,             (* problems still to be played                          *)
  rounds_left,      (* the local variable of XMLClient                      *)
  seen              (* the state getState extracted from the last message   *)

Send(m) == Len(c2s) < MaxPending /\ c2s' = Append(c2s, m)

(* read_node(fd)                                                           *)
Hear(m) == s2c # <<>> /\ m = Head(s2c) /\ s2c' = Tail(s2c)

(***************************************************************************)
(* The loop over the problems.                                             *)
(***************************************************************************)
RequestSession ==
  /\ cpc = "next_problem" /\ todo # <<>>
  /\ Send([type |-> "session-request", problem |-> Head(todo)])
  /\ todo' = Tail(todo)
  /\ cpc' = "session_init"
  /\ UNCHANGED <<s2c, open, rounds_left, seen>>

(* The process ends, and with it its end of the connection.                *)
Exit ==
  /\ cpc = "next_problem" /\ todo = <<>>
  /\ open' = FALSE
  /\ c2s' = c2s \/ (s2c # <<>> /\ c2s' = <<>>)
  /\ cpc' = "exited"
  /\ UNCHANGED <<s2c, todo, rounds_left, seen>>

(***************************************************************************)
(* XMLClient: one session.                                                 *)
(***************************************************************************)
ReadSessionInit ==
  /\ cpc = "session_init"
  /\ \E m \in {s2c[i] : i \in 1 .. Len(s2c)} :
       /\ Hear(m)
       /\ IF m.type = "session-init"
          THEN rounds_left' = m.rounds /\ cpc' = "round_head"
          ELSE rounds_left' = 0 /\ cpc' = "next_problem"
  /\ UNCHANGED <<c2s, open, todo, seen>>

RequestRoundUncounted ==                               \* mutant of RequestRound
  /\ cpc = "round_head" /\ rounds_left # 0
  /\ rounds_left' = rounds_left
  /\ Send([type |-> "round-request"])
  /\ cpc' = "round_init"
  /\ UNCHANGED <<s2c, open, todo, seen>>

RequestRound ==
  /\ cpc = "round_head" /\ rounds_left # 0
  /\ rounds_left' = rounds_left - 1
  /\ Send([type |-> "round-request"])
  /\ cpc' = "round_init"
  /\ UNCHANGED <<s2c, open, todo, seen>>

ReadRoundInit ==
  /\ cpc = "round_init"
  /\ \E m \in {s2c[i] : i \in 1 .. Len(s2c)} :
       Hear(m) /\ cpc' = IF m.type = "round-init" THEN "response" ELSE "next_problem"
  /\ UNCHANGED <<c2s, open, todo, rounds_left, seen>>

AfterResponseNoError(type) ==                          \* mutant of AfterResponse
  CASE type = "end-round"   -> "round_head"
    [] type = "end-session" -> "end_session"
    [] OTHER                -> "decide"

AfterResponseOneRound(type) ==                         \* mutant of AfterResponse
  CASE type = "state" -> "decide" [] OTHER -> "next_problem"

AfterResponseDeaf(type) ==                             \* mutant of AfterResponse
  IF type = "state" THEN "decide" ELSE "response"

(* A state is answered; the end of the round or session leaves the loop;   *)
(* anything else, an error message among them, abandons the session.       *)
AfterResponse(type) ==
  CASE type = "state"       -> "decide"
    [] type = "end-round"   -> "round_head"
    [] type = "end-session" -> "end_session"
    [] OTHER                -> "next_problem"

ReadResponse ==
  /\ cpc = "response"
  /\ \E m \in {s2c[i] : i \in 1 .. Len(s2c)} :
       /\ Hear(m)
       /\ cpc' = AfterResponse(m.type)
       /\ seen' = IF m.type = "state" THEN m.state ELSE seen
  /\ UNCHANGED <<c2s, open, todo, rounds_left>>

(* decideAction and sendAction; no action is sent as done.                 *)
Decide ==
  /\ cpc = "decide"
  /\ \/ \E a \in Actions : Send([type |-> "act", action |-> a])
     \/ Send([type |-> "done"])
  /\ cpc' = "response"
  /\ UNCHANGED <<s2c, open, todo, rounds_left, seen>>

(* After the loop one more message is read, whatever it is.                *)
ReadEndSession ==
  /\ cpc = "end_session" \/ (cpc = "round_head" /\ rounds_left = 0)
  /\ \E m \in {s2c[i] : i \in 1 .. Len(s2c)} : Hear(m)
  /\ cpc' = "next_problem"
  /\ UNCHANGED <<c2s, open, todo, rounds_left, seen>>

Step ==
  \/ RequestSession \/ ReadSessionInit
  \/ RequestRound \/ ReadRoundInit \/ ReadResponse \/ Decide
  \/ ReadEndSession
  \/ Exit

(* The program may be killed at any time.                                  *)
Crash ==
  /\ open
  /\ open' = FALSE
  /\ c2s' = c2s \/ (s2c # <<>> /\ c2s' = <<>>)
  /\ cpc' = "crashed"
  /\ UNCHANGED <<s2c, todo, rounds_left, seen>>

Init ==
  /\ cpc = "next_problem"
  /\ todo \in Todos
  /\ rounds_left = 0
  /\ seen = NoState

Next == Step \/ Crash
=============================================================================
