----------------------------- MODULE MCSession -----------------------------
(***************************************************************************)
(* A small planning problem for the runs of SessionLog: s0 is initial, s2  *)
(* is the goal, "go" may advance or (from s1) stay, "back" returns.        *)
(***************************************************************************)
EXTENDS SessionLog

MCProblems == {"p", "q", "z", "n", "unknown"}
MCKnown    == {"p", "q", "z", "n"}

MCStates  == {"s0", "s1", "s2"}
MCInit    == {"s0"}
MCGoal    == {"s2"}
MCActions == {"go", "back"}
MCEnabled == {<<"s0", "go">>, <<"s1", "go">>, <<"s1", "back">>}
MCSucc    == [e \in MCEnabled |->
                CASE e = <<"s0", "go">> -> {"s1", "s2"}
                  [] e = <<"s1", "go">> -> {"s1", "s2"}
                  [] OTHER              -> {"s0"}]
MCMetric  == [st \in MCStates |-> IF st = "s2" THEN 5 ELSE -1]
MCBad     == "no-such-action"

(* "p" has room for everything, "q" gets defaults with one turn and little *)
(* time, "z" and "n" have limits at and below zero.                        *)
MCDefault == [time_limit |-> 1, round_limit |-> 1, turn_limit |-> 1]
MCConfig  == [p \in {"p", "z", "n"} |->
                CASE p = "p" -> [time_limit |-> 2, round_limit |-> 2, turn_limit |-> 2]
                  [] p = "z" -> [time_limit |-> -1, round_limit |-> 1, turn_limit |-> 0]
                  [] p = "n" -> [time_limit |-> 1, round_limit |-> -1, turn_limit |-> 1]]

(* The replies still unread by the client are read by no action of the     *)
(* server and by no property of these runs: states that differ only there  *)
(* are the same state.                                                     *)
MCView == <<now, c2s, open, alive, log, pc, locals>>
=============================================================================
