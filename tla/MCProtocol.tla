----------------------------- MODULE MCProtocol -----------------------------
(***************************************************************************)
(* A small planning problem for the runs of Protocol: "go" may reach the   *)
(* goal s1 or stay in s0; "wait" is never enabled, so that the planner     *)
(* can also make a mistake.                                                *)
(***************************************************************************)
EXTENDS Protocol

MCProblems == {"p", "n", "unknown"}
MCKnown    == {"p", "n"}
MCStates   == {"s0", "s1"}
MCInit     == {"s0"}
MCGoal     == {"s1"}
MCActions  == {"go", "wait"}
MCEnabled  == {<<"s0", "go">>}
MCSucc     == [e \in MCEnabled |-> {"s0", "s1"}]
MCMetric   == [st \in MCStates |-> IF st = "s1" THEN 1 ELSE 0]
MCBad      == "no-such-action"

MCDefault  == [time_limit |-> 1, round_limit |-> 2, turn_limit |-> 2]
MCConfig   == [p \in {"n"} |-> [time_limit |-> 1, round_limit |-> -1, turn_limit |-> 1]]

(* One problem: one that is played, one whose round limit is negative, and *)
(* one the server does not know.                                           *)
MCOne == {<<"p">>, <<"n">>, <<"unknown">>}

(* Two problems on the command line of the client.                         *)
MCTwo == {<<"p", "p">>}
=============================================================================
