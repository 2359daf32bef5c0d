------------------------------ MODULE MCServer ------------------------------
(***************************************************************************)
(* Connections for the runs of Server: two sessions of one contestant for  *)
(* the same problem share a log file; the configuration file has two       *)
(* entries for it.  A behaviour is one of the whole process, where each    *)
(* connection takes one identifier, or of new_id alone, where threads call *)
(* it again and again.                                                     *)
(***************************************************************************)
EXTENDS Server

CONSTANTS c1, c2, c3, blocks, chess, NoNumber

VARIABLE what                   (* "process" or "new_id"                    *)

MCRequests == {[name |-> "john", problem |-> blocks], [name |-> "john", problem |-> chess]}

MCConfigFile == <<[problem |-> blocks, rounds |-> 2], [problem |-> blocks, rounds |-> 1]>>

processVars == <<serving, starts, backlog, client, request, at, sockets,
                 stream, out, round, files, heard>>

MCInit == ServerInit /\ what \in {"process", "new_id"}

Process == what = "process" /\ ServerNext /\ UNCHANGED what
NewIdAlone == what = "new_id" /\ Next /\ UNCHANGED <<what, processVars>>

MCSpec ==
  /\ MCInit /\ [][Process \/ NewIdAlone]_<<svars, what>>
  /\ WF_svars(what = "process" /\ Loop /\ Observe)
  /\ \A c \in Threads : WF_svars(what = "process" /\ Work(c) /\ Observe)
=============================================================================
