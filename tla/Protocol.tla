------------------------------ MODULE Protocol ------------------------------
(***************************************************************************)
(* A session between the repository's server thread (module Session) and   *)
(* the repository's client (module Client) over one TCP connection: bytes  *)
(* arrive in order and are not lost while both ends are open.              *)
(***************************************************************************)
EXTENDS Session

CONSTANTS Todos, NoState

(* The problems of the client's command line; without any it opens no      *)
(* session.                                                                *)
ASSUME ProtocolAssumption == Todos \subseteq Seq(Problems) /\ <<>> \notin Todos

VARIABLES cpc, todo, rounds_left, seen

C == INSTANCE Client

player == <<cpc, todo, rounds_left, seen>>

ServerStep == Thread /\ UNCHANGED player

ClientStep == C!Step /\ UNCHANGED <<now, alive, log, pc, locals>>

ClientCrash == C!Crash /\ UNCHANGED <<now, alive, log, pc, locals>>

TimePasses == Tick /\ UNCHANGED player

protocol == <<vars, player>>

ProtocolInit == Init /\ C!Init

ProtocolNext == ServerStep \/ ClientStep \/ ClientCrash \/ TimePasses

ProtocolSpec == ProtocolInit /\ [][ProtocolNext]_protocol

(* Both programs are sequential and block only in read_node: as long as    *)
(* one of them can take a step, the operating system runs it eventually.   *)
(* Nothing is assumed of crashes or of the clock.                          *)
FairSpec ==
  ProtocolSpec /\ WF_protocol(ServerStep) /\ WF_protocol(ClientStep)

-----------------------------------------------------------------------------
Started == {i \in DOMAIN log : log[i].type = "session-init"}

(***************************************************************************)
(* DecidesOnCurrentState: when the planner chooses an action, the server   *)
(* is waiting for exactly that choice.  The state the planner looks at is  *)
(* the state of the simulation, nothing is in flight in either direction,  *)
(* and both sides count the same number of remaining rounds (client.cc:    *)
(* 250-312 against mdpserver.cc:292-391).                                  *)
(***************************************************************************)
DecidesOnCurrentState ==
  cpc = "decide" =>
    /\ alive /\ pc = "read_act"
    /\ seen = s
    /\ c2s = <<>> /\ s2c = <<>>
    /\ rounds_left = cfg.round_limit - round

(***************************************************************************)
(* CutOffOnlyAfterHangUp: a client that plays one problem is never cut off *)
(* by the server: the thread gives a session up (mdpserver.cc:294-299,     *)
(* 334-340, 371-377) only when the client has hung up.                     *)
(***************************************************************************)
CutOffOnlyAfterHangUp ==
  [][ServerStep /\ (RefuseRound \/ AbandonRound) => ~open]_protocol

(***************************************************************************)
(* ExitsInformed: a client that exits after a session in which the server  *)
(* reported no error has seen everything the server wrote, and the last of *)
(* it is the summary of the session.                                       *)
(***************************************************************************)
ExitsInformed ==
  cpc = "exited" =>
    \/ \E i \in DOMAIN log : log[i].type = "error"
    \/ s2c = <<>> /\ log[Len(log)].type = "end-session"

(***************************************************************************)
(* ServerReleases: the thread of a session ends, whatever the planner      *)
(* chooses and even if the client crashes at any point.                    *)
(***************************************************************************)
ServerReleases == <>(pc = "returned" \/ ~alive)

(***************************************************************************)
(* ClientExits: the client prints what it has to print and exits, as the   *)
(* README says (README:29), unless it is killed.                           *)
(***************************************************************************)
ClientExits == <>(cpc \in {"exited", "crashed"})
=============================================================================
