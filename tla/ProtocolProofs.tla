--------------------------- MODULE ProtocolProofs ---------------------------
(***************************************************************************)
(* Theorems about the server's thread and the repository's client together *)
(* (Protocol), for every planning problem, every configuration, every list *)
(* of problems the client is started with, every choice of its planner and *)
(* every interleaving of the two programs, the clock and crashes.          *)
(***************************************************************************)
EXTENDS Protocol, SessionProofs

OneProblem == \A t \in Todos : Len(t) = 1

(***************************************************************************)
(* The dialogue.  As long as nothing went wrong, where the client is, what *)
(* is in flight and where the thread is determine one another; n is the    *)
(* number of messages the client has yet to read before those at hand.     *)
(***************************************************************************)
(* The client's count of the rounds, k rounds behind the server's.         *)
Counts(k) == rounds_left = cfg.round_limit - round + k

(* The thread has told all of the session.                                 *)
Over == pc = "returned" /\ log # <<>> /\ log[Len(log)].type = "end-session"

(* No round is open: the thread waits for a request, or went on to the end. *)
Settled(n) ==
  \/ pc = "round_head" /\ Len(s2c) = n
  \/ Over /\ Len(s2c) = n + 1 /\ s2c[n+1].type = "end-session"

(* A round was opened, and perhaps a state sent or the round ended.        *)
InPlay(n) ==
  \/ pc \in {"round_init", "turn_head", "check_time"} /\ Len(s2c) = n /\ Counts(0)
  \/ pc = "read_act" /\ Len(s2c) = n + 1 /\ s2c[n+1] = StateMsg(s) /\ Counts(0)
  \/ Settled(n + 1) /\ s2c[n+1].type = "end-round" /\ Counts(1)

Asks(types) == Len(c2s) = 1 /\ c2s[1].type \in types

Fresh ==
  /\ pc = "read_session" /\ s2c = <<>> /\ log = <<>>
  /\ \/ cpc = "next_problem" /\ c2s = <<>> /\ todo # <<>>
     \/ cpc = "session_init" /\ Asks({"session-request"})

Talking ==
  \/ cpc = "session_init" /\ c2s = <<>> /\ Settled(1) /\ round = 1 /\ s2c[1] = SessionInit(cfg)
  \/ cpc = "round_head" /\ c2s = <<>> /\ Settled(0) /\ Counts(1)
  \/ cpc = "round_init" /\ Asks({"round-request"}) /\ Settled(0) /\ Counts(0)
  \/ cpc = "round_init" /\ c2s = <<>> /\ InPlay(1) /\ s2c[1].type = "round-init"
  \/ cpc = "response" /\ c2s = <<>> /\ InPlay(0)
  \/ cpc = "response" /\ Asks({"act", "done"}) /\ pc = "read_act" /\ s2c = <<>> /\ Counts(0)
  \/ cpc = "decide" /\ c2s = <<>> /\ pc = "read_act" /\ s2c = <<>> /\ seen = s /\ Counts(0)

Finished == cpc \in {"next_problem", "session_init", "exited"} /\ Over /\ s2c = <<>>

(* The server reported an error: the client is done with this session, or  *)
(* will be with the next message it reads, while the thread still goes on. *)
Troubled ==
  /\ \E i \in DOMAIN log : log[i].type = "error"
  /\ pc # "read_session"
  /\ \A i \in DOMAIN s2c : s2c[i].type # "session-init"
  /\ \/ cpc \in {"next_problem", "session_init", "exited"}
     \/ cpc = "response" /\ s2c # <<>> /\ s2c[1].type = "error"
  /\ OneProblem /\ open => c2s = <<>>

Ends ==
  /\ open <=> cpc \notin {"exited", "crashed"}
  /\ open => alive
  /\ cpc \in {"next_problem", "session_init", "round_head", "round_init", "response",
              "decide", "end_session", "exited", "crashed"}
  /\ todo \in Seq(Problems)
  /\ OneProblem /\ open =>
       Len(todo) <= 1 /\ (cpc # "next_problem" \/ log # <<>> => todo = <<>>)

DialogueInv == Ends /\ (Fresh \/ Talking \/ Finished \/ Troubled \/ cpc = "crashed")

-----------------------------------------------------------------------------
(* What writing and reading do to the replies in flight.                   *)
LEMMA Written ==
  ASSUME s2c \in Seq(Replies), open, NEW m, m \in Replies, Write(m)
  PROVE  /\ alive' = alive /\ s2c' \in Seq(Replies)
         /\ Len(s2c) \in Nat /\ Len(s2c') = Len(s2c) + 1 /\ s2c'[Len(s2c) + 1] = m
         /\ \A i \in 1 .. Len(s2c) : s2c'[i] = s2c[i]
  BY DEF Write

LEMMA Heard ==
  ASSUME s2c \in Seq(Replies), NEW m, C!Hear(m)
  PROVE  /\ Len(s2c) \in Nat /\ Len(s2c) >= 1 /\ m = s2c[1] /\ s2c' \in Seq(Replies)
         /\ Len(s2c') = Len(s2c) - 1
         /\ \A i \in 1 .. Len(s2c') : s2c'[i] = s2c[i+1]
  BY DEF C!Hear

LEMMA Received ==
  ASSUME c2s \in Seq(Requests), NEW m, Receive(m), Len(c2s) = 1
  PROVE  m = c2s[1] /\ c2s' = <<>>
  BY DEF Receive

LEMMA Sent ==
  ASSUME c2s = <<>>, NEW m, C!Send(m)
  PROVE  Len(c2s') = 1 /\ c2s'[1] = m
  BY DEF C!Send

(***************************************************************************)
(* The repository's client is one of the clients that Session allows, so   *)
(* that everything proved of a session holds of this one.                  *)
(***************************************************************************)
LEMMA EndsInit == ProtocolInit => Ends
<1> SUFFICES ASSUME ProtocolInit PROVE Ends
  OBVIOUS
<1>1. open /\ alive /\ cpc = "next_problem" /\ log = <<>> /\ todo \in Todos
  BY DEF ProtocolInit, Init, C!Init
<1>2. todo \in Seq(Problems) /\ (OneProblem => Len(todo) = 1)
  BY <1>1, ProtocolAssumption DEF OneProblem
<1>3. ASSUME OneProblem PROVE Len(todo) <= 1
  <2>1. Len(todo) = 1
    BY <1>2, <1>3
  <2>2. QED
    BY <2>1
<1>4. open <=> cpc \notin {"exited", "crashed"}
  BY <1>1
<1>5. QED
  BY <1>1, <1>2, <1>3, <1>4, Zenon DEF Ends

(* A step of the client is a step of Session's client.                     *)
LEMMA ClientSteps ==
  ASSUME Ends, c2s \in Seq(Requests), s2c \in Seq(Replies), ClientStep \/ ClientCrash
  PROVE  Client
<1>1. UNCHANGED <<now, alive, log, pc, locals>>
  BY DEF ClientStep, ClientCrash
<1>2. ASSUME NEW m \in Requests, C!Send(m), UNCHANGED <<s2c, open>>, open PROVE Client
  BY <1>1, <1>2 DEF C!Send, Client, ClientWrites
<1>3. ASSUME NEW m, C!Hear(m), UNCHANGED <<c2s, open>>, open PROVE Client
  BY <1>1, <1>3 DEF C!Hear, Client, ClientReads
<1>4. CASE C!RequestSession
  <2>1. open /\ Head(todo) \in Problems
    BY <1>4 DEF C!RequestSession, Ends
  <2>2. [type |-> "session-request", problem |-> Head(todo)] \in Requests
    BY <2>1 DEF Requests
  <2>3. QED
    BY <1>2, <1>4, <2>1, <2>2 DEF C!RequestSession
<1>5. CASE C!ReadSessionInit \/ C!ReadRoundInit \/ C!ReadResponse \/ C!ReadEndSession
  <2>1. open
    BY <1>5 DEF C!ReadSessionInit, C!ReadRoundInit, C!ReadResponse, C!ReadEndSession, Ends
  <2>2. (\E m \in {s2c[i] : i \in 1 .. Len(s2c)} : C!Hear(m)) /\ UNCHANGED <<c2s, open>>
    BY <1>5 DEF C!ReadSessionInit, C!ReadRoundInit, C!ReadResponse, C!ReadEndSession
  <2>3. QED
    BY <1>3, <2>1, <2>2
<1>6. CASE C!RequestRound
  <2>1. open /\ [type |-> "round-request"] \in Requests
    BY <1>6 DEF C!RequestRound, Ends, Requests
  <2>2. QED
    BY <1>2, <1>6, <2>1 DEF C!RequestRound
<1>7. CASE C!Decide
  <2>1. open
    BY <1>7 DEF C!Decide, Ends
  <2>2. /\ \A a \in Actions : [type |-> "act", action |-> a] \in Requests
        /\ [type |-> "done"] \in Requests
    BY DEF Requests
  <2>3. PICK m \in Requests : C!Send(m)
    BY <1>7, <2>2 DEF C!Decide
  <2>4. QED
    BY <1>2, <1>7, <2>1, <2>3 DEF C!Decide
<1>8. CASE C!Exit \/ C!Crash
  <2>1. open
    BY <1>8 DEF C!Exit, C!Crash, Ends
  <2>2. open' = FALSE /\ s2c' = s2c
    BY <1>8 DEF C!Exit, C!Crash
  <2>3. c2s' = c2s \/ (s2c # <<>> /\ c2s' = <<>>)
    BY <1>8, Zenon DEF C!Exit, C!Crash
  <2>4. QED
    BY <1>1, <2>1, <2>2, <2>3, Zenon DEF Client, ClientCloses
<1>9. QED
  BY <1>4, <1>5, <1>6, <1>7, <1>8 DEF ClientStep, ClientCrash, C!Step

(* The server's thread does not touch the client.                          *)
LEMMA EndsStep ==
  ASSUME TypeOK, Ends, Fresh \/ Talking \/ Finished \/ Troubled \/ cpc = "crashed",
         [ProtocolNext]_protocol
  PROVE  Ends'
<1> DEFINE Places == {"next_problem", "session_init", "round_head", "round_init", "response",
                      "decide", "end_session", "exited", "crashed"}
<1>1. CASE ClientStep \/ ClientCrash
  <2>1. log' = log /\ alive' = alive
    BY <1>1 DEF ClientStep, ClientCrash
  <2>2. CASE C!RequestSession
    <3>1. /\ cpc = "next_problem" /\ cpc' = "session_init" /\ todo # <<>> /\ todo' = Tail(todo)
          /\ open' = open
      BY <2>2 DEF C!RequestSession
    <3>2. todo' \in Seq(Problems) /\ Len(todo') = Len(todo) - 1 /\ (Len(todo) <= 1 => todo' = <<>>)
      BY <3>1 DEF Ends
    <3>3. open /\ open'
      BY <3>1 DEF Ends
    <3>4. Len(todo) \in Nat /\ Len(todo) >= 1
      BY <3>1 DEF Ends
    <3>5. OneProblem => Len(todo') <= 1 /\ todo' = <<>>
      BY <3>2, <3>3, <3>4 DEF Ends
    <3>6. QED
      BY <2>1, <3>1, <3>2, <3>3, <3>5 DEF Ends
  <2>3. CASE C!ReadSessionInit \/ C!ReadRoundInit \/ C!ReadResponse \/ C!ReadEndSession
             \/ C!RequestRound \/ C!Decide
    <3>1. /\ cpc \notin {"next_problem", "exited", "crashed"} /\ open' = open /\ todo' = todo
          /\ cpc' \in Places \ {"exited", "crashed"}
      BY <2>3 DEF C!ReadSessionInit, C!ReadRoundInit, C!ReadResponse, C!ReadEndSession,
         C!RequestRound, C!Decide, C!AfterResponse
    <3>2. QED
      BY <2>1, <3>1 DEF Ends
  <2>4. CASE C!Exit \/ C!Crash
    <3>1. open' = FALSE /\ cpc' \in {"exited", "crashed"} /\ todo' = todo
      BY <2>4 DEF C!Exit, C!Crash
    <3>2. QED
      BY <2>1, <3>1 DEF Ends
  <2>5. QED
    BY <1>1, <2>2, <2>3, <2>4 DEF ClientStep, ClientCrash, C!Step
<1>2. CASE ServerStep
  <2>1. cpc' = cpc /\ todo' = todo /\ open' = open
    BY <1>2 DEF ServerStep, player, Thread, StartSession, RefuseProblem, RefuseSession,
       AnnounceRound, RefuseRound, StartRound, SendState, AcceptAction, RejectAction, ReadDone,
       AbandonRound, TakeTurn, StopRound, EndRound, EndSession, wire
  <2>2. open => alive'
    <3>1. SUFFICES ASSUME open PROVE alive'
      OBVIOUS
    <3>2. \A m : Write(m) => alive' = alive
      BY <3>1 DEF Write
    <3>3. alive' = alive
      BY <1>2, <3>2 DEF ServerStep, Thread, StartSession, RefuseProblem, RefuseSession,
         AnnounceRound, RefuseRound, StartRound, SendState, AcceptAction, RejectAction, ReadDone,
         AbandonRound, TakeTurn, StopRound, EndRound, EndSession
    <3>4. QED
      BY <3>1, <3>3 DEF Ends
  <2>3. OneProblem /\ open => (cpc # "next_problem" \/ log' # <<>> => todo = <<>>)
    <3>1. SUFFICES ASSUME OneProblem, open, cpc = "next_problem" PROVE log' = log \/ todo = <<>>
      BY DEF Ends
    <3>2. CASE Fresh
      <4>1. c2s = <<>> /\ pc = "read_session"
        BY <3>1, <3>2 DEF Fresh, Asks
      <4>2. ServerStep => FALSE
        BY <3>1, <4>1 DEF ServerStep, Thread, StartSession, RefuseProblem, RefuseSession,
           AnnounceRound, RefuseRound, StartRound, SendState, AcceptAction, RejectAction, ReadDone,
           AbandonRound, TakeTurn, StopRound, EndRound, EndSession, At, Receive,
           Unexpected, ReceiveNothing
      <4>3. QED
        BY <1>2, <4>2
    <3>3. CASE Talking
      BY <3>1, <3>3 DEF Talking
    <3>4. CASE Finished
      BY <3>1, <3>4 DEF Finished, Over, Ends
    <3>5. CASE Troubled
      <4>1. log # <<>>
        BY <3>5 DEF Troubled
      <4>2. QED
        BY <3>1, <4>1 DEF Ends
    <3>6. QED
      BY <3>1, <3>2, <3>3, <3>4, <3>5
  <2>4. QED
    BY <2>1, <2>2, <2>3 DEF Ends
<1>3. CASE TimePasses \/ UNCHANGED protocol
  BY <1>3 DEF TimePasses, Tick, protocol, vars, wire, player, Ends
<1>4. QED
  BY <1>1, <1>2, <1>3 DEF ProtocolNext

(***************************************************************************)
(* The server's thread, step by step.                                      *)
(***************************************************************************)
(* The first request is answered with the limits or with an error.         *)
LEMMA ServerOpens ==
  ASSUME TypeOK, Ends, Fresh, ServerStep
  PROVE  Talking' \/ Troubled'
<1>1. /\ pc = "read_session" /\ s2c = <<>> /\ log = <<>> /\ open /\ alive
      /\ c2s \in Seq(Requests) /\ s2c \in Seq(Replies) /\ round \in Nat
  BY DEF Fresh, Ends, TypeOK
<1>2. cpc' = cpc /\ rounds_left' = rounds_left
  BY DEF ServerStep, player
<1>3. CASE c2s = <<>>
  <2>1. ~Thread
    BY <1>1, <1>3 DEF Thread, StartSession, RefuseProblem, RefuseSession,
       AnnounceRound, RefuseRound, StartRound, SendState, AcceptAction, RejectAction, ReadDone,
       AbandonRound, TakeTurn, StopRound, EndRound, EndSession, At, Receive,
       Unexpected, ReceiveNothing
  <2>2. QED
    BY <2>1 DEF ServerStep
<1>4. CASE c2s # <<>>
  <2>1. cpc = "session_init" /\ Len(c2s) = 1 /\ c2s[1].type = "session-request"
    BY <1>4 DEF Fresh, Asks
  <2>2. StartSession \/ RefuseProblem
    <3>1. ~RefuseSession
      <4>1. Head(c2s) = c2s[1]
        BY <1>1, <2>1
      <4>2. ~Unexpected("session-request")
        BY <1>4, <2>1, <4>1 DEF Unexpected, ReceiveNothing, Receive
      <4>3. QED
        BY <4>2 DEF RefuseSession
    <3>2. QED
      BY <1>1, <3>1 DEF ServerStep, Thread, AnnounceRound, RefuseRound, StartRound, SendState,
         AcceptAction, RejectAction, ReadDone, AbandonRound, TakeTurn, StopRound, EndRound,
         EndSession, At
  <2>3. CASE StartSession
    <3>1. PICK m \in Requests :
            /\ Receive(m) /\ m.problem \in KnownProblems
            /\ cfg' = ConfigOf(m.problem)
            /\ Write(SessionInit(cfg'))
      BY <2>3 DEF StartSession
    <3>2. cfg' \in Cfg
      BY <3>1, ConfigTypes, SessionAssumption
    <3>3. SessionInit(cfg') \in Replies
      BY <3>2, MessageTypes
    <3>4. Len(s2c') = 1 /\ s2c'[1] = SessionInit(cfg')
      <4> DEFINE e == SessionInit(cfg')
      <4>1. Write(e) /\ e \in Replies /\ open /\ s2c \in Seq(Replies)
        BY <1>1, <3>1, <3>3
      <4> HIDE DEF e
      <4>2. Len(s2c') = Len(s2c) + 1 /\ s2c'[Len(s2c) + 1] = e
        BY <4>1, Written
      <4>3. Len(s2c) = 0
        BY <1>1
      <4>4. QED
        BY <4>2, <4>3 DEF e
    <3>5. c2s' = <<>>
      BY <1>1, <2>1, <3>1, Received
    <3>6. pc' = "round_head" /\ round' = 1
      BY <2>3 DEF StartSession
    <3>7. QED
      BY <1>2, <2>1, <3>4, <3>5, <3>6 DEF Talking, Settled
  <2>4. CASE RefuseProblem
    <3>1. PICK m \in Requests : Receive(m)
      BY <2>4 DEF RefuseProblem
    <3>2. PICK e : e = Error("bad problem")
      OBVIOUS
    <3>3. e \in Replies /\ e.type = "error"
      BY <3>2, MessageTypes DEF Error
    <3>4. Write(e) /\ log' = Append(log, e) /\ pc' = "returned"
      BY <2>4, <3>2 DEF RefuseProblem, Return
    <3>5. Len(s2c') = 1 /\ s2c'[1] = e /\ s2c' \in Seq(Replies)
      <4>1. Len(s2c') = Len(s2c) + 1 /\ s2c'[Len(s2c) + 1] = e /\ s2c' \in Seq(Replies)
        BY <1>1, <3>3, <3>4, Written, Zenon
      <4>2. Len(s2c) = 0
        BY <1>1
      <4>3. QED
        BY <4>1, <4>2
    <3>6. c2s' = <<>>
      BY <1>1, <2>1, <3>1, Received
    <3>7. \E i \in DOMAIN log' : log'[i].type = "error"
      BY <1>1, <3>3, <3>4
    <3>8. QED
      BY <1>2, <2>1, <3>3, <3>4, <3>5, <3>6, <3>7 DEF Troubled
  <2>5. QED
    BY <2>2, <2>3, <2>4
<1>5. QED
  BY <1>3, <1>4

(* After an error the thread goes on on its own; what it may still write   *)
(* is nothing that would draw the client into a session again.             *)
LEMMA ServerInTrouble ==
  ASSUME TypeOK, Ends, Troubled, ServerStep
  PROVE  Troubled'
<1>1. /\ pc # "read_session" /\ s2c \in Seq(Replies) /\ c2s \in Seq(Requests)
      /\ log \in Seq(Replies \cup [type : {"action"}, action : Actions])
  BY DEF Troubled, TypeOK
<1>2. UNCHANGED player /\ Thread
  BY DEF ServerStep
<1>3. log' = log \/ \E e : log' = Append(log, e)
  BY <1>1, <1>2 DEF Thread, StartSession, RefuseProblem, RefuseSession,
     AnnounceRound, RefuseRound, StartRound, SendState, AcceptAction, RejectAction, ReadDone,
     AbandonRound, TakeTurn, StopRound, EndRound, EndSession, wire
<1>4. \E i \in DOMAIN log' : log'[i].type = "error"
  <2>1. PICK i \in DOMAIN log : log[i].type = "error"
    BY DEF Troubled
  <2>2. i \in DOMAIN log' /\ log'[i] = log[i]
    BY <1>1, <1>3, <2>1
  <2>3. QED
    BY <2>1, <2>2
<1>5. pc' # "read_session"
  BY <1>1, <1>2 DEF Thread, StartSession, RefuseProblem, RefuseSession,
     AnnounceRound, RefuseRound, StartRound, SendState, AcceptAction, RejectAction, ReadDone,
     AbandonRound, TakeTurn, StopRound, EndRound, EndSession, At, Return
<1>6. s2c' = s2c \/ \E m : m.type # "session-init" /\ s2c' = Append(s2c, m)
  <2>1. \A m : Write(m) => s2c' = s2c \/ s2c' = Append(s2c, m)
    BY DEF Write
  <2>2. ASSUME AnnounceRound PROVE \E m : m.type = "round-init" /\ Write(m)
    BY <2>2 DEF AnnounceRound, RoundInit
  <2>3. ASSUME SendState PROVE \E m : m.type = "state" /\ Write(m)
    BY <2>3 DEF SendState, StateMsg
  <2>4. ASSUME RejectAction PROVE \E m : m.type = "error" /\ Write(m)
    BY <2>4 DEF RejectAction, Error
  <2>5. ASSUME EndRound PROVE \E m : m.type = "end-round" /\ Write(m)
    BY <2>5 DEF EndRound, EndRoundMsg
  <2>6. ASSUME EndSession PROVE \E m : m.type = "end-session" /\ Write(m)
    BY <2>6 DEF EndSession, EndSessionMsg
  <2>7. ASSUME ~(AnnounceRound \/ SendState \/ RejectAction \/ EndRound \/ EndSession)
        PROVE  s2c' = s2c
    BY <1>1, <1>2, <2>7 DEF Thread, StartSession, RefuseProblem, RefuseSession,
       RefuseRound, StartRound, AcceptAction, ReadDone, AbandonRound, TakeTurn, StopRound, At, wire
  <2>8. QED
    BY <2>1, <2>2, <2>3, <2>4, <2>5, <2>6, <2>7
<1>7. /\ \A i \in DOMAIN s2c' : s2c'[i].type # "session-init"
      /\ s2c # <<>> => s2c' # <<>> /\ s2c'[1] = s2c[1]
  <2>1. CASE s2c' = s2c
    BY <2>1 DEF Troubled
  <2>2. ASSUME NEW m, m.type # "session-init", s2c' = Append(s2c, m)
        PROVE  /\ \A i \in DOMAIN s2c' : s2c'[i].type # "session-init"
               /\ s2c # <<>> => s2c' # <<>> /\ s2c'[1] = s2c[1]
    <3>1. DOMAIN s2c = 1 .. Len(s2c) /\ DOMAIN s2c' = 1 .. Len(s2c) + 1 /\ Len(s2c) \in Nat
      BY <1>1, <2>2
    <3>2. s2c'[Len(s2c) + 1] = m /\ \A i \in 1 .. Len(s2c) : s2c'[i] = s2c[i]
      BY <1>1, <2>2
    <3>3. s2c # <<>> => 1 \in 1 .. Len(s2c)
      BY <1>1
    <3>4. \A i \in 1 .. Len(s2c) + 1 : i = Len(s2c) + 1 \/ i \in 1 .. Len(s2c)
      BY <3>1
    <3>5. \A i \in DOMAIN s2c' : s2c'[i].type # "session-init"
      BY <2>2, <3>1, <3>2, <3>4 DEF Troubled
    <3>6. s2c' # <<>>
      BY <1>1, <2>2
    <3>7. QED
      BY <3>2, <3>3, <3>5, <3>6
  <2>3. QED
    BY <1>6, <2>1, <2>2
<1>8. open' = open /\ (c2s = <<>> => c2s' = <<>>)
  BY <1>1, <1>2 DEF Thread, StartSession, RefuseProblem, RefuseSession,
     AnnounceRound, RefuseRound, StartRound, SendState, AcceptAction, RejectAction, ReadDone,
     AbandonRound, TakeTurn, StopRound, EndRound, EndSession, wire, At,
     Receive, Unexpected, ReceiveNothing
<1>9. QED
  BY <1>2, <1>4, <1>5, <1>7, <1>8 DEF Troubled, player

(* While the dialogue is in step the thread reads what it waits for.       *)
LEMMA NotCutOff ==
  ASSUME TypeOK, Ends, open, Talking \/ (Troubled /\ OneProblem)
  PROVE  ~RefuseRound /\ ~AbandonRound
<1>1. c2s \in Seq(Requests)
  BY DEF TypeOK
<1>2. \A m : Receive(m) => c2s # <<>> /\ m = c2s[1]
  BY <1>1 DEF Receive
<1>3. ~ReceiveNothing
  BY DEF ReceiveNothing
<1>4. CASE c2s = <<>>
  BY <1>2, <1>3, <1>4 DEF RefuseRound, AbandonRound, Unexpected
<1>5. CASE Asks({"round-request"}) /\ pc # "read_act"
  BY <1>2, <1>3, <1>5 DEF RefuseRound, AbandonRound, Unexpected, Asks, At
<1>6. CASE Asks({"act", "done"}) /\ pc = "read_act"
  BY <1>2, <1>3, <1>6 DEF RefuseRound, AbandonRound, Unexpected, Asks, At
<1>7. Asks({"round-request"}) /\ Settled(0) => pc # "read_act"
  BY DEF Settled, Over
<1>8. QED
  BY <1>4, <1>5, <1>6, <1>7 DEF Talking, Troubled

(* One message more, one action, error or end: the thread stays in step.   *)
LEMMA ServerTalks ==
  ASSUME TypeOK, Ends, Talking, ServerStep
  PROVE  Talking' \/ Troubled'
<1>1. /\ open /\ alive /\ c2s \in Seq(Requests) /\ s2c \in Seq(Replies) /\ Len(s2c) \in Nat
      /\ round \in Nat /\ cfg.round_limit \in Int /\ s \in States
      /\ log \in Seq(Replies \cup [type : {"action"}, action : Actions])
  BY DEF TypeOK, Ends, Cfg, Talking
<1>2. /\ UNCHANGED player /\ Thread
      /\ cpc' = cpc /\ rounds_left' = rounds_left /\ seen' = seen
  BY DEF ServerStep, player
<1>3. pc # "read_session"
  BY DEF Talking, Settled, InPlay, Over
<1>4. CASE AnnounceRound
  <2>1. PICK m \in Requests : Receive(m) /\ m.type = "round-request"
    BY <1>4 DEF AnnounceRound
  <2>2. c2s # <<>> /\ pc = "round_head" /\ pc' = "round_init" /\ round' = round /\ cfg' = cfg
    BY <1>4, <2>1 DEF AnnounceRound, At, Receive, session
  <2>3. cpc = "round_init" /\ Len(c2s) = 1 /\ Len(s2c) = 0 /\ Counts(0)
    BY <2>2 DEF Talking, Settled, Over, Asks
  <2> DEFINE e == RoundInit(round, TimeLeft, cfg.round_limit - round)
  <2>4. e \in Replies /\ e.type = "round-init"
    <3>1. round \in Int /\ cfg.round_limit - round \in Int /\ TimeLeft \in Int
      BY <1>1, DurationTypes
    <3>2. QED
      BY <3>1, MessageTypes DEF RoundInit
  <2>5. Write(e)
    BY <1>4 DEF AnnounceRound
  <2> HIDE DEF e
  <2>6. Len(s2c') = Len(s2c) + 1 /\ s2c'[Len(s2c) + 1] = e
    BY <1>1, <2>4, <2>5, Written, Zenon
  <2>7. Len(s2c') = 1 /\ s2c'[1].type = "round-init"
    BY <2>3, <2>4, <2>6
  <2>8. c2s' = <<>>
    BY <1>1, <2>1, <2>3, Received
  <2>9. Counts(0)'
    BY <1>2, <2>2, <2>3 DEF Counts
  <2>10. QED
    BY <1>2, <2>2, <2>3, <2>7, <2>8, <2>9 DEF Talking, InPlay
<1>5. CASE StartRound \/ TakeTurn \/ StopRound
  <2>1. /\ pc \in {"round_init", "check_time"} /\ pc' = "turn_head"
        /\ c2s' = c2s /\ s2c' = s2c /\ round' = round /\ cfg' = cfg
    BY <1>5 DEF StartRound, TakeTurn, StopRound, At, wire, session
  <2>2. \/ cpc = "round_init" /\ c2s = <<>> /\ Len(s2c) = 1 /\ Counts(0) /\ s2c[1].type = "round-init"
        \/ cpc = "response" /\ c2s = <<>> /\ Len(s2c) = 0 /\ Counts(0)
    BY <2>1 DEF Talking, InPlay, Settled, Over
  <2>3. Counts(0)'
    BY <1>2, <2>1, <2>2 DEF Counts
  <2>4. QED
    BY <1>2, <2>1, <2>2, <2>3 DEF Talking, InPlay
<1>6. CASE SendState
  <2>1. /\ pc = "turn_head" /\ pc' = "read_act" /\ c2s' = c2s /\ Write(StateMsg(s))
        /\ round' = round /\ cfg' = cfg /\ s' = s
    BY <1>6 DEF SendState, At, locals, session, game
  <2>2. \/ cpc = "round_init" /\ c2s = <<>> /\ Len(s2c) = 1 /\ Counts(0) /\ s2c[1].type = "round-init"
        \/ cpc = "response" /\ c2s = <<>> /\ Len(s2c) = 0 /\ Counts(0)
    BY <2>1 DEF Talking, InPlay, Settled, Over
  <2>3. StateMsg(s) \in Replies
    BY <1>1, MessageTypes
  <2>4. /\ Len(s2c') = Len(s2c) + 1 /\ s2c'[Len(s2c) + 1] = StateMsg(s)
        /\ \A i \in 1 .. Len(s2c) : s2c'[i] = s2c[i]
    BY <1>1, <2>1, <2>3, Written, Zenon
  <2>5. Counts(0)'
    BY <1>2, <2>1, <2>2 DEF Counts
  <2>6. StateMsg(s)' = StateMsg(s)
    BY <2>1 DEF StateMsg
  <2>7. CASE cpc = "round_init"
    <3>1. Len(s2c') = 2 /\ s2c'[2] = StateMsg(s)' /\ s2c'[1].type = "round-init"
      <4>1. Len(s2c) = 1 /\ s2c[1].type = "round-init" /\ 1 \in 1 .. 1
        BY <2>2, <2>7
      <4>2. s2c'[1] = s2c[1]
        BY <2>4, <4>1
      <4>3. QED
        BY <2>4, <2>6, <4>1, <4>2
    <3>2. QED
      BY <1>2, <2>1, <2>2, <2>5, <2>7, <3>1 DEF Talking, InPlay
  <2>8. CASE cpc = "response"
    <3>1. Len(s2c') = 1 /\ s2c'[1] = StateMsg(s)'
      BY <2>2, <2>4, <2>6, <2>8
    <3>2. QED
      BY <1>2, <2>1, <2>2, <2>5, <2>8, <3>1 DEF Talking, InPlay
  <2>9. QED
    BY <2>2, <2>7, <2>8
<1>7. ASSUME AcceptAction \/ RejectAction \/ ReadDone
      PROVE  /\ pc' = "check_time" /\ c2s' = <<>> /\ s2c = <<>> /\ cpc = "response"
             /\ Counts(0)'
  <2>1. PICK m \in Requests : Receive(m)
    BY <1>7 DEF AcceptAction, RejectAction, ReadDone
  <2>2. c2s # <<>> /\ pc = "read_act" /\ pc' = "check_time" /\ round' = round /\ cfg' = cfg
    BY <1>7, <2>1 DEF AcceptAction, RejectAction, ReadDone, At, Receive, session
  <2>3. cpc = "response" /\ Len(c2s) = 1 /\ s2c = <<>> /\ Counts(0)
    BY <2>2 DEF Talking, Settled, Over, Asks
  <2>4. c2s' = <<>>
    BY <1>1, <2>1, <2>3, Received
  <2>5. QED
    BY <1>2, <2>2, <2>3, <2>4 DEF Counts
<1>8. CASE AcceptAction \/ ReadDone
  <2>1. s2c' = s2c
    BY <1>8 DEF AcceptAction, ReadDone
  <2>2. QED
    BY <1>2, <1>7, <1>8, <2>1 DEF Talking, InPlay
<1>9. CASE RejectAction
  <2>0. \E why \in {"disabled action", "bad action"} :
          log' = Append(log, Error(why)) /\ Write(Error(why))
    BY <1>9 DEF RejectAction
  <2>a. \A why \in {"disabled action", "bad action"} : Error(why) \in Replies /\ Error(why).type = "error"
    BY MessageTypes DEF Error
  <2>1. PICK e : e \in Replies /\ e.type = "error" /\ log' = Append(log, e) /\ Write(e)
    BY <2>0, <2>a
  <2>2. e \in Replies /\ e.type = "error"
    BY <2>1
  <2>3. Len(s2c') = Len(s2c) + 1 /\ s2c'[Len(s2c) + 1] = e /\ s2c' \in Seq(Replies)
    BY <1>1, <2>1, <2>2, Written, Zenon
  <2>4. Len(s2c') = 1 /\ s2c'[1].type = "error"
    BY <1>7, <1>9, <2>2, <2>3
  <2>5. \E i \in DOMAIN log' : log'[i].type = "error"
    <3>1. Len(log) + 1 \in DOMAIN log' /\ log'[Len(log) + 1] = e
      BY <1>1, <2>1, <2>2
    <3>2. QED
      BY <2>2, <3>1
  <2>6. (\A i \in DOMAIN s2c' : s2c'[i].type # "session-init") /\ s2c' # <<>>
    <3>1. \A q \in Seq(Replies) : Len(q) = 1 => q # <<>> /\ \A i \in DOMAIN q : i = 1
      OBVIOUS
    <3>2. Len(s2c') = 1 /\ s2c' \in Seq(Replies)
      BY <2>3, <2>4
    <3>3. s2c' # <<>> /\ \A i \in DOMAIN s2c' : i = 1
      BY <3>1, <3>2, Zenon
    <3>4. s2c'[1].type = "error"
      BY <2>4
    <3>5. QED
      BY <3>3, <3>4
  <2>7. QED
    BY <1>2, <1>7, <1>9, <2>4, <2>5, <2>6 DEF Troubled
<1>10. CASE EndRound
  <2> DEFINE e == EndRoundMsg(round, s, TimeSpent, turn - 1)
  <2>1. /\ pc = "turn_head" /\ pc' = "round_head" /\ c2s' = c2s /\ Write(e)
        /\ round' = round + 1 /\ cfg' = cfg
    BY <1>10 DEF EndRound, At, session
  <2>2. e \in Replies /\ e.type = "end-round"
    <3>1. round \in Int /\ TimeSpent \in Int /\ turn - 1 \in Int
      BY DurationTypes DEF TypeOK
    <3>2. QED
      BY <1>1, <3>1, MessageTypes DEF EndRoundMsg
  <2> HIDE DEF e
  <2>3. \/ cpc = "round_init" /\ c2s = <<>> /\ Len(s2c) = 1 /\ Counts(0) /\ s2c[1].type = "round-init"
        \/ cpc = "response" /\ c2s = <<>> /\ Len(s2c) = 0 /\ Counts(0)
    BY <2>1 DEF Talking, InPlay, Settled, Over
  <2>4. /\ Len(s2c') = Len(s2c) + 1 /\ s2c'[Len(s2c) + 1] = e
        /\ \A i \in 1 .. Len(s2c) : s2c'[i] = s2c[i]
    BY <1>1, <2>1, <2>2, Written, Zenon
  <2>5. Counts(1)'
    BY SMTT(20), <1>1, <1>2, <2>1, <2>3 DEF Counts
  <2>6. CASE cpc = "round_init"
    <3>1. Len(s2c') = 2 /\ s2c'[2].type = "end-round" /\ s2c'[1].type = "round-init"
      <4>1. Len(s2c) = 1 /\ s2c[1].type = "round-init" /\ 1 \in 1 .. 1
        BY <2>3, <2>6
      <4>2. s2c'[1] = s2c[1]
        BY <2>4, <4>1
      <4>3. QED
        BY <2>2, <2>4, <4>1, <4>2
    <3>2. QED
      BY <1>2, <2>1, <2>3, <2>5, <2>6, <3>1 DEF Talking, InPlay, Settled
  <2>7. CASE cpc = "response"
    <3>1. Len(s2c') = 1 /\ s2c'[1].type = "end-round"
      BY <2>2, <2>3, <2>4, <2>7
    <3>2. QED
      BY <1>2, <2>1, <2>3, <2>5, <2>7, <3>1 DEF Talking, InPlay, Settled
  <2>8. QED
    BY <2>3, <2>6, <2>7
<1>11. CASE EndSession
  <2> DEFINE e == EndSessionMsg(round - 1, cfg.round_limit, success_count,
                                total_time, total_turns, total_metric)
  <2>1. /\ pc = "round_head" /\ pc' = "returned" /\ c2s' = c2s /\ Write(e)
        /\ log' = Append(log, e) /\ round' = round /\ cfg' = cfg
    BY <1>11 DEF EndSession, At, Return, locals, session
  <2>2. e \in Replies /\ e.type = "end-session"
    <3>1. /\ round - 1 \in Int /\ success_count \in Int /\ total_time \in Int
          /\ total_turns \in Int /\ total_metric \in Int
      BY DEF TypeOK
    <3>2. QED
      BY <1>1, <3>1, MessageTypes DEF EndSessionMsg
  <2> HIDE DEF e
  <2>3. /\ Len(s2c') = Len(s2c) + 1 /\ s2c'[Len(s2c) + 1] = e
        /\ \A i \in 1 .. Len(s2c) : s2c'[i] = s2c[i]
    BY <1>1, <2>1, <2>2, Written, Zenon
  <2>4. Over'
    BY <1>1, <2>1, <2>2 DEF Over
  <2>5. ASSUME NEW n \in {0, 1, 2}, Len(s2c) = n PROVE Settled(n)'
    BY <2>2, <2>3, <2>4, <2>5 DEF Settled
  <2>6. (\A k \in {0, 1} : Counts(k) => Counts(k)') /\ SessionInit(cfg)' = SessionInit(cfg)
    BY <1>2, <2>1 DEF Counts, SessionInit
  <2>7. \A n \in {0, 1, 2} : Settled(n) => Len(s2c) = n
    BY <2>1 DEF Settled, Over
  <2>8. CASE cpc = "session_init"
    <3>1. Settled(1) /\ c2s = <<>> /\ round = 1 /\ s2c[1] = SessionInit(cfg)
      BY <2>8 DEF Talking
    <3>2. Settled(1)' /\ s2c'[1] = SessionInit(cfg)'
      BY <2>3, <2>5, <2>6, <2>7, <3>1
    <3>3. QED
      BY <1>2, <2>1, <2>8, <3>1, <3>2 DEF Talking
  <2>9. CASE cpc = "round_head"
    <3>1. Settled(0) /\ c2s = <<>> /\ Counts(1)
      BY <2>9 DEF Talking
    <3>2. Settled(0)' /\ Counts(1)'
      BY <2>5, <2>6, <2>7, <3>1
    <3>3. QED
      BY <1>2, <2>1, <2>9, <3>1, <3>2 DEF Talking
  <2>10. CASE cpc = "round_init" /\ Settled(0)
    <3>1. Asks({"round-request"}) /\ Counts(0)
      <4>1. Len(s2c) = 0
        BY <2>7, <2>10
      <4>2. ~InPlay(1)
        BY <2>1, <4>1 DEF InPlay, Settled, Over
      <4>3. QED
        BY <2>10, <4>2 DEF Talking
    <3>2. Settled(0)' /\ Counts(0)' /\ Asks({"round-request"})'
      BY <2>1, <2>5, <2>6, <2>7, <2>10, <3>1 DEF Asks
    <3>3. QED
      BY <1>2, <2>10, <3>2 DEF Talking
  <2>11. CASE cpc = "round_init" /\ ~Settled(0)
    <3>1. InPlay(1) /\ c2s = <<>> /\ s2c[1].type = "round-init"
      BY <2>11 DEF Talking
    <3>2. Settled(2) /\ s2c[2].type = "end-round" /\ Counts(1)
      BY <2>1, <3>1 DEF InPlay
    <3>3. /\ Settled(2)' /\ s2c'[2].type = "end-round" /\ Counts(1)'
          /\ s2c'[1].type = "round-init"
      BY <2>3, <2>5, <2>6, <2>7, <3>1, <3>2
    <3>4. InPlay(1)'
      BY <3>3 DEF InPlay
    <3>5. QED
      BY <1>2, <2>1, <2>11, <3>1, <3>3, <3>4 DEF Talking
  <2>12. CASE cpc = "response"
    <3>1. InPlay(0) /\ c2s = <<>>
      BY <2>1, <2>12 DEF Talking
    <3>2. Settled(1) /\ s2c[1].type = "end-round" /\ Counts(1)
      BY <2>1, <3>1 DEF InPlay
    <3>3. Settled(1)' /\ s2c'[1].type = "end-round" /\ Counts(1)'
      BY <2>3, <2>5, <2>6, <2>7, <3>2
    <3>4. InPlay(0)'
      BY <3>3 DEF InPlay
    <3>5. QED
      BY <1>2, <2>1, <2>12, <3>1, <3>4 DEF Talking
  <2>13. cpc # "decide"
    BY <2>1 DEF Talking
  <2>14. QED
    BY <2>8, <2>9, <2>10, <2>11, <2>12, <2>13 DEF Talking
<1>12. ~RefuseRound /\ ~AbandonRound
  BY <1>1, NotCutOff
<1>13. ~StartSession /\ ~RefuseProblem /\ ~RefuseSession
  BY <1>3 DEF StartSession, RefuseProblem, RefuseSession, At
<1>14. QED
  BY <1>2, <1>4, <1>5, <1>6, <1>8, <1>9, <1>10, <1>11, <1>12, <1>13 DEF Thread

(***************************************************************************)
(* The client, step by step.                                               *)
(***************************************************************************)
LEMMA ClientTalks ==
  ASSUME TypeOK, Ends, Fresh \/ Talking \/ Finished \/ Troubled, ClientStep
  PROVE  Fresh' \/ Talking' \/ Finished' \/ Troubled'
<1>1. /\ c2s \in Seq(Requests) /\ s2c \in Seq(Replies) /\ Len(s2c) \in Nat
      /\ round \in Nat /\ cfg.round_limit \in Int
  BY DEF TypeOK, Cfg
<1>2. /\ log' = log /\ pc' = pc /\ cfg' = cfg /\ round' = round /\ s' = s
      /\ (Over' <=> Over)
  BY DEF ClientStep, locals, session, game, Over
<1>3. SessionInit(cfg)' = SessionInit(cfg) /\ StateMsg(s)' = StateMsg(s)
  BY <1>2 DEF SessionInit, StateMsg
<1>4. CASE C!RequestSession
  <2>1. /\ cpc = "next_problem" /\ cpc' = "session_init" /\ s2c' = s2c /\ open' = open
        /\ todo # <<>> /\ C!Send([type |-> "session-request", problem |-> Head(todo)])
    BY <1>4 DEF C!RequestSession
  <2>2. CASE Fresh
    <3>1. Len(c2s') = 1 /\ c2s'[1].type = "session-request"
      BY <2>1, <2>2, Sent DEF Fresh, Asks
    <3>2. QED
      BY <1>2, <2>1, <2>2, <3>1 DEF Fresh, Asks
  <2>3. CASE Finished
    BY <1>2, <2>1, <2>3 DEF Finished
  <2>4. CASE Troubled
    <3>1. ~(OneProblem /\ open)
      BY <2>1, <2>4 DEF Troubled, Ends
    <3>2. QED
      BY <1>2, <2>1, <2>4, <3>1 DEF Troubled
  <2>5. ~Talking
    BY <2>1 DEF Talking
  <2>6. QED
    BY <2>2, <2>3, <2>4, <2>5
<1>5. CASE C!ReadSessionInit
  <2>1. PICK m : /\ C!Hear(m)
                 /\ IF m.type = "session-init"
                    THEN rounds_left' = m.rounds /\ cpc' = "round_head"
                    ELSE rounds_left' = 0 /\ cpc' = "next_problem"
    BY <1>5 DEF C!ReadSessionInit
  <2>2. cpc = "session_init" /\ c2s' = c2s /\ open' = open
    BY <1>5 DEF C!ReadSessionInit
  <2>3. /\ Len(s2c) >= 1 /\ m = s2c[1] /\ s2c' \in Seq(Replies) /\ Len(s2c') = Len(s2c) - 1
        /\ \A i \in 1 .. Len(s2c') : s2c'[i] = s2c[i+1]
    BY <1>1, <2>1, Heard
  <2>4. CASE Talking
    <3>1. c2s = <<>> /\ Settled(1) /\ round = 1 /\ m = SessionInit(cfg)
      BY <2>2, <2>3, <2>4 DEF Talking
    <3>2. m.type = "session-init" /\ m.rounds = cfg.round_limit
      BY <3>1 DEF SessionInit
    <3>3. rounds_left' = cfg.round_limit /\ cpc' = "round_head"
      BY <2>1, <3>2
    <3>4. Settled(0)'
      BY <1>1, <1>2, <2>3, <3>1 DEF Settled
    <3>5. Counts(1)'
      BY <1>1, <1>2, <3>1, <3>3 DEF Counts
    <3>6. QED
      BY <2>2, <3>1, <3>3, <3>4, <3>5 DEF Talking
  <2>5. CASE Troubled
    <3>1. m.type # "session-init"
      BY <1>1, <2>3, <2>5 DEF Troubled
    <3>2. \A i \in DOMAIN s2c' : s2c'[i].type # "session-init"
      <4>1. \A i \in 1 .. Len(s2c') : i + 1 \in DOMAIN s2c
        BY <1>1, <2>3
      <4>2. DOMAIN s2c' = 1 .. Len(s2c')
        BY <2>3
      <4>3. QED
        BY <2>3, <2>5, <4>1, <4>2 DEF Troubled
    <3>3. QED
      BY <1>2, <2>1, <2>2, <2>5, <3>1, <3>2 DEF Troubled
  <2>6. s2c # <<>>
    BY <2>3
  <2>7. QED
    BY <2>2, <2>4, <2>5, <2>6 DEF Fresh, Finished
<1>6. CASE C!RequestRound
  <2>1. /\ cpc = "round_head" /\ cpc' = "round_init" /\ s2c' = s2c /\ rounds_left' = rounds_left - 1
        /\ C!Send([type |-> "round-request"])
    BY <1>6 DEF C!RequestRound
  <2>2. c2s = <<>> /\ Settled(0) /\ Counts(1)
    BY <2>1 DEF Fresh, Talking, Finished, Troubled
  <2>3. Asks({"round-request"})'
    BY <2>1, <2>2, Sent DEF Asks
  <2>4. Settled(0)' /\ Counts(0)'
    BY <1>1, <1>2, <2>1, <2>2 DEF Settled, Counts
  <2>5. QED
    BY <2>1, <2>3, <2>4 DEF Talking
<1>7. CASE C!ReadRoundInit
  <2>1. PICK m : C!Hear(m) /\ cpc' = IF m.type = "round-init" THEN "response" ELSE "next_problem"
    BY <1>7 DEF C!ReadRoundInit
  <2>2. cpc = "round_init" /\ c2s' = c2s /\ open' = open /\ rounds_left' = rounds_left
    BY <1>7 DEF C!ReadRoundInit
  <2>3. /\ Len(s2c) >= 1 /\ m = s2c[1] /\ s2c' \in Seq(Replies) /\ Len(s2c') = Len(s2c) - 1
        /\ \A i \in 1 .. Len(s2c') : s2c'[i] = s2c[i+1]
    BY <1>1, <2>1, Heard
  <2>4. CASE Settled(0)
    <3>1. Over /\ Len(s2c) = 1 /\ s2c[1].type = "end-session"
      BY <1>1, <2>3, <2>4 DEF Settled
    <3>2. cpc' = "next_problem" /\ s2c' = <<>>
      BY <2>1, <2>3, <3>1
    <3>3. QED
      BY <1>2, <3>1, <3>2 DEF Finished
  <2>5. CASE c2s = <<>> /\ InPlay(1) /\ s2c[1].type = "round-init"
    <3>1. cpc' = "response"
      BY <2>1, <2>3, <2>5
    <3>2. Counts(0)' <=> Counts(0)
      BY <1>2, <2>2 DEF Counts
    <3>3. Counts(1)' <=> Counts(1)
      BY <1>2, <2>2 DEF Counts
    <3>4. Settled(2) => Settled(1)' /\ s2c'[1] = s2c[2]
      BY <1>1, <1>2, <2>3 DEF Settled
    <3>5. Len(s2c) = 2 => Len(s2c') = 1 /\ s2c'[1] = s2c[2]
      BY <2>3
    <3>6. InPlay(0)'
      BY <1>2, <1>3, <2>3, <2>5, <3>2, <3>3, <3>4, <3>5 DEF InPlay
    <3>7. QED
      BY <2>2, <2>5, <3>1, <3>6 DEF Talking
  <2>6. QED
    BY <2>2, <2>4, <2>5 DEF Fresh, Talking, Finished, Troubled
<1>8. CASE C!ReadResponse
  <2>1. PICK m : /\ C!Hear(m) /\ cpc' = C!AfterResponse(m.type)
                 /\ seen' = IF m.type = "state" THEN m.state ELSE seen
    BY <1>8 DEF C!ReadResponse
  <2>2. cpc = "response" /\ c2s' = c2s /\ open' = open /\ rounds_left' = rounds_left
    BY <1>8 DEF C!ReadResponse
  <2>3. /\ Len(s2c) >= 1 /\ m = s2c[1] /\ s2c' \in Seq(Replies) /\ Len(s2c') = Len(s2c) - 1
        /\ \A i \in 1 .. Len(s2c') : s2c'[i] = s2c[i+1]
    BY <1>1, <2>1, Heard
  <2>4. s2c # <<>>
    BY <2>3
  <2>5. CASE Talking
    <3>1. c2s = <<>> /\ InPlay(0)
      BY <2>2, <2>4, <2>5 DEF Talking
    <3>2. CASE pc = "read_act" /\ Len(s2c) = 1 /\ s2c[1] = StateMsg(s) /\ Counts(0)
      <4>1. m.type = "state" /\ m.state = s
        BY <2>3, <3>2 DEF StateMsg
      <4>2. cpc' = "decide" /\ seen' = s /\ s2c' = <<>>
        BY <2>1, <2>3, <3>2, <4>1 DEF C!AfterResponse
      <4>3. Counts(0)'
        BY <1>2, <2>2, <3>2 DEF Counts
      <4>4. QED
        BY <1>2, <2>2, <3>1, <3>2, <4>2, <4>3 DEF Talking
    <3>3. CASE Settled(1) /\ s2c[1].type = "end-round" /\ Counts(1)
      <4>1. cpc' = "round_head"
        BY <2>1, <2>3, <3>3 DEF C!AfterResponse
      <4>2. Settled(0)'
        BY <1>1, <1>2, <2>3, <3>3 DEF Settled
      <4>3. Counts(1)'
        BY <1>2, <2>2, <3>3 DEF Counts
      <4>4. QED
        BY <2>2, <3>1, <4>1, <4>2, <4>3 DEF Talking
    <3>4. QED
      BY <1>1, <2>3, <3>1, <3>2, <3>3 DEF InPlay
  <2>6. CASE Troubled
    <3>1. m.type = "error"
      BY <2>2, <2>3, <2>6 DEF Troubled
    <3>2. cpc' = "next_problem"
      BY <2>1, <3>1 DEF C!AfterResponse
    <3>3. \A i \in DOMAIN s2c' : s2c'[i].type # "session-init"
      <4>1. \A i \in 1 .. Len(s2c') : i + 1 \in DOMAIN s2c
        BY <1>1, <2>3
      <4>2. DOMAIN s2c' = 1 .. Len(s2c')
        BY <2>3
      <4>3. QED
        BY <2>3, <2>6, <4>1, <4>2 DEF Troubled
    <3>4. QED
      BY <1>2, <2>2, <2>6, <3>2, <3>3 DEF Troubled
  <2>7. QED
    BY <2>2, <2>5, <2>6 DEF Fresh, Finished
<1>9. CASE C!Decide
  <2>1. /\ cpc = "decide" /\ cpc' = "response" /\ s2c' = s2c /\ rounds_left' = rounds_left
        /\ \E m : m.type \in {"act", "done"} /\ C!Send(m)
    <3>1. /\ cpc = "decide" /\ cpc' = "response" /\ s2c' = s2c /\ rounds_left' = rounds_left
          /\ \/ \E a \in Actions : C!Send([type |-> "act", action |-> a])
             \/ C!Send([type |-> "done"])
      BY <1>9, Zenon DEF C!Decide
    <3>2. CASE C!Send([type |-> "done"])
      <4>1. PICK m : m = [type |-> "done"]
        OBVIOUS
      <4>2. m.type = "done" /\ C!Send(m)
        BY <3>2, <4>1
      <4>3. QED
        BY <3>1, <4>2
    <3>3. CASE \E a \in Actions : C!Send([type |-> "act", action |-> a])
      <4>1. PICK a \in Actions : C!Send([type |-> "act", action |-> a])
        BY <3>3
      <4>2. PICK m : m = [type |-> "act", action |-> a]
        OBVIOUS
      <4>3. m.type = "act" /\ C!Send(m)
        BY <4>1, <4>2
      <4>4. QED
        BY <3>1, <4>3
    <3>4. QED
      BY <3>1, <3>2, <3>3
  <2>2. c2s = <<>> /\ pc = "read_act" /\ s2c = <<>> /\ Counts(0)
    BY <2>1 DEF Fresh, Talking, Finished, Troubled
  <2>3. Asks({"act", "done"})'
    BY <2>1, <2>2, Sent DEF Asks
  <2>4. Counts(0)'
    BY <1>2, <2>1, <2>2 DEF Counts
  <2>5. QED
    BY <1>2, <2>1, <2>2, <2>3, <2>4 DEF Talking
<1>10. CASE C!ReadEndSession
  <2>1. PICK m : C!Hear(m)
    BY <1>10 DEF C!ReadEndSession
  <2>2. cpc \in {"end_session", "round_head"} /\ cpc' = "next_problem"
    BY <1>10 DEF C!ReadEndSession
  <2>3. Len(s2c) >= 1 /\ s2c' \in Seq(Replies) /\ Len(s2c') = Len(s2c) - 1
    BY <1>1, <2>1, Heard
  <2>4. Settled(0)
    BY <2>2 DEF Fresh, Talking, Finished, Troubled
  <2>5. Over /\ Len(s2c) = 1
    BY <1>1, <2>3, <2>4 DEF Settled
  <2>6. s2c' = <<>>
    BY <2>3, <2>5
  <2>7. QED
    BY <1>2, <2>2, <2>5, <2>6 DEF Finished
<1>11. CASE C!Exit
  <2>1. cpc = "next_problem" /\ todo = <<>> /\ open' = FALSE /\ s2c' = s2c /\ cpc' = "exited"
    BY <1>11 DEF C!Exit
  <2>2. CASE Finished
    BY <1>2, <2>1, <2>2 DEF Finished
  <2>3. CASE Troubled
    BY <1>2, <2>1, <2>3 DEF Troubled
  <2>4. QED
    BY <2>1, <2>2, <2>3 DEF Fresh, Talking
<1>12. QED
  BY <1>4, <1>5, <1>6, <1>7, <1>8, <1>9, <1>10, <1>11 DEF ClientStep, C!Step

(* The dialogue's invariant is preserved by every step of the two programs, *)
(* the clock and a crash of the client.                                    *)
LEMMA DialogueStep ==
  ASSUME TypeOK, DialogueInv, [ProtocolNext]_protocol
  PROVE  DialogueInv'
<1>1. Ends /\ Ends'
  BY EndsStep DEF DialogueInv
<1>2. CASE cpc' = "crashed"
  BY <1>1, <1>2 DEF DialogueInv
<1>3. CASE cpc = "crashed"
  <2>1. ~ClientStep
    BY <1>3 DEF ClientStep, C!Step, C!RequestSession, C!ReadSessionInit, C!ReadRoundInit,
       C!ReadResponse, C!ReadEndSession, C!RequestRound, C!Decide, C!Exit
  <2>2. cpc' = cpc \/ cpc' = "crashed"
    BY <2>1 DEF ProtocolNext, ServerStep, ClientCrash, C!Crash, TimePasses, player, protocol
  <2>3. QED
    BY <1>1, <1>3, <2>2 DEF DialogueInv
<1>4. CASE ClientStep /\ cpc # "crashed"
  BY <1>1, <1>4, ClientTalks DEF DialogueInv
<1>5. CASE ClientCrash
  BY <1>1, <1>5 DEF ClientCrash, C!Crash, DialogueInv
<1>6. CASE ServerStep /\ cpc # "crashed"
  <2>1. ~Finished
    BY <1>6 DEF Finished, Over, ServerStep, Thread, StartSession, RefuseProblem, RefuseSession,
       AnnounceRound, RefuseRound, StartRound, SendState, AcceptAction, RejectAction, ReadDone,
       AbandonRound, TakeTurn, StopRound, EndRound, EndSession, At
  <2>2. QED
    BY <1>1, <1>6, <2>1, ServerOpens, ServerTalks, ServerInTrouble DEF DialogueInv
<1>7. CASE TimePasses \/ UNCHANGED protocol
  <2>1. UNCHANGED <<c2s, s2c, open, log, pc, cfg, round, s, cpc, todo, rounds_left, seen>>
    BY <1>7 DEF TimePasses, Tick, protocol, vars, player, wire, locals, session, game
  <2>2. (Fresh' <=> Fresh) /\ (Finished' <=> Finished) /\ (Troubled' <=> Troubled) /\ (Over' <=> Over)
    BY <2>1 DEF Fresh, Finished, Troubled, Over, Asks
  <2>3. Talking' <=> Talking
    BY <2>1, <2>2 DEF Talking, Settled, InPlay, Counts, Asks, SessionInit, StateMsg
  <2>4. QED
    BY <1>1, <2>1, <2>2, <2>3 DEF DialogueInv
<1>8. QED
  BY <1>2, <1>3, <1>4, <1>5, <1>6, <1>7 DEF ProtocolNext

(* A session with the repository's client is a session: whatever is proved *)
(* of the thread against any client (SessionProofs)                        *)
(* holds of it.                                                            *)
THEOREM ProtocolIsSession == ProtocolSpec => Spec /\ [](DialogueInv /\ TypeOK)
<1>1. ProtocolInit => Init /\ DialogueInv /\ IInv
  <2> SUFFICES ASSUME ProtocolInit PROVE Init /\ DialogueInv /\ IInv
    OBVIOUS
  <2>1. Init /\ Ends
    BY EndsInit DEF ProtocolInit
  <2>2. Fresh
    <3>1. todo # <<>> /\ cpc = "next_problem"
      BY ProtocolAssumption DEF ProtocolInit, C!Init
    <3>2. QED
      BY <2>1, <3>1 DEF Init, Fresh
  <2>3. IInv
    BY <2>1, InvInit
  <2>4. QED
    BY <2>1, <2>2, <2>3 DEF DialogueInv
<1>2. IInv /\ DialogueInv /\ [ProtocolNext]_protocol => [Next]_vars /\ DialogueInv' /\ IInv'
  <2> SUFFICES ASSUME IInv, DialogueInv, [ProtocolNext]_protocol
               PROVE  [Next]_vars /\ DialogueInv' /\ IInv'
    OBVIOUS
  <2>1. TypeOK /\ Ends
    BY DEF IInv, DialogueInv
  <2>2. DialogueInv'
    BY <2>1, DialogueStep
  <2>3. CASE ServerStep \/ TimePasses
    BY <2>2, <2>3, InvStep DEF ServerStep, TimePasses, Next
  <2>4. CASE ClientStep \/ ClientCrash
    <3>1. Client
      BY <2>1, <2>4, ClientSteps DEF TypeOK
    <3>2. QED
      BY <2>2, <3>1, InvStep DEF Next
  <2>5. CASE UNCHANGED protocol
    BY <2>2, <2>5, InvStep DEF protocol
  <2>6. QED
    BY <2>3, <2>4, <2>5 DEF ProtocolNext
<1>3. IInv => TypeOK
  BY DEF IInv
<1>4. QED
  BY <1>1, <1>2, <1>3, PTL DEF ProtocolSpec, Spec

(* The planner decides on the state of the simulation, with nothing in     *)
(* flight and both sides counting the same rounds, however many problems   *)
(* are played over the connection and whatever went wrong in them.         *)
THEOREM DecisionsAreCurrent == ProtocolSpec => []DecidesOnCurrentState
<1>1. DialogueInv /\ TypeOK => DecidesOnCurrentState
  <2> SUFFICES ASSUME DialogueInv, TypeOK, cpc = "decide"
               PROVE  /\ alive /\ pc = "read_act" /\ seen = s /\ c2s = <<>> /\ s2c = <<>>
                      /\ rounds_left = cfg.round_limit - round
    BY DEF DecidesOnCurrentState
  <2>1. Talking
    BY DEF DialogueInv, Fresh, Finished, Troubled
  <2>2. c2s = <<>> /\ pc = "read_act" /\ s2c = <<>> /\ seen = s /\ Counts(0)
    BY <2>1 DEF Talking
  <2>3. rounds_left = cfg.round_limit - round
    BY <2>2 DEF Counts, TypeOK, Cfg
  <2>4. alive
    BY DEF DialogueInv, Ends
  <2>5. QED
    BY <2>2, <2>3, <2>4
<1>2. QED
  BY <1>1, ProtocolIsSession, PTL

(* A client that exits was told the end of its session, or of an error.    *)
THEOREM ExitIsInformed == ProtocolSpec => []ExitsInformed
<1>1. DialogueInv => ExitsInformed
  BY DEF DialogueInv, ExitsInformed, Fresh, Talking, Finished, Troubled, Over
<1>2. QED
  BY <1>1, ProtocolIsSession, PTL

(* A client that plays one problem is never cut off while it listens.      *)
THEOREM NobodyIsCutOff ==
  ASSUME OneProblem
  PROVE  ProtocolSpec => CutOffOnlyAfterHangUp
<1>1. DialogueInv /\ TypeOK => (ServerStep /\ (RefuseRound \/ AbandonRound) => ~open)
  <2> SUFFICES ASSUME DialogueInv, TypeOK, open, RefuseRound \/ AbandonRound PROVE FALSE
    OBVIOUS
  <2>1. Ends /\ pc \in {"round_head", "read_act"} /\ cpc # "crashed"
    BY DEF DialogueInv, Ends, RefuseRound, AbandonRound, At
  <2>2. Talking \/ Troubled
    BY <2>1 DEF DialogueInv, Fresh, Finished, Over
  <2>3. QED
    BY <2>1, <2>2, NotCutOff
<1>2. QED
  BY <1>1, ProtocolIsSession, PTL DEF CutOffOnlyAfterHangUp
=============================================================================
