--------------------------- MODULE SessionProofs ---------------------------
(***************************************************************************)
(* Theorems about a session and about what its log file shows (modules     *)
(* Session and SessionLog), for every planning problem, every              *)
(* configuration and every behaviour of the client and of the clock.       *)
(***************************************************************************)
EXTENDS SessionLog, FiniteSetTheorems, WellFoundedInduction, TLAPS

(* The larger of two integers bounds both and is one of them.              *)
LEMMA LargestLeast ==
  ASSUME NEW a \in Int, NEW b \in Int
  PROVE  /\ Largest(a, b) \in Int /\ Largest(a, b) >= a /\ Largest(a, b) >= b
         /\ Largest(a, b) \in {a, b}
         /\ Least(a, b) \in Int /\ Least(a, b) <= a /\ Least(a, b) <= b
         /\ Least(a, b) \in {a, b}
  BY DEF Largest, Least

(* Receiving leaves well-typed requests in the socket and returns one.     *)
LEMMA ReceiveTypes ==
  ASSUME c2s \in Seq(Requests), NEW m, Receive(m)
  PROVE  m \in Requests /\ c2s' \in Seq(Requests)
  BY DEF Receive

(* Writing a reply leaves well-typed replies in the socket.                *)
LEMMA WriteTypes ==
  ASSUME s2c \in Seq(Replies), alive \in BOOLEAN, NEW m \in Replies, Write(m)
  PROVE  s2c' \in Seq(Replies) /\ alive' \in BOOLEAN
  BY DEF Write

(* The configuration of every problem name is a configuration.             *)
LEMMA ConfigTypes ==
  ASSUME NEW p \in Problems
  PROVE  ConfigOf(p) \in Cfg
  BY SessionAssumption DEF ConfigOf

(* The durations computed from the clock are natural numbers.              *)
LEMMA DurationTypes ==
  ASSUME TypeOK
  PROVE  TimeLeft \in Nat /\ TimeSpent \in Nat
  BY DEF TypeOK, Cfg, TimeLeft, TimeSpent, Elapsed, Largest, Least

(* The messages the thread builds from well-typed values are replies.      *)
LEMMA MessageTypes ==
  /\ \A c \in Cfg : SessionInit(c) \in Replies
  /\ \A r, left, more \in Int : RoundInit(r, left, more) \in Replies
  /\ \A st \in States : StateMsg(st) \in Replies
  /\ \A why \in {"bad problem", "bad action", "disabled action"} : Error(why) \in Replies
  /\ \A r, spent, turns \in Int : \A st \in States : EndRoundMsg(r, st, spent, turns) \in Replies
  /\ \A rounds, limit, successes, time, turns, metric \in Int :
        EndSessionMsg(rounds, limit, successes, time, turns, metric) \in Replies
<1>1. \A c \in Cfg : SessionInit(c) \in Replies
  BY DEF Cfg, SessionInit, Replies
<1>2. \A r, left, more \in Int : RoundInit(r, left, more) \in Replies
  BY DEF RoundInit, Replies
<1>3. \A st \in States : StateMsg(st) \in Replies
  BY DEF StateMsg, Replies
<1>4. \A why \in {"bad problem", "bad action", "disabled action"} : Error(why) \in Replies
  BY DEF Error, Replies
<1>5. \A r, spent, turns \in Int : \A st \in States : EndRoundMsg(r, st, spent, turns) \in Replies
  <2> SUFFICES ASSUME NEW r \in Int, NEW spent \in Int, NEW turns \in Int, NEW st \in States
               PROVE  EndRoundMsg(r, st, spent, turns) \in Replies
    OBVIOUS
  <2>1. EndRoundMsg(r, st, spent, turns) \in
          [type : {"end-round"}, round : Int, state : States, goal : BOOLEAN,
           time_spent : Int, turns_used : Int]
    BY DEF EndRoundMsg
  <2>2. QED
    BY <2>1 DEF Replies
<1>6. \A rounds, limit, successes, time, turns, metric \in Int :
        EndSessionMsg(rounds, limit, successes, time, turns, metric) \in Replies
  BY DEF EndSessionMsg, Replies
<1>7. QED
  BY <1>1, <1>2, <1>3, <1>4, <1>5, <1>6

(* The initial states are well typed.                                      *)
LEMMA TypeInit == Init => TypeOK
<1> SUFFICES ASSUME Init PROVE TypeOK
  OBVIOUS
<1>1. s \in States /\ cfg \in Cfg /\ action \in Actions \cup {BadAction}
  BY SessionAssumption DEF Init
<1>2. /\ c2s \in Seq(Requests) /\ s2c \in Seq(Replies)
      /\ log \in Seq(Replies \cup [type : {"action"}, action : Actions])
  BY DEF Init
<1>3. open \in BOOLEAN /\ alive \in BOOLEAN /\ running \in BOOLEAN
  BY Zenon DEF Init
<1>4. QED
  BY <1>1, <1>2, <1>3 DEF Init, TypeOK, Labels

(* Every step of the thread, the clock and the client preserves the types. *)
LEMMA TypeStep == TypeOK /\ Counting /\ [Next]_vars => TypeOK'
<1> SUFFICES ASSUME TypeOK, Counting, [Next]_vars PROVE TypeOK'
  OBVIOUS
<1> DEFINE Entry == Replies \cup [type : {"action"}, action : Actions]
<1>a. \A e \in Replies : Append(log, e) \in Seq(Entry)
  BY DEF TypeOK
<1>1. CASE StartSession
  <2>1. PICK m \in Requests :
          /\ Receive(m) /\ m.type = "session-request" /\ m.problem \in KnownProblems
          /\ cfg' = ConfigOf(m.problem)
          /\ log' = Append(log, SessionInit(ConfigOf(m.problem)))
          /\ Write(SessionInit(ConfigOf(m.problem)))
    BY <1>1 DEF StartSession
  <2>2. ConfigOf(m.problem) \in Cfg
    BY <2>1, ConfigTypes, SessionAssumption
  <2>3. SessionInit(ConfigOf(m.problem)) \in Replies
    BY <2>2, MessageTypes
  <2>4. log' \in Seq(Entry)
    BY <1>a, <2>1, <2>3
  <2>5. s2c' \in Seq(Replies) /\ alive' \in BOOLEAN /\ c2s' \in Seq(Requests)
    BY <2>1, <2>3, WriteTypes, ReceiveTypes DEF TypeOK
  <2>6. total_turns' \in Int
    BY <1>1, SessionAssumption DEF StartSession
  <2>7. QED
    BY <1>1, <2>1, <2>2, <2>4, <2>5, <2>6 DEF StartSession, TypeOK, game, Labels
<1>2. CASE RefuseProblem
  <2>1. Error("bad problem") \in Replies
    BY MessageTypes
  <2>2. log' \in Seq(Entry)
    BY <1>a, <1>2, <2>1 DEF RefuseProblem
  <2>3. c2s' \in Seq(Requests) /\ s2c' \in Seq(Replies) /\ alive' \in BOOLEAN
    BY <1>2, <2>1, WriteTypes, ReceiveTypes DEF RefuseProblem, TypeOK
  <2>4. QED
    BY <1>2, <2>2, <2>3 DEF RefuseProblem, TypeOK, Return, Labels,
       locals, session, totals, game
<1>3. CASE RefuseSession \/ RefuseRound \/ AbandonRound
  <2>1. c2s' \in Seq(Requests)
    BY <1>3, ReceiveTypes DEF RefuseSession, RefuseRound, AbandonRound, Unexpected,
       ReceiveNothing, TypeOK
  <2>2. QED
    BY <1>3, <2>1 DEF RefuseSession, RefuseRound, AbandonRound, TypeOK, Return, Labels,
       locals, session, totals, game
<1>4. CASE AnnounceRound
  <2> DEFINE m == RoundInit(round, time_left', cfg.round_limit - round)
  <2>1. time_left' \in Nat
    BY <1>4, DurationTypes DEF AnnounceRound
  <2> HIDE DEF m
  <2>2. m \in Replies
    <3>1. round \in Int /\ cfg.round_limit - round \in Int /\ time_left' \in Int
      BY <2>1 DEF TypeOK, Cfg
    <3>2. QED
      BY <3>1, MessageTypes DEF m
  <2>3. log' \in Seq(Entry)
    BY <1>4, <1>a, <2>2 DEF AnnounceRound, m
  <2>4. c2s' \in Seq(Requests) /\ s2c' \in Seq(Replies) /\ alive' \in BOOLEAN
    BY <1>4, <2>2, WriteTypes, ReceiveTypes DEF AnnounceRound, TypeOK, m
  <2>5. QED
    BY <1>4, <2>1, <2>3, <2>4 DEF AnnounceRound, TypeOK, Labels, session, totals
<1>5. CASE StartRound
  BY <1>5, SessionAssumption DEF StartRound, TypeOK, Labels, wire, session, totals
<1>6. CASE SendState
  <2>1. StateMsg(s) \in Replies
    BY MessageTypes DEF TypeOK
  <2>2. log' \in Seq(Entry)
    BY <1>6, <1>a, <2>1 DEF SendState, TypeOK
  <2>3. s2c' \in Seq(Replies) /\ alive' \in BOOLEAN
    BY <1>6, <2>1, WriteTypes DEF SendState, TypeOK
  <2>4. QED
    BY <1>6, <2>2, <2>3 DEF SendState, TypeOK, Labels, locals, session, totals, game
<1>7. CASE AcceptAction
  <2>1. PICK m \in Requests :
          /\ Receive(m) /\ m.type = "act" /\ <<s, m.action>> \in Enabled
          /\ action' = m.action
          /\ log' = IF log_paths THEN Append(log, ActionEntry(m.action)) ELSE log
    BY <1>7 DEF AcceptAction
  <2>2. m.action \in Actions
    BY <2>1, SessionAssumption
  <2>3. log' \in Seq(Entry)
    BY <2>1, <2>2 DEF TypeOK, ActionEntry
  <2>4. c2s' \in Seq(Requests)
    BY <2>1, ReceiveTypes DEF TypeOK
  <2>5. QED
    BY <1>7, <2>1, <2>2, <2>3, <2>4 DEF AcceptAction, TypeOK, Labels, session, totals, game
<1>8. CASE RejectAction
  <2>1. PICK m \in Requests :
          LET e == Error(IF m.action \in Actions THEN "disabled action" ELSE "bad action")
          IN  Receive(m) /\ log' = Append(log, e) /\ Write(e)
    BY <1>8 DEF RejectAction
  <2> DEFINE e == Error(IF m.action \in Actions THEN "disabled action" ELSE "bad action")
  <2>a. e \in Replies
    BY MessageTypes
  <2> HIDE DEF e
  <2>b. Receive(m) /\ log' = Append(log, e) /\ Write(e)
    BY <2>1 DEF e
  <2>2. log' \in Seq(Entry)
    BY <1>a, <2>a, <2>b
  <2>3. c2s' \in Seq(Requests) /\ s2c' \in Seq(Replies) /\ alive' \in BOOLEAN
    BY <2>a, <2>b, WriteTypes, ReceiveTypes DEF TypeOK
  <2>4. QED
    BY <1>8, <2>2, <2>3 DEF RejectAction, TypeOK, Labels, session, totals
<1>9. CASE ReadDone
  <2>1. c2s' \in Seq(Requests)
    BY <1>9, ReceiveTypes DEF ReadDone, TypeOK
  <2>2. QED
    BY <1>9, <2>1 DEF ReadDone, TypeOK, Labels, session, totals
<1>10. CASE TakeTurn
  <2>1. s' \in States
    BY <1>10, SessionAssumption DEF TakeTurn, At, Counting
  <2>2. QED
    BY <1>10, <2>1 DEF TakeTurn, TypeOK, Labels, wire, session, totals
<1>11. CASE StopRound
  BY <1>11 DEF StopRound, TypeOK, Labels, wire, session, totals
<1>12. CASE EndRound
  <2> DEFINE m == EndRoundMsg(round, s, TimeSpent, turn - 1)
  <2>1. TimeSpent \in Nat /\ Metric[s] \in Int
    BY DurationTypes, SessionAssumption DEF TypeOK
  <2>2. m \in Replies
    <3>1. round \in Int /\ TimeSpent \in Int /\ turn - 1 \in Int /\ s \in States
      BY <2>1 DEF TypeOK
    <3>2. QED
      BY <3>1, MessageTypes
  <2> HIDE DEF m
  <2>3. log' \in Seq(Entry)
    BY <1>12, <1>a, <2>2 DEF EndRound, m
  <2>4. s2c' \in Seq(Replies) /\ alive' \in BOOLEAN
    BY <1>12, <2>2, WriteTypes DEF EndRound, TypeOK, m
  <2>5. total_metric' \in Int /\ round' \in Nat
    BY <1>12, <2>1 DEF EndRound, TypeOK
  <2>6. total_time' \in Nat /\ total_turns' \in Int /\ success_count' \in Nat
    <3>1. CASE s \in Goal
      BY <1>12, <2>1, <3>1 DEF EndRound, TypeOK
    <3>2. CASE s \notin Goal
      BY <1>12, <2>1, <3>2 DEF EndRound, TypeOK
    <3>3. QED
      BY <3>1, <3>2
  <2>7. QED
    BY <1>12, <2>3, <2>4, <2>5, <2>6 DEF EndRound, TypeOK, Labels, session, game
<1>13. CASE EndSession
  <2> DEFINE m == EndSessionMsg(round - 1, cfg.round_limit, success_count,
                                total_time, total_turns, total_metric)
  <2>1. m \in Replies
    <3>1. /\ round - 1 \in Int /\ cfg.round_limit \in Int /\ success_count \in Int
          /\ total_time \in Int /\ total_turns \in Int /\ total_metric \in Int
      BY DEF TypeOK, Cfg
    <3>2. QED
      BY <3>1, MessageTypes
  <2> HIDE DEF m
  <2>2. log' \in Seq(Entry)
    BY <1>13, <1>a, <2>1 DEF EndSession, m
  <2>3. s2c' \in Seq(Replies) /\ alive' \in BOOLEAN
    BY <1>13, <2>1, WriteTypes DEF EndSession, TypeOK, m
  <2>4. QED
    BY <1>13, <2>2, <2>3 DEF EndSession, TypeOK, Return, Labels, locals, session, totals, game
<1>14. CASE Tick
  BY <1>14 DEF Tick, TypeOK, wire, locals, session, totals, game
<1>15. CASE Client
  <2>1. ASSUME NEW m \in Requests, ClientWrites(m) PROVE TypeOK'
    BY <2>1 DEF ClientWrites, TypeOK, locals, session, totals, game
  <2>2. CASE ClientReads
    BY <2>2 DEF ClientReads, TypeOK, locals, session, totals, game
  <2>3. CASE ClientCloses
    <3>1. c2s' = c2s \/ c2s' = <<>>
      BY <2>3, Zenon DEF ClientCloses
    <3>2. c2s \in Seq(Requests) /\ <<>> \in Seq(Requests)
      BY DEF TypeOK
    <3>3. c2s' \in Seq(Requests)
      BY <3>1, <3>2
    <3>4. open' \in BOOLEAN
      BY <2>3 DEF ClientCloses
    <3>5. QED
      BY <2>3, <3>3, <3>4 DEF ClientCloses, TypeOK, locals, session, totals, game
  <2>4. QED
    BY <1>15, <2>1, <2>2, <2>3 DEF Client
<1>16. CASE UNCHANGED vars
  BY <1>16 DEF vars, TypeOK, wire, locals, session, totals, game
<1>17. QED
  BY <1>1, <1>2, <1>3, <1>4, <1>5, <1>6, <1>7, <1>8, <1>9, <1>10, <1>11, <1>12,
     <1>13, <1>14, <1>15, <1>16 DEF Next, Thread

(***************************************************************************)
(* The counters.  Only StartSession, AnnounceRound, StartRound, TakeTurn   *)
(* and EndRound touch them; the loop conditions recorded in Counting make  *)
(* the increments stay within the limits.                                  *)
(***************************************************************************)
LEMMA CountingStep ==
  TypeOK /\ Counting /\ Limits /\ [Next]_vars => Counting' /\ Limits'
<1> SUFFICES ASSUME TypeOK, Counting, Limits, [Next]_vars PROVE Counting' /\ Limits'
  OBVIOUS
<1> USE DEF Counting, Limits, InRound, At, Return
<1>1. CASE StartSession
  <2>1. cfg' \in Cfg
    BY <1>1, ConfigTypes, SessionAssumption DEF StartSession
  <2>2. QED
    BY <1>1, <2>1 DEF StartSession, game, Cfg, Largest
<1>2. CASE RefuseProblem \/ RefuseSession \/ RefuseRound \/ AbandonRound \/ EndSession
  BY <1>2 DEF RefuseProblem, RefuseSession, RefuseRound, AbandonRound, EndSession,
     locals, session, totals, game
<1>3. CASE AnnounceRound
  BY <1>3 DEF AnnounceRound, session, totals
<1>4. CASE StartRound
  BY <1>4 DEF StartRound, session, totals, TypeOK, Cfg, Largest
<1>5. CASE SendState
  BY <1>5 DEF SendState, Playing, locals, session, totals, game
<1>6. CASE AcceptAction
  BY <1>6 DEF AcceptAction, session, totals, game
<1>7. CASE RejectAction \/ ReadDone \/ StopRound
  BY <1>7 DEF RejectAction, ReadDone, StopRound, session, totals
<1>8. CASE TakeTurn
  BY <1>8 DEF TakeTurn, session, totals, TypeOK, Cfg, Largest
<1>9. CASE EndRound
  BY <1>9 DEF EndRound, session, game, TypeOK, Cfg, Largest
<1>10. CASE Tick
  BY <1>10 DEF Tick, wire, locals, session, totals, game
<1>11. CASE Client
  BY <1>11 DEF Client, ClientWrites, ClientReads, ClientCloses, locals, session, totals, game
<1>12. CASE UNCHANGED vars
  BY <1>12 DEF vars, wire, locals, session, totals, game
<1>13. QED
  BY <1>1, <1>2, <1>3, <1>4, <1>5, <1>6, <1>7, <1>8, <1>9, <1>10, <1>11, <1>12 DEF Next, Thread

(***************************************************************************)
(* The time.  When a round opens, total_time and time_left together fit in *)
(* the limit and total_time lies before the round's own timer; EndRound    *)
(* moves at most time_left, and at most the time since that timer, to      *)
(* total_time.                                                             *)
(***************************************************************************)
LEMMA AccountingStep ==
  TypeOK /\ Counting /\ Accounting /\ TimeBudget /\ [Next]_vars => Accounting' /\ TimeBudget'
<1> SUFFICES ASSUME TypeOK, Counting, Accounting, TimeBudget, [Next]_vars
             PROVE  Accounting' /\ TimeBudget'
  OBVIOUS
<1> USE DEF Accounting, TimeBudget, InRound, At, Return, Elapsed
<1>a. now \in Nat /\ total_time \in Nat /\ time_left \in Nat /\ session_timer \in Nat
      /\ round_timer \in Nat /\ cfg.time_limit \in Int
  BY DEF TypeOK, Cfg
<1>1. CASE StartSession
  <2>1. cfg' \in Cfg
    BY <1>1, ConfigTypes, SessionAssumption DEF StartSession
  <2>2. QED
    BY <1>1, <1>a, <2>1 DEF StartSession, game, Cfg, Largest
<1>2. CASE RefuseProblem \/ RefuseSession \/ RefuseRound \/ AbandonRound \/ EndSession
  BY <1>2, <1>a DEF RefuseProblem, RefuseSession, RefuseRound, AbandonRound, EndSession,
     locals, session, totals, game
<1>3. CASE AnnounceRound
  <2>1. time_left' = 0 \/ total_time + time_left' <= cfg.time_limit
    BY <1>3, <1>a DEF AnnounceRound, TimeLeft, Largest
  <2>2. QED
    BY <1>3, <2>1 DEF AnnounceRound, session, totals
<1>4. CASE StartRound
  BY <1>4, <1>a DEF StartRound, session, totals
<1>5. CASE SendState
  BY <1>5 DEF SendState, locals, session, totals, game
<1>6. CASE AcceptAction
  BY <1>6 DEF AcceptAction, session, totals, game
<1>7. CASE RejectAction \/ ReadDone \/ StopRound \/ TakeTurn
  BY <1>7 DEF RejectAction, ReadDone, StopRound, TakeTurn, session, totals
<1>8. CASE EndRound
  <2>1. /\ TimeSpent \in Nat /\ TimeSpent <= time_left /\ TimeSpent <= now - round_timer
    BY <1>a DEF TimeSpent, Largest, Least
  <2>2. total_time' = total_time \/ total_time' = total_time + TimeSpent
    BY <1>8 DEF EndRound
  <2>3. total_time + TimeSpent <= Largest(0, cfg.time_limit)
    BY <1>8, <1>a, <2>1 DEF EndRound, Largest
  <2>4. total_time + TimeSpent <= now - session_timer
    BY <1>8, <1>a, <2>1 DEF EndRound
  <2>5. QED
    BY <1>8, <2>1, <2>2, <2>3, <2>4 DEF EndRound, session, game
<1>9. CASE Tick
  BY <1>9, <1>a DEF Tick, wire, locals, session, totals, game
<1>10. CASE Client
  BY <1>10 DEF Client, ClientWrites, ClientReads, ClientCloses, locals, session, totals, game
<1>11. CASE UNCHANGED vars
  BY <1>11 DEF vars, wire, locals, session, totals, game
<1>12. QED
  BY <1>1, <1>2, <1>3, <1>4, <1>5, <1>6, <1>7, <1>8, <1>9, <1>10, <1>11 DEF Next, Thread

(* The inductive invariant holds in the initial states, every step         *)
(* preserves it, and so it holds in every reachable state of a session.    *)
LEMMA InvInit == Init => IInv
<1> SUFFICES ASSUME Init PROVE IInv
  OBVIOUS
<1>1. TypeOK
  BY TypeInit
<1>2. cfg.time_limit \in Int /\ cfg.round_limit \in Int /\ cfg.turn_limit \in Int
  BY <1>1 DEF TypeOK, Cfg
<1>3. TimeBudget /\ Limits
  BY <1>2 DEF Init, TimeBudget, Limits, Elapsed, Largest
<1>4. Accounting /\ Counting
  BY DEF Init, Accounting, Counting, InRound
<1>5. QED
  BY <1>1, <1>3, <1>4 DEF IInv

LEMMA InvStep == IInv /\ [Next]_vars => IInv'
  BY TypeStep, CountingStep, AccountingStep DEF IInv

THEOREM Inductive == Spec => []IInv
  BY InvInit, InvStep, PTL DEF Spec

(* Every variable keeps its type and no duration is ever negative.         *)
THEOREM TypeCorrect == Spec => []TypeOK
<1>1. IInv => TypeOK
  BY DEF IInv
<1>2. QED
  BY <1>1, Inductive, PTL

(* The time charged to successful rounds stays within the session's limit  *)
(* and within the time that has passed, for every interleaving of the      *)
(* clock with the thread.                                                  *)
THEOREM TimeIsBudgeted == Spec => []TimeBudget
<1>1. IInv => TimeBudget
  BY DEF IInv
<1>2. QED
  BY <1>1, Inductive, PTL

(* Rounds, turns and successes stay within their limits.                   *)
THEOREM LimitsAreKept == Spec => []Limits
<1>1. IInv => Limits
  BY DEF IInv
<1>2. QED
  BY <1>1, Inductive, PTL

-----------------------------------------------------------------------------
(***************************************************************************)
(* The log file.                                                           *)
(***************************************************************************)
LogEntry == Replies \cup [type : {"action"}, action : Actions]

(* Position j announces the round that an entry at position i belongs to.  *)
Opens(j, i) ==
  /\ j \in Positions("round-init") /\ j < i
  /\ \A k \in Positions("round-init") : k < i => k <= j

(* The position the next entry will have.                                  *)
NextEntry == Len(log) + 1

(***************************************************************************)
(* Ledger.  Between the announcement of a round and its end the clock only *)
(* goes on: whatever was announced or left over before is an upper bound   *)
(* of what is left now.                                                    *)
(***************************************************************************)
RoundOpen == pc = "round_init" \/ InRound

Rest(i, k) == Largest(0, log[i].time_left - log[k].time_spent)

Past ==
  /\ \A i \in Positions("round-init") : TimeLeft <= log[i].time_left
  /\ \A k \in Positions("end-round") : \E i \in Positions("round-init") :
       /\ Opens(i, k)
       /\ TimeLeft <= Rest(i, k)
       /\ \A j \in Positions("round-init") : k < j => log[j].time_left <= Rest(i, k)
  /\ \A i \in Positions("round-init"), k \in Positions("end-round") :
       i < k /\ log[i].time_left = 0 => log[k].turns_used = 0 /\ log[k].time_spent = 0

OpenRound ==
  /\ \A i \in Positions("round-init") : time_left <= log[i].time_left
  /\ \E p \in Positions("round-init") : Opens(p, NextEntry) /\ log[p].time_left = time_left

Present ==
  /\ pc = "read_session" => log = <<>>
  /\ RoundOpen => OpenRound
  /\ InRound =>
       /\ cfg.time_limit - (round_timer - session_timer) <= time_left
       /\ time_left = 0 => pc = "turn_head" /\ ~running /\ turn = 1

LedgerInv == Past /\ Present

(***************************************************************************)
(* Paths.  While a round is played the end of the log tells where: what    *)
(* the last entry was, and how many actions the round has seen.            *)
(***************************************************************************)
(* The round was stopped after the entry at position i: by an error, or by
   the client (done). *)
Stopped(i, st) ==
  \/ log[i].type = "error" /\ log[i-1].type = "state" /\ st = log[i-1].state
  \/ log[i].type = "state" /\ st = log[i].state

(* A round of n actions may be reported after the entry at position i.     *)
Closes(i, st, turns, n) ==
  \/ Follows(st, i) /\ turns = n
  \/ Unexecuted(i, st) /\ turns = n - 1
  \/ Stopped(i, st) /\ turns = n

Trail(p) ==
  LET last == Len(log)
      n    == ActionsIn(p, NextEntry)
  IN  CASE pc = "round_init"               -> log[last].type = "round-init"
        [] pc = "turn_head" /\ running     -> Follows(s, last) /\ turn - 1 = n
        [] pc = "turn_head" /\ ~running    -> Closes(last, s, turn - 1, n)
        [] pc = "read_act"                 -> running /\ log[last] = StateMsg(s) /\ turn - 1 = n
        [] pc = "check_time" /\ running    -> /\ log[last] = ActionEntry(action)
                                              /\ log[last-1] = StateMsg(s)
                                              /\ turn = n
        [] pc = "check_time" /\ ~running   -> Stopped(last, s) /\ turn - 1 = n
        [] OTHER                           -> TRUE

StateFits(i) ==
  \E p \in Positions("round-init") :
    Opens(p, i) /\ log[i].state \notin Goal /\ Follows(log[i].state, i - 1)

ActionFits(i) ==
  \E p \in Positions("round-init") :
    /\ Opens(p, i) /\ log[i-1].type = "state"
    /\ <<log[i-1].state, log[i].action>> \in Enabled

EndFits(i) ==
  \E p \in Positions("round-init") :
    Opens(p, i) /\ Closes(i - 1, log[i].state, log[i].turns_used, ActionsIn(p, i))

Fitting ==
  /\ \A i \in Positions("state") : StateFits(i)
  /\ \A i \in Positions("action") : ActionFits(i)
  /\ \A i \in Positions("end-round") : EndFits(i)

PathInv ==
  /\ Fitting
  /\ RoundOpen => \E p \in Positions("round-init") : Opens(p, NextEntry) /\ Trail(p)

-----------------------------------------------------------------------------
(* What the entries of the log are.                                        *)
LEMMA EntryTypes ==
  ASSUME log \in Seq(LogEntry)
  PROVE  /\ \A i \in Positions("round-init") : log[i].time_left \in Int
         /\ \A i \in Positions("end-round") :
              log[i].time_spent \in Int /\ log[i].turns_used \in Int /\ log[i].state \in States
         /\ \A i \in Positions("state") : log[i].state \in States
         /\ \A i \in Positions("action") : log[i].action \in Actions
         /\ \A type : Positions(type) \subseteq 1 .. Len(log)
<1>1. \A i \in DOMAIN log : log[i] \in LogEntry
  OBVIOUS
<1>2. \A e \in LogEntry :
        /\ e.type = "round-init" => e.time_left \in Int
        /\ e.type = "end-round" => e.time_spent \in Int /\ e.turns_used \in Int /\ e.state \in States
        /\ e.type = "state" => e.state \in States
        /\ e.type = "action" => e.action \in Actions
  BY DEF LogEntry, Replies
<1>3. QED
  BY <1>1, <1>2 DEF Positions

(* One more entry: the positions before it keep their entries.             *)
LEMMA OneMoreEntry ==
  ASSUME log \in Seq(LogEntry), NEW e, e \in LogEntry, log' = Append(log, e)
  PROVE  /\ Len(log) \in Nat /\ Len(log') = NextEntry /\ NextEntry' = NextEntry + 1
         /\ log'[NextEntry] = e
         /\ \A i \in 1 .. Len(log) : log'[i] = log[i]
         /\ \A type : \A i : i \in Positions(type)' <=>
              i \in Positions(type) \/ (i = NextEntry /\ e.type = type)
<1>1. /\ Len(log) \in Nat /\ Len(log') = NextEntry /\ NextEntry' = NextEntry + 1
      /\ log'[NextEntry] = e
      /\ \A i \in 1 .. Len(log) : log'[i] = log[i]
  BY DEF NextEntry
<1>2. DOMAIN log = 1 .. Len(log) /\ DOMAIN log' = 1 .. Len(log) + 1
  BY DEF NextEntry
<1>3. ASSUME NEW type, NEW i
      PROVE  i \in Positions(type)' <=> i \in Positions(type) \/ (i = NextEntry /\ e.type = type)
  <2>1. i \in Positions(type)' <=> i \in 1 .. Len(log) + 1 /\ log'[i].type = type
    BY <1>2 DEF Positions
  <2>2. i \in Positions(type) <=> i \in 1 .. Len(log) /\ log[i].type = type
    BY <1>2 DEF Positions
  <2>3. QED
    BY <1>1, <2>1, <2>2 DEF NextEntry
<1>4. QED
  BY <1>1, <1>3

(* There is one announcement that opens the round of a position.           *)
LEMMA OpensOpening ==
  ASSUME log \in Seq(LogEntry), NEW i, NEW j, Opens(j, i)
  PROVE  Opening(i) = j
<1>1. Opens(Opening(i), i)
  BY DEF Opens, Opening
<1>2. Opening(i) \in Int /\ j \in Int
  BY <1>1, EntryTypes DEF Opens
<1>3. QED
  BY <1>1, <1>2 DEF Opens

-----------------------------------------------------------------------------
(* What is left of the session's time never grows.                         *)
LEMMA TimeLeftFalls ==
  ASSUME TypeOK, now' \in Nat, now' >= now, cfg' = cfg, session_timer' = session_timer
  PROVE  TimeLeft \in Int /\ TimeLeft' \in Int /\ TimeLeft' <= TimeLeft
BY DEF TypeOK, Cfg, TimeLeft, Elapsed, Largest

(* A step that neither opens nor ends a round leaves the accounts alone.   *)
Quiet ==
  /\ \A i : i \in Positions("round-init")' <=> i \in Positions("round-init")
  /\ \A i : i \in Positions("end-round")' <=> i \in Positions("end-round")
  /\ \A i \in Positions("round-init") \cup Positions("end-round") : log'[i] = log[i]
  /\ NextEntry \in Nat /\ NextEntry' \in Nat /\ NextEntry' >= NextEntry

LEMMA QuietLog ==
  ASSUME log \in Seq(LogEntry),
         \/ log' = log
         \/ \E e \in LogEntry : e.type \notin {"round-init", "end-round"} /\ log' = Append(log, e)
  PROVE  Quiet
<1>1. CASE log' = log
  BY <1>1 DEF Quiet, Positions, NextEntry
<1>2. CASE \E e \in LogEntry : e.type \notin {"round-init", "end-round"} /\ log' = Append(log, e)
  <2>1. PICK e \in LogEntry : e.type \notin {"round-init", "end-round"} /\ log' = Append(log, e)
    BY <1>2
  <2>2. QED
    BY <2>1, OneMoreEntry, EntryTypes DEF Quiet, NextEntry
<1>3. QED
  BY <1>1, <1>2

LEMMA QuietPast ==
  ASSUME TypeOK, Past, Quiet, now' \in Nat, now' >= now, cfg' = cfg,
         session_timer' = session_timer
  PROVE  Past'
<1>1. TimeLeft \in Int /\ TimeLeft' \in Int /\ TimeLeft' <= TimeLeft
  BY TimeLeftFalls
<1>2. log \in Seq(LogEntry)
  BY DEF TypeOK, LogEntry
<1>3. \A i \in Positions("round-init") : TimeLeft' <= log'[i].time_left
  BY <1>1, <1>2, EntryTypes DEF Past, Quiet
<1>4. ASSUME NEW k \in Positions("end-round")
      PROVE  \E i \in Positions("round-init") :
               /\ Opens(i, k)'
               /\ TimeLeft' <= Rest(i, k)'
               /\ \A j \in Positions("round-init") : k < j => log'[j].time_left <= Rest(i, k)'
  <2>1. PICK i \in Positions("round-init") :
          /\ Opens(i, k)
          /\ TimeLeft <= Rest(i, k)
          /\ \A j \in Positions("round-init") : k < j => log[j].time_left <= Rest(i, k)
    BY DEF Past
  <2>2. Rest(i, k)' = Rest(i, k) /\ Rest(i, k) \in Int
    BY <1>2, EntryTypes DEF Quiet, Rest, Largest
  <2>3. Opens(i, k)'
    BY <2>1 DEF Opens, Quiet
  <2>4. TimeLeft' <= Rest(i, k)'
    BY <1>1, <2>1, <2>2
  <2>5. QED
    BY <2>1, <2>2, <2>3, <2>4 DEF Quiet
<1>5. QED
  BY <1>3, <1>4 DEF Past, Quiet

(* The round that is open stays the one that was opened last.              *)
LEMMA QuietRound ==
  ASSUME TypeOK, OpenRound, Quiet, time_left' = time_left
  PROVE  OpenRound'
<1>1. log \in Seq(LogEntry)
  BY DEF TypeOK, LogEntry
<1>2. PICK p \in Positions("round-init") : Opens(p, NextEntry) /\ log[p].time_left = time_left
  BY DEF OpenRound
<1>3. Opens(p, NextEntry)'
  BY <1>1, <1>2, EntryTypes DEF Opens, Quiet, NextEntry
<1>4. QED
  BY <1>2, <1>3 DEF OpenRound, Quiet

(* The steps that write nothing or an entry that is neither the beginning
   nor the end of a round. *)
LEMMA QuietSteps ==
  ASSUME TypeOK, [Next]_vars, ~StartSession, ~AnnounceRound, ~EndRound
  PROVE  Quiet /\ now' \in Nat /\ now' >= now /\ cfg' = cfg /\ session_timer' = session_timer
<1>1. now' \in Nat /\ now' >= now /\ cfg' = cfg /\ session_timer' = session_timer
  <2>1. cfg' = cfg /\ session_timer' = session_timer
    BY DEF Next, Thread, Client, vars, RefuseProblem, RefuseSession, RefuseRound,
       StartRound, SendState, AcceptAction, RejectAction, ReadDone, AbandonRound, TakeTurn,
       StopRound, EndSession, Tick, ClientWrites, ClientReads, ClientCloses, locals, session
  <2>2. now' = now \/ now' = now + 1
    BY DEF Next, Thread, Client, vars, RefuseProblem, RefuseSession, RefuseRound,
       StartRound, SendState, AcceptAction, RejectAction, ReadDone, AbandonRound, TakeTurn,
       StopRound, EndSession, Tick, ClientWrites, ClientReads, ClientCloses
  <2>3. QED
    BY <2>1, <2>2 DEF TypeOK
<1>2. log \in Seq(LogEntry)
  BY DEF TypeOK, LogEntry
<1> DEFINE Quietly ==
             \/ log' = log
             \/ \E e \in LogEntry : e.type \notin {"round-init", "end-round"} /\ log' = Append(log, e)
<1>3. ASSUME NEW why \in {"bad problem", "bad action", "disabled action"}
      PROVE  Error(why) \in LogEntry /\ Error(why).type = "error"
  BY MessageTypes DEF LogEntry, Error
<1>4. ASSUME RefuseProblem PROVE Quietly
  BY <1>3, <1>4 DEF RefuseProblem
<1>5. ASSUME RejectAction PROVE Quietly
  BY <1>3, <1>5 DEF RejectAction
<1>6. ASSUME SendState PROVE Quietly
  <2>1. StateMsg(s) \in LogEntry /\ StateMsg(s).type = "state"
    BY MessageTypes DEF TypeOK, LogEntry, StateMsg
  <2>2. QED
    BY <1>6, <2>1 DEF SendState
<1>7. ASSUME AcceptAction PROVE Quietly
  <2>1. \A a \in Actions : ActionEntry(a) \in LogEntry /\ ActionEntry(a).type = "action"
    BY DEF LogEntry, ActionEntry
  <2>2. PICK a \in Actions : log' = IF log_paths THEN Append(log, ActionEntry(a)) ELSE log
    BY <1>7, SessionAssumption DEF AcceptAction
  <2>3. QED
    BY <2>1, <2>2
<1>8. ASSUME EndSession PROVE Quietly
  <2> DEFINE m == EndSessionMsg(round - 1, cfg.round_limit, success_count,
                                total_time, total_turns, total_metric)
  <2>1. m \in LogEntry
    <3>1. /\ round - 1 \in Int /\ cfg.round_limit \in Int /\ success_count \in Int
          /\ total_time \in Int /\ total_turns \in Int /\ total_metric \in Int
      BY DEF TypeOK, Cfg
    <3>2. QED
      BY <3>1, MessageTypes DEF LogEntry
  <2>2. m.type = "end-session"
    BY DEF EndSessionMsg
  <2> HIDE DEF m
  <2>3. log' = Append(log, m)
    BY <1>8 DEF EndSession, m
  <2>4. QED
    BY <2>1, <2>2, <2>3
<1>9. ASSUME ~(RefuseProblem \/ RejectAction \/ SendState \/ AcceptAction \/ EndSession)
      PROVE  Quietly
  <2>1. log' = log
    BY <1>9 DEF Next, Thread, Client, vars, RefuseSession, RefuseRound, StartRound, ReadDone,
       AbandonRound, TakeTurn, StopRound, Tick, ClientWrites, ClientReads, ClientCloses
  <2>2. QED
    BY <2>1
<1>10. Quietly
  BY <1>4, <1>5, <1>6, <1>7, <1>8, <1>9
<1> HIDE DEF Quietly
<1>11. Quiet
  BY <1>2, <1>10, QuietLog DEF Quietly
<1>12. QED
  BY <1>1, <1>11

(* A round opens: what it is told is left is what is left.                 *)
LEMMA AnnounceLedger ==
  ASSUME TypeOK, LedgerInv, AnnounceRound
  PROVE  LedgerInv'
<1>1. log \in Seq(LogEntry) /\ pc = "round_head" /\ pc' = "round_init"
  BY DEF TypeOK, LogEntry, AnnounceRound, At
<1>2. TimeLeft \in Int /\ time_left' = TimeLeft /\ TimeLeft' = TimeLeft
  BY DEF AnnounceRound, session, TypeOK, Cfg, TimeLeft, Elapsed, Largest
<1> DEFINE m == RoundInit(round, time_left', cfg.round_limit - round)
<1>3. m \in LogEntry /\ m.type = "round-init" /\ m.time_left = time_left'
  <2>1. round \in Int /\ cfg.round_limit - round \in Int
    BY DEF TypeOK, Cfg
  <2>2. m \in Replies
    BY <1>2, <2>1, MessageTypes
  <2>3. QED
    BY <2>2 DEF LogEntry, RoundInit
<1> HIDE DEF m
<1>4. log' = Append(log, m)
  BY DEF AnnounceRound, m
<1>5. /\ NextEntry \in Nat /\ NextEntry' = NextEntry + 1 /\ log'[NextEntry] = m
      /\ \A i \in 1 .. Len(log) : log'[i] = log[i]
      /\ \A i : i \in Positions("round-init")' <=> i \in Positions("round-init") \/ i = NextEntry
      /\ \A i : i \in Positions("end-round")' <=> i \in Positions("end-round")
  BY <1>1, <1>3, <1>4, OneMoreEntry DEF NextEntry
<1>6. \A i \in Positions("round-init") \cup Positions("end-round") :
        i \in Nat /\ i < NextEntry /\ log'[i] = log[i]
  BY <1>1, <1>5, EntryTypes DEF NextEntry
<1>7. Present'
  <2>1. \A i \in Positions("round-init")' : time_left' <= log'[i].time_left
    BY <1>2, <1>3, <1>5, <1>6 DEF LedgerInv, Past
  <2>3. PICK p : p = NextEntry
    OBVIOUS
  <2>4. Opens(p, NextEntry)' /\ log'[p].time_left = time_left'
    BY <1>3, <1>5, <1>6, <2>3 DEF Opens
  <2>5. OpenRound'
    BY <2>1, <2>4 DEF OpenRound, Opens
  <2>6. QED
    BY <1>1, <2>5 DEF Present, InRound
<1>8. Past'
  <2>1. \A i \in Positions("round-init")' : TimeLeft' <= log'[i].time_left
    BY <1>2, <1>3, <1>5, <1>6 DEF LedgerInv, Past
  <2>2. ASSUME NEW k \in Positions("end-round")
        PROVE  \E i \in Positions("round-init")' :
                 /\ Opens(i, k)'
                 /\ TimeLeft' <= Rest(i, k)'
                 /\ \A j \in Positions("round-init")' : k < j => log'[j].time_left <= Rest(i, k)'
    <3>1. PICK i \in Positions("round-init") :
            /\ Opens(i, k)
            /\ TimeLeft <= Rest(i, k)
            /\ \A j \in Positions("round-init") : k < j => log[j].time_left <= Rest(i, k)
      BY DEF LedgerInv, Past
    <3>2. Rest(i, k)' = Rest(i, k)
      BY <1>6 DEF Rest
    <3>3. Opens(i, k)'
      BY <1>5, <1>6, <3>1 DEF Opens
    <3>4. \A j \in Positions("round-init")' : k < j => log'[j].time_left <= Rest(i, k)
      BY <1>2, <1>3, <1>5, <1>6, <3>1
    <3>5. QED
      BY <1>2, <3>1, <3>2, <3>3, <3>4 DEF Opens
  <2>3. ASSUME NEW i \in Positions("round-init")', NEW k \in Positions("end-round"),
               i < k, log'[i].time_left = 0
        PROVE  log'[k].turns_used = 0 /\ log'[k].time_spent = 0
    <3>1. i \in Positions("round-init")
      BY <1>5, <1>6, <2>3
    <3>2. QED
      BY <1>6, <2>3, <3>1 DEF LedgerInv, Past
  <2>4. QED
    BY <1>5, <2>1, <2>2, <2>3 DEF Past
<1>9. QED
  BY <1>7, <1>8 DEF LedgerInv

(* A round ends: it is charged at most the time since its own timer started,
   which is not less than what is missing since then. *)
LEMMA EndLedger ==
  ASSUME TypeOK, Counting, Accounting, LedgerInv, EndRound
  PROVE  LedgerInv'
<1>1. log \in Seq(LogEntry) /\ pc = "turn_head" /\ pc' = "round_head" /\ InRound /\ RoundOpen
  BY DEF TypeOK, LogEntry, EndRound, At, InRound, RoundOpen
<1>2. /\ now' = now /\ TimeLeft \in Int /\ TimeLeft' = TimeLeft
      /\ TimeSpent \in Int /\ turn - 1 \in Int /\ time_left \in Nat
  BY DurationTypes DEF EndRound, session, TypeOK, TimeLeft, Elapsed
<1> DEFINE m == EndRoundMsg(round, s, TimeSpent, turn - 1)
<1>3. /\ m \in LogEntry /\ m.type = "end-round"
      /\ m.time_spent = TimeSpent /\ m.turns_used = turn - 1
  <2>1. round \in Int /\ s \in States
    BY DEF TypeOK
  <2>2. m \in Replies
    BY <1>2, <2>1, MessageTypes
  <2>3. QED
    BY <2>2 DEF LogEntry, EndRoundMsg
<1> HIDE DEF m
<1>4. log' = Append(log, m)
  BY DEF EndRound, m
<1>5. /\ NextEntry \in Nat /\ NextEntry' = NextEntry + 1 /\ log'[NextEntry] = m
      /\ \A i \in 1 .. Len(log) : log'[i] = log[i]
      /\ \A i : i \in Positions("round-init")' <=> i \in Positions("round-init")
      /\ \A i : i \in Positions("end-round")' <=> i \in Positions("end-round") \/ i = NextEntry
  BY <1>1, <1>3, <1>4, OneMoreEntry DEF NextEntry
<1>6. /\ \A i \in Positions("round-init") \cup Positions("end-round") :
          i \in Nat /\ i < NextEntry /\ log'[i] = log[i]
      /\ \A i \in Positions("round-init") : log[i].time_left \in Int
  BY <1>1, <1>5, EntryTypes DEF NextEntry
<1>7. Present'
  BY <1>1 DEF Present, InRound, RoundOpen
<1>8. PICK p \in Positions("round-init") : Opens(p, NextEntry) /\ log[p].time_left = time_left
  BY <1>1 DEF LedgerInv, Present, OpenRound
<1>9. TimeLeft <= Largest(0, time_left - TimeSpent)
  <2>1. /\ now \in Nat /\ round_timer \in Nat /\ session_timer \in Nat /\ cfg.time_limit \in Int
        /\ round_timer <= now
    BY DEF TypeOK, Cfg, Accounting
  <2>2. cfg.time_limit - (round_timer - session_timer) <= time_left
    BY <1>1 DEF LedgerInv, Present
  <2>3. TimeSpent <= now - round_timer
    BY <1>2, <2>1 DEF TimeSpent, Elapsed, Largest, Least
  <2>4. QED
    BY <1>2, <2>1, <2>2, <2>3 DEF TimeLeft, Elapsed, Largest
<1>10. Past'
  <2>1. \A i \in Positions("round-init")' : TimeLeft' <= log'[i].time_left
    BY <1>2, <1>5, <1>6 DEF LedgerInv, Past
  <2>2. ASSUME NEW k \in Positions("end-round")'
        PROVE  \E i \in Positions("round-init")' :
                 /\ Opens(i, k)'
                 /\ TimeLeft' <= Rest(i, k)'
                 /\ \A j \in Positions("round-init")' : k < j => log'[j].time_left <= Rest(i, k)'
    <3>1. CASE k \in Positions("end-round")
      <4>1. PICK i \in Positions("round-init") :
              /\ Opens(i, k)
              /\ TimeLeft <= Rest(i, k)
              /\ \A j \in Positions("round-init") : k < j => log[j].time_left <= Rest(i, k)
        BY <3>1 DEF LedgerInv, Past
      <4>2. Rest(i, k)' = Rest(i, k)
        BY <1>6, <3>1 DEF Rest
      <4>3. Opens(i, k)'
        BY <1>5, <1>6, <4>1 DEF Opens
      <4>4. QED
        BY <1>2, <1>5, <1>6, <4>1, <4>2, <4>3
    <3>2. CASE k = NextEntry
      <4>1. Opens(p, k)'
        BY <1>5, <1>8, <3>2 DEF Opens
      <4>2. Rest(p, k)' = Largest(0, time_left - TimeSpent)
        BY <1>3, <1>5, <1>6, <1>8, <3>2 DEF Rest
      <4>3. \A j \in Positions("round-init")' : ~(k < j)
        BY <1>5, <1>6, <3>2
      <4>4. QED
        BY <1>2, <1>5, <1>9, <4>1, <4>2, <4>3
    <3>3. QED
      BY <1>5, <3>1, <3>2
  <2>3. ASSUME NEW i \in Positions("round-init"), NEW k \in Positions("end-round")',
               i < k, log'[i].time_left = 0
        PROVE  log'[k].turns_used = 0 /\ log'[k].time_spent = 0
    <3>1. CASE k \in Positions("end-round")
      BY <1>6, <2>3, <3>1 DEF LedgerInv, Past
    <3>2. CASE k = NextEntry
      <4>1. time_left = 0
        BY <1>1, <1>2, <1>6, <2>3 DEF LedgerInv, Present, OpenRound
      <4>2. turn = 1
        BY <1>1, <4>1 DEF LedgerInv, Present
      <4>3. TimeSpent = 0
        BY <1>2, <4>1 DEF TimeSpent, Elapsed, Largest, Least, TypeOK
      <4>4. QED
        BY <1>3, <1>5, <3>2, <4>2, <4>3
    <3>3. QED
      BY <1>5, <3>1, <3>2
  <2>4. QED
    BY <1>5, <2>1, <2>2, <2>3 DEF Past
<1>11. QED
  BY <1>7, <1>10 DEF LedgerInv

(* The session opens with an empty log.                                    *)
LEMMA StartLedger ==
  ASSUME TypeOK, LedgerInv, StartSession
  PROVE  LedgerInv' /\ PathInv'
<1>1. log = <<>> /\ pc' = "round_head"
  BY DEF StartSession, At, LedgerInv, Present
<1>2. PICK e : e.type = "session-init" /\ log' = Append(log, e)
  <2>1. \A c : SessionInit(c).type = "session-init"
    BY DEF SessionInit
  <2>2. QED
    BY <2>1 DEF StartSession
<1>3. Len(log') = 1 /\ log'[1] = e /\ DOMAIN log' = 1 .. 1
  BY <1>1, <1>2
<1>4. \A type : Positions(type)' = {} \/ type = "session-init"
  BY <1>2, <1>3 DEF Positions
<1>5. /\ Positions("round-init")' = {} /\ Positions("end-round")' = {}
      /\ Positions("state")' = {} /\ Positions("action")' = {}
  BY <1>4
<1>6. QED
  BY <1>1, <1>5 DEF LedgerInv, Past, Present, PathInv, Fitting, RoundOpen, InRound

(* The other steps: within a round the timers and what is left stay.       *)
LEMMA QuietLedger ==
  ASSUME TypeOK, Counting, Accounting, LedgerInv, [Next]_vars,
         ~StartSession, ~AnnounceRound, ~EndRound
  PROVE  LedgerInv'
<1>1. Quiet /\ now' \in Nat /\ now' >= now /\ cfg' = cfg /\ session_timer' = session_timer
  BY QuietSteps
<1>2. Past'
  BY <1>1, QuietPast DEF LedgerInv
<1>3. RoundOpen' => RoundOpen /\ time_left' = time_left
  BY DEF RoundOpen, InRound, At, Return, Next, Thread, Client, vars, RefuseProblem,
     RefuseSession, RefuseRound, StartRound, SendState, AcceptAction, RejectAction, ReadDone,
     AbandonRound, TakeTurn, StopRound, EndSession, Tick, ClientWrites, ClientReads,
     ClientCloses, locals, game
<1>4. RoundOpen' => OpenRound'
  BY <1>1, <1>3, QuietRound DEF LedgerInv, Present
<1>5. pc' = "read_session" => log' = <<>>
  BY DEF LedgerInv, Present, At, Return, Next, Thread, Client, vars, RefuseProblem,
     RefuseSession, RefuseRound, StartRound, SendState, AcceptAction, RejectAction, ReadDone,
     AbandonRound, TakeTurn, StopRound, EndSession, Tick, ClientWrites, ClientReads,
     ClientCloses
<1>6. InRound' =>
        /\ cfg.time_limit - (round_timer' - session_timer) <= time_left
        /\ time_left = 0 => pc' = "turn_head" /\ ~running' /\ turn' = 1
  <2>1. CASE StartRound
    <3>1. PICK p \in Positions("round-init") : log[p].time_left = time_left
      BY <2>1 DEF StartRound, At, RoundOpen, LedgerInv, Present, OpenRound
    <3>2. TimeLeft <= time_left
      BY <3>1 DEF LedgerInv, Past
    <3>3. /\ time_left \in Nat /\ now \in Nat /\ session_timer \in Nat
          /\ cfg.time_limit \in Int
      BY DEF TypeOK, Cfg
    <3>4. cfg.time_limit - (now - session_timer) <= time_left
      BY <3>2, <3>3 DEF TimeLeft, Elapsed, Largest
    <3>5. running' = (time_left > 0)
      BY <2>1 DEF StartRound
    <3>6. time_left = 0 => ~(time_left > 0)
      OBVIOUS
    <3>7. time_left = 0 => ~running'
      BY <3>5, <3>6, Zenon
    <3>8. QED
      BY <2>1, <3>4, <3>7 DEF StartRound
  <2>2. CASE ~StartRound
    <3>1. InRound' => InRound /\ round_timer' = round_timer
      BY <2>2 DEF InRound, At, Return, Next, Thread, Client, vars, RefuseProblem,
         RefuseSession, RefuseRound, SendState, AcceptAction, RejectAction, ReadDone,
         AbandonRound, TakeTurn, StopRound, EndSession, Tick, ClientWrites, ClientReads,
         ClientCloses, locals, game
    <3>2. InRound /\ time_left = 0 => pc = "turn_head" /\ ~running /\ turn = 1
      BY DEF LedgerInv, Present
    <3>3. InRound' /\ time_left = 0 => pc' = pc /\ running' = running /\ turn' = turn
      BY <2>2, <3>1, <3>2 DEF InRound, At, Return, Next, Thread, Client, vars, RefuseProblem,
         RefuseSession, RefuseRound, SendState, AcceptAction, RejectAction, ReadDone,
         AbandonRound, TakeTurn, StopRound, EndSession, Tick, ClientWrites, ClientReads,
         ClientCloses, locals, game, Playing
    <3>4. QED
      BY <3>1, <3>2, <3>3 DEF LedgerInv, Present
  <2>3. QED
    BY <2>1, <2>2
<1>7. Present'
  BY <1>1, <1>3, <1>4, <1>5, <1>6 DEF Present, RoundOpen
<1>8. QED
  BY <1>2, <1>7 DEF LedgerInv

(* The accounts of the log hold in every reachable state.                  *)
LEMMA LedgerInductive == Spec => []LedgerInv
<1>1. Init => LedgerInv
  BY DEF Init, LedgerInv, Past, Present, RoundOpen, InRound, Positions
<1>2. IInv /\ LedgerInv /\ [Next]_vars => LedgerInv'
  BY StartLedger, AnnounceLedger, EndLedger, QuietLedger DEF IInv
<1>3. QED
  BY <1>1, <1>2, Inductive, PTL DEF Spec

(* What the log accounts for adds up, whatever the client and the clock do:
   what a round is told is left is at most what any earlier round was told,
   less what that round was charged, and with nothing left nothing is played
   or charged any more (mdpserver.cc:299-310, 388-407). *)
THEOREM LedgerAddsUp == Spec => []Ledger
<1>1. TypeOK /\ LedgerInv => Ledger
  <2>1. SUFFICES ASSUME TypeOK, LedgerInv, NEW i \in Positions("round-init"),
                        NEW j \in Positions("round-init"), NEW k \in Positions("end-round")
                 PROVE  /\ i < k /\ k < j /\ Opening(k) = i =>
                             log[j].time_left <= Largest(0, log[i].time_left - log[k].time_spent)
                        /\ i < k /\ log[i].time_left = 0 =>
                             log[k].turns_used = 0 /\ log[k].time_spent = 0
    BY DEF Ledger
  <2>2. log \in Seq(LogEntry)
    BY <2>1 DEF TypeOK, LogEntry
  <2>3. PICK o \in Positions("round-init") :
          Opens(o, k) /\ (k < j => log[j].time_left <= Rest(o, k))
    BY <2>1 DEF LedgerInv, Past
  <2>4. Opening(k) = o
    BY <2>2, <2>3, OpensOpening
  <2>5. i < k /\ log[i].time_left = 0 => log[k].turns_used = 0 /\ log[k].time_spent = 0
    BY <2>1 DEF LedgerInv, Past
  <2>6. QED
    BY <2>3, <2>4, <2>5 DEF Rest
<1>2. QED
  BY <1>1, LedgerInductive, TypeCorrect, PTL

-----------------------------------------------------------------------------
(* What was recorded stays as it was recorded.                             *)
LEMMA RecordedStays ==
  ASSUME log \in Seq(LogEntry), NEW e, e \in LogEntry, log' = Append(log, e)
  PROVE  /\ \A p \in Positions("round-init"), i \in 1 .. NextEntry : Opens(p, i) =>
              Opens(p, i)' /\ ActionsIn(p, i)' = ActionsIn(p, i)
         /\ \A p \in Positions("round-init"), i \in 1 .. Len(log) : p <= i => \A st :
              /\ Follows(st, i)' <=> Follows(st, i)
              /\ Unexecuted(i, st)' <=> Unexecuted(i, st)
              /\ Stopped(i, st)' <=> Stopped(i, st)
<1>1. /\ Len(log) \in Nat /\ NextEntry = Len(log) + 1
      /\ \A i \in 1 .. Len(log) : log'[i] = log[i]
      /\ \A type : \A i : i \in Positions(type)' <=>
           i \in Positions(type) \/ (i = NextEntry /\ e.type = type)
      /\ \A type : Positions(type) \subseteq 1 .. Len(log)
  BY OneMoreEntry, EntryTypes DEF NextEntry
<1>2. ASSUME NEW p \in Positions("round-init"), NEW i \in 1 .. NextEntry, Opens(p, i)
      PROVE  Opens(p, i)' /\ ActionsIn(p, i)' = ActionsIn(p, i)
  <2>1. Opens(p, i)'
    BY <1>1, <1>2 DEF Opens
  <2>2. {k \in Positions("action") : p < k /\ k < i}' = {k \in Positions("action") : p < k /\ k < i}
    BY <1>1
  <2>3. QED
    BY <2>1, <2>2 DEF ActionsIn
<1>3. ASSUME NEW p \in Positions("round-init"), NEW i \in 1 .. Len(log), p <= i, NEW st
      PROVE  /\ Follows(st, i)' <=> Follows(st, i)
             /\ Unexecuted(i, st)' <=> Unexecuted(i, st)
             /\ Stopped(i, st)' <=> Stopped(i, st)
  <2>1. log'[i] = log[i]
    BY <1>1
  <2>2. log[i].type # "round-init" => log'[i-1] = log[i-1]
    <3>1. p \in 1 .. Len(log) /\ log[p].type = "round-init"
      BY <1>1 DEF Positions
    <3>2. log[i].type # "round-init" => i - 1 \in 1 .. Len(log)
      BY <1>1, <1>3, <3>1
    <3>3. QED
      BY <1>1, <3>2
  <2>3. QED
    BY <2>1, <2>2 DEF Follows, Unexecuted, Stopped
<1>4. QED
  BY <1>2, <1>3

(* The path of the log so far still fits when an entry is added.           *)
LEMMA FittingStays ==
  ASSUME log \in Seq(LogEntry), Fitting, NEW e, e \in LogEntry, log' = Append(log, e)
  PROVE  /\ \A i \in Positions("state") : StateFits(i)'
         /\ \A i \in Positions("action") : ActionFits(i)'
         /\ \A i \in Positions("end-round") : EndFits(i)'
<1>1. /\ Len(log) \in Nat /\ NextEntry = Len(log) + 1
      /\ \A i \in 1 .. Len(log) : log'[i] = log[i]
      /\ \A type : Positions(type) \subseteq 1 .. Len(log)
      /\ \A i \in Positions("round-init") : i \in Positions("round-init")'
  BY OneMoreEntry, EntryTypes DEF NextEntry
<1>2. ASSUME NEW i \in 1 .. Len(log), NEW p \in Positions("round-init"), Opens(p, i)
      PROVE  /\ Opens(p, i)' /\ ActionsIn(p, i)' = ActionsIn(p, i)
             /\ i - 1 \in 1 .. Len(log) /\ p <= i - 1
             /\ log'[i] = log[i] /\ log'[i-1] = log[i-1]
             /\ \A st : /\ Follows(st, i - 1)' <=> Follows(st, i - 1)
                        /\ Unexecuted(i - 1, st)' <=> Unexecuted(i - 1, st)
                        /\ Stopped(i - 1, st)' <=> Stopped(i - 1, st)
  <2>1. i \in 1 .. NextEntry /\ p \in 1 .. Len(log) /\ p < i
    BY <1>1, <1>2 DEF Opens
  <2>2. i - 1 \in 1 .. Len(log) /\ p <= i - 1
    BY <1>1, <2>1
  <2>3. QED
    BY <1>1, <1>2, <2>1, <2>2, RecordedStays
<1>3. ASSUME NEW i \in Positions("state") PROVE StateFits(i)'
  <2>1. PICK p \in Positions("round-init") :
          Opens(p, i) /\ log[i].state \notin Goal /\ Follows(log[i].state, i - 1)
    BY DEF Fitting, StateFits
  <2>2. i \in 1 .. Len(log)
    BY <1>1
  <2>3. Opens(p, i)' /\ log'[i] = log[i] /\ Follows(log[i].state, i - 1)'
    BY <1>2, <2>1, <2>2
  <2>4. QED
    BY <1>1, <2>1, <2>3 DEF StateFits, Follows
<1>4. ASSUME NEW i \in Positions("action") PROVE ActionFits(i)'
  <2>1. PICK p \in Positions("round-init") :
          /\ Opens(p, i) /\ log[i-1].type = "state"
          /\ <<log[i-1].state, log[i].action>> \in Enabled
    BY DEF Fitting, ActionFits
  <2>2. i \in 1 .. Len(log)
    BY <1>1
  <2>3. QED
    BY <1>1, <1>2, <2>1, <2>2 DEF ActionFits
<1>5. ASSUME NEW i \in Positions("end-round") PROVE EndFits(i)'
  <2>1. PICK p \in Positions("round-init") :
          Opens(p, i) /\ Closes(i - 1, log[i].state, log[i].turns_used, ActionsIn(p, i))
    BY DEF Fitting, EndFits
  <2>2. i \in 1 .. Len(log)
    BY <1>1
  <2>3. PICK st, turns, n : st = log[i].state /\ turns = log[i].turns_used /\ n = ActionsIn(p, i)
    OBVIOUS
  <2>4. Closes(i - 1, st, turns, n)'
    BY <1>2, <2>1, <2>2, <2>3 DEF Closes
  <2>5. Opens(p, i)' /\ ActionsIn(p, i)' = n /\ log'[i] = log[i]
    BY <1>2, <2>1, <2>2, <2>3
  <2>6. QED
    BY <1>1, <2>3, <2>4, <2>5 DEF EndFits
<1>6. QED
  BY <1>3, <1>4, <1>5

(* The actions that the open round has seen.                               *)
LEMMA ActionsCount ==
  ASSUME log \in Seq(LogEntry), NEW e, e \in LogEntry, log' = Append(log, e),
         e.type # "round-init", NEW p \in Positions("round-init"), Opens(p, NextEntry)
  PROVE  /\ ActionsIn(p, NextEntry) \in Nat
         /\ Opens(p, NextEntry)'
         /\ e.type = "action" => ActionsIn(p, NextEntry)' = ActionsIn(p, NextEntry) + 1
         /\ e.type # "action" => ActionsIn(p, NextEntry)' = ActionsIn(p, NextEntry)
<1>1. /\ Len(log) \in Nat /\ NextEntry = Len(log) + 1 /\ NextEntry' = NextEntry + 1
      /\ \A type : \A i : i \in Positions(type)' <=>
           i \in Positions(type) \/ (i = NextEntry /\ e.type = type)
      /\ \A type : Positions(type) \subseteq 1 .. Len(log)
  BY OneMoreEntry, EntryTypes DEF NextEntry
<1> DEFINE S == {k \in Positions("action") : p < k /\ k < NextEntry}
<1>2. IsFiniteSet(1 .. Len(log))
  BY <1>1, FS_Interval
<1>3. S \subseteq 1 .. Len(log)
  BY <1>1
<1>4. IsFiniteSet(S) /\ NextEntry \notin S
  BY <1>1, <1>2, <1>3, FS_Subset
<1>5. Cardinality(S) \in Nat /\ Cardinality(S \cup {NextEntry}) = Cardinality(S) + 1
  BY <1>4, FS_CardinalityType, FS_AddElement
<1>6. p \in 1 .. Len(log) /\ p < NextEntry
  BY <1>1 DEF Opens
<1>7. e.type = "action" => {k \in Positions("action")' : p < k /\ k < NextEntry'} = S \cup {NextEntry}
  BY <1>1, <1>6
<1>8. e.type # "action" => {k \in Positions("action")' : p < k /\ k < NextEntry'} = S
  BY <1>1, <1>6
<1>9. Opens(p, NextEntry)'
  BY <1>1, <1>6 DEF Opens
<1>10. ActionsIn(p, NextEntry) = Cardinality(S)
  BY DEF ActionsIn
<1>11. ActionsIn(p, NextEntry)' = Cardinality({k \in Positions("action")' : p < k /\ k < NextEntry'})
  BY DEF ActionsIn
<1> HIDE DEF S
<1>12. QED
  BY <1>5, <1>7, <1>8, <1>9, <1>10, <1>11

(* An entry that is no part of a path, outside a round.                    *)
LEMMA OtherEntry ==
  ASSUME log \in Seq(LogEntry), Fitting, NEW e, e \in LogEntry, log' = Append(log, e),
         e.type \notin {"state", "action", "end-round"}
  PROVE  Fitting'
<1>1. \A type \in {"state", "action", "end-round"} : \A i :
        i \in Positions(type)' <=> i \in Positions(type)
  BY OneMoreEntry
<1>2. QED
  BY <1>1, FittingStays DEF Fitting

LEMMA SameLog ==
  ASSUME log' = log
  PROVE  /\ Fitting' <=> Fitting
         /\ NextEntry' = NextEntry
         /\ \A p, i : (Opens(p, i)' <=> Opens(p, i)) /\ ActionsIn(p, i)' = ActionsIn(p, i)
         /\ \A type : Positions(type)' = Positions(type)
<1>1. /\ NextEntry' = NextEntry
      /\ \A type : Positions(type)' = Positions(type)
  BY DEF NextEntry, Positions
<1>2. \A p, i : (Opens(p, i)' <=> Opens(p, i)) /\ ActionsIn(p, i)' = ActionsIn(p, i)
  BY <1>1 DEF Opens, ActionsIn
<1>3. Fitting' <=> Fitting
  BY <1>1, <1>2 DEF Fitting, StateFits, ActionFits, EndFits, Follows, Closes, Unexecuted, Stopped
<1>4. QED
  BY <1>1, <1>2, <1>3

(* The steps of a round write what the paths allow.                        *)
LEMMA PathSteps ==
  ASSUME TypeOK, Present, PathInv, log_paths, [Next]_vars, ~StartSession
  PROVE  PathInv'
<1> USE DEF RoundOpen, InRound, At, Return
<1>a. /\ log \in Seq(LogEntry) /\ Fitting
      /\ Len(log) \in Nat /\ NextEntry = Len(log) + 1
      /\ \A type : Positions(type) \subseteq 1 .. Len(log)
  BY EntryTypes DEF PathInv, TypeOK, LogEntry, NextEntry
<1>b. RoundOpen => \E p \in Positions("round-init") : Opens(p, NextEntry) /\ Trail(p)
  BY DEF PathInv
<1>c. turn \in Nat /\ s \in States /\ running \in BOOLEAN
  BY DEF TypeOK
<1>d. ASSUME NEW why \in {"bad problem", "bad action", "disabled action"}
      PROVE  Error(why) \in LogEntry /\ Error(why).type = "error"
  BY MessageTypes DEF LogEntry, Error
<1>1. CASE RefuseProblem \/ EndSession
  <2>1. PICK e \in LogEntry : /\ log' = Append(log, e)
                              /\ e.type \notin {"state", "action", "end-round"}
    <3>1. CASE RefuseProblem
      BY <1>d, <3>1 DEF RefuseProblem
    <3>2. CASE EndSession
      <4> DEFINE m == EndSessionMsg(round - 1, cfg.round_limit, success_count,
                                    total_time, total_turns, total_metric)
      <4>1. /\ round - 1 \in Int /\ cfg.round_limit \in Int /\ success_count \in Int
            /\ total_time \in Int /\ total_turns \in Int /\ total_metric \in Int
        BY DEF TypeOK, Cfg
      <4>2. m \in LogEntry
        BY <4>1, MessageTypes DEF LogEntry
      <4>3. m.type = "end-session"
        BY DEF EndSessionMsg
      <4> HIDE DEF m
      <4>4. log' = Append(log, m)
        BY <3>2 DEF EndSession, m
      <4>5. QED
        BY <4>2, <4>3, <4>4
    <3>3. QED
      BY <1>1, <3>1, <3>2
  <2>2. Fitting'
    BY <1>a, <2>1, OtherEntry
  <2>3. QED
    BY <1>1, <2>2 DEF PathInv, RefuseProblem, EndSession
<1>2. CASE AnnounceRound
  <2> DEFINE m == RoundInit(round, time_left', cfg.round_limit - round)
  <2>1. m \in LogEntry /\ m.type = "round-init"
    <3>1. round \in Int /\ cfg.round_limit - round \in Int
      BY DEF TypeOK, Cfg
    <3>2. time_left' \in Int
      BY <1>2, DurationTypes DEF AnnounceRound
    <3>3. m \in Replies
      BY <3>1, <3>2, MessageTypes
    <3>4. QED
      BY <3>3 DEF LogEntry, RoundInit
  <2> HIDE DEF m
  <2>2. log' = Append(log, m) /\ pc' = "round_init"
    BY <1>2 DEF AnnounceRound, m
  <2>3. Fitting'
    BY <1>a, <2>1, <2>2, OtherEntry
  <2>4. PICK p : p = NextEntry
    OBVIOUS
  <2>5. /\ p \in Positions("round-init")' /\ Opens(p, NextEntry)'
        /\ log'[Len(log')].type = "round-init"
    BY <1>a, <2>1, <2>2, <2>4, OneMoreEntry DEF Opens, NextEntry
  <2>6. Trail(p)'
    BY <2>2, <2>5 DEF Trail
  <2>7. QED
    BY <2>3, <2>5, <2>6 DEF PathInv
<1>3. CASE StartRound
  <2>1. /\ log' = log /\ pc = "round_init" /\ pc' = "turn_head"
        /\ s' \in InitStates /\ turn' = 1
    BY <1>3 DEF StartRound
  <2>2. PICK p \in Positions("round-init") : Opens(p, NextEntry) /\ Trail(p)
    BY <1>b, <2>1
  <2>3. log[Len(log)].type = "round-init"
    BY <2>1, <2>2 DEF Trail
  <2>4. p = Len(log)
    <3>1. p \in 1 .. Len(log)
      BY <1>a
    <3>2. Len(log) \in Positions("round-init")
      BY <1>a, <2>3, <3>1 DEF Positions
    <3>3. QED
      BY <1>a, <2>2, <3>1, <3>2 DEF Opens
  <2>5. ActionsIn(p, NextEntry) = 0
    <3>1. {k \in Positions("action") : p < k /\ k < NextEntry} = {}
      BY <1>a, <2>4
    <3>2. QED
      BY <3>1, FS_EmptySet DEF ActionsIn
  <2>6. Follows(s', Len(log))
    BY <2>1, <2>3 DEF Follows
  <2>7. turn' - 1 = ActionsIn(p, NextEntry)
    BY <2>1, <2>5
  <2>8. Trail(p)'
    BY <2>1, <2>6, <2>7, SameLog DEF Trail, Closes, Follows
  <2>9. QED
    BY <1>a, <2>1, <2>2, <2>8, SameLog DEF PathInv
<1>4. CASE SendState
  <2>1. /\ log' = Append(log, StateMsg(s)) /\ StateMsg(s) \in LogEntry
        /\ StateMsg(s).type = "state" /\ StateMsg(s).state = s
    BY <1>4, MessageTypes DEF SendState, TypeOK, LogEntry, StateMsg
  <2>2. /\ pc = "turn_head" /\ pc' = "read_act" /\ running /\ s \notin Goal
        /\ s' = s /\ turn' = turn /\ running' = running
    BY <1>4 DEF SendState, Playing, locals, game
  <2>3. PICK p \in Positions("round-init") : Opens(p, NextEntry) /\ Trail(p)
    BY <1>b, <2>2
  <2>4. Follows(s, Len(log)) /\ turn - 1 = ActionsIn(p, NextEntry)
    BY <2>2, <2>3 DEF Trail
  <2>5. ActionsIn(p, NextEntry)' = ActionsIn(p, NextEntry) /\ Opens(p, NextEntry)'
    BY <1>a, <2>1, <2>3, ActionsCount
  <2>6. /\ log'[Len(log')] = StateMsg(s) /\ log'[NextEntry] = StateMsg(s)
        /\ \A type : \A i : i \in Positions(type)' <=>
             i \in Positions(type) \/ (i = NextEntry /\ type = "state")
    BY <1>a, <2>1, OneMoreEntry
  <2>7. StateMsg(s)' = StateMsg(s)
    BY <2>2 DEF StateMsg
  <2>8. Trail(p)'
    BY <2>2, <2>4, <2>5, <2>6, <2>7 DEF Trail
  <2>9. PICK i : i = NextEntry
    OBVIOUS
  <2>10. StateFits(i)'
    <3>1. Opens(p, i) /\ i \in 1 .. NextEntry /\ p \in 1 .. Len(log) /\ p <= Len(log)
      BY <1>a, <2>3, <2>9
    <3>2. Opens(p, i)'
      BY <1>a, <2>1, <3>1, RecordedStays
    <3>3. PICK l : l = Len(log)
      OBVIOUS
    <3>4. l = i - 1 /\ l \in 1 .. Len(log)
      BY <1>a, <2>9, <3>1, <3>3
    <3>5. \A st : Follows(st, l)' <=> Follows(st, l)
      BY <1>a, <2>1, <3>1, <3>3, <3>4, RecordedStays
    <3>6. PICK st : st = s
      OBVIOUS
    <3>7. Follows(st, i - 1)' /\ log'[i].state = st /\ st \notin Goal
      BY <2>1, <2>2, <2>4, <2>6, <2>9, <3>3, <3>4, <3>5, <3>6
    <3>8. QED
      BY <2>6, <3>2, <3>7 DEF StateFits
  <2>11. Fitting'
    BY <1>a, <2>1, <2>6, <2>9, <2>10, FittingStays DEF Fitting
  <2>12. QED
    BY <2>3, <2>5, <2>6, <2>8, <2>11 DEF PathInv
<1>5. CASE AcceptAction
  <2>1. PICK a \in Actions : /\ <<s, a>> \in Enabled /\ action' = a
                             /\ log' = Append(log, ActionEntry(a))
    BY <1>5, SessionAssumption DEF AcceptAction
  <2>2. /\ ActionEntry(a) \in LogEntry /\ ActionEntry(a).type = "action"
        /\ ActionEntry(a).action = a
    BY DEF LogEntry, ActionEntry
  <2>3. /\ pc = "read_act" /\ pc' = "check_time"
        /\ s' = s /\ turn' = turn /\ running' = running
    BY <1>5 DEF AcceptAction, game
  <2>4. PICK p \in Positions("round-init") : Opens(p, NextEntry) /\ Trail(p)
    BY <1>b, <2>3
  <2>5. running /\ log[Len(log)] = StateMsg(s) /\ turn - 1 = ActionsIn(p, NextEntry)
    BY <2>3, <2>4 DEF Trail
  <2>6. ActionsIn(p, NextEntry)' = ActionsIn(p, NextEntry) + 1 /\ Opens(p, NextEntry)'
    BY <1>a, <2>1, <2>2, <2>4, ActionsCount
  <2>7. /\ log'[Len(log')] = ActionEntry(a) /\ log'[NextEntry] = ActionEntry(a)
        /\ log'[Len(log') - 1] = log[Len(log)] /\ log'[NextEntry - 1] = log[Len(log)]
        /\ \A type : \A i : i \in Positions(type)' <=>
             i \in Positions(type) \/ (i = NextEntry /\ type = "action")
    <3>1. Len(log) \in 1 .. Len(log)
      BY <1>a, <2>4 DEF Opens
    <3>2. QED
      BY <1>a, <2>1, <2>2, <3>1, OneMoreEntry
  <2>8. StateMsg(s)' = StateMsg(s) /\ ActionEntry(action)' = ActionEntry(a)
    BY <2>1, <2>3 DEF StateMsg, ActionEntry
  <2>9. Trail(p)'
    <3>1. turn' = ActionsIn(p, NextEntry)'
      BY <1>c, <2>3, <2>5, <2>6
    <3>2. QED
      BY <2>3, <2>5, <2>7, <2>8, <3>1 DEF Trail
  <2>10. PICK i : i = NextEntry
    OBVIOUS
  <2>11. ActionFits(i)'
    <3>1. Opens(p, i) /\ i \in 1 .. NextEntry
      BY <1>a, <2>4, <2>10
    <3>2. Opens(p, i)'
      BY <1>a, <2>1, <2>2, <3>1, RecordedStays
    <3>3. log'[i].action = a /\ log'[i-1].type = "state" /\ log'[i-1].state = s
      BY <2>2, <2>5, <2>7, <2>10 DEF StateMsg
    <3>4. QED
      BY <2>1, <2>7, <3>2, <3>3 DEF ActionFits
  <2>12. Fitting'
    BY <1>a, <2>1, <2>2, <2>7, <2>10, <2>11, FittingStays DEF Fitting
  <2>13. QED
    BY <2>4, <2>6, <2>7, <2>9, <2>12 DEF PathInv
<1>6. CASE RejectAction
  <2>1. PICK e \in LogEntry : e.type = "error" /\ log' = Append(log, e)
    BY <1>6, <1>d DEF RejectAction
  <2>2. /\ pc = "read_act" /\ pc' = "check_time"
        /\ s' = s /\ turn' = turn /\ running' = FALSE
    BY <1>6 DEF RejectAction
  <2>3. PICK p \in Positions("round-init") : Opens(p, NextEntry) /\ Trail(p)
    BY <1>b, <2>2
  <2>4. log[Len(log)] = StateMsg(s) /\ turn - 1 = ActionsIn(p, NextEntry)
    BY <2>2, <2>3 DEF Trail
  <2>5. ActionsIn(p, NextEntry)' = ActionsIn(p, NextEntry) /\ Opens(p, NextEntry)'
    BY <1>a, <2>1, <2>3, ActionsCount
  <2>6. /\ log'[Len(log')].type = "error" /\ log'[Len(log') - 1] = StateMsg(s)
        /\ p \in Positions("round-init")'
    <3>1. Len(log) \in 1 .. Len(log)
      BY <1>a, <2>3 DEF Opens
    <3>2. QED
      BY <1>a, <2>1, <2>4, <3>1, OneMoreEntry
  <2>7. Stopped(Len(log), s)'
    BY <2>2, <2>6 DEF Stopped, StateMsg
  <2>8. Trail(p)'
    BY <2>2, <2>4, <2>5, <2>7 DEF Trail
  <2>9. Fitting'
    BY <1>a, <2>1, OtherEntry
  <2>10. QED
    BY <2>5, <2>6, <2>8, <2>9 DEF PathInv
<1>7. CASE ReadDone
  <2>1. /\ pc = "read_act" /\ pc' = "check_time" /\ log' = log
        /\ s' = s /\ turn' = turn /\ running' = FALSE
    BY <1>7 DEF ReadDone
  <2>2. PICK p \in Positions("round-init") : Opens(p, NextEntry) /\ Trail(p)
    BY <1>b, <2>1
  <2>3. log[Len(log)] = StateMsg(s) /\ turn - 1 = ActionsIn(p, NextEntry)
    BY <2>1, <2>2 DEF Trail
  <2>4. Stopped(Len(log), s)'
    BY <2>1, <2>3 DEF Stopped, StateMsg
  <2>5. Trail(p)'
    BY <2>1, <2>3, <2>4, SameLog DEF Trail
  <2>6. QED
    BY <1>a, <2>1, <2>2, <2>5, SameLog DEF PathInv
<1>8. CASE TakeTurn
  <2>1. /\ pc = "check_time" /\ pc' = "turn_head" /\ running /\ running' = running
        /\ log' = log /\ s' \in Succ[<<s, action>>] /\ turn' = turn + 1
    BY <1>8 DEF TakeTurn
  <2>2. PICK p \in Positions("round-init") : Opens(p, NextEntry) /\ Trail(p)
    BY <1>b, <2>1
  <2>3. /\ log[Len(log)] = ActionEntry(action) /\ log[Len(log) - 1] = StateMsg(s)
        /\ turn = ActionsIn(p, NextEntry)
    BY <2>1, <2>2 DEF Trail
  <2>4. Follows(s', Len(log))
    BY <2>1, <2>3 DEF Follows, ActionEntry, StateMsg
  <2>5. turn' - 1 = ActionsIn(p, NextEntry)
    BY <1>c, <2>1, <2>3
  <2>6. Trail(p)'
    BY <2>1, <2>4, <2>5, SameLog DEF Trail, Follows
  <2>7. QED
    BY <1>a, <2>1, <2>2, <2>6, SameLog DEF PathInv
<1>9. CASE StopRound
  <2>1. /\ pc = "check_time" /\ pc' = "turn_head" /\ running' = FALSE
        /\ log' = log /\ s' = s /\ turn' = turn
    BY <1>9 DEF StopRound
  <2>2. PICK p \in Positions("round-init") : Opens(p, NextEntry) /\ Trail(p)
    BY <1>b, <2>1
  <2>3. Closes(Len(log), s, turn - 1, ActionsIn(p, NextEntry))
    <3>1. CASE running
      BY <2>1, <2>2, <3>1 DEF Trail, Closes, Unexecuted, ActionEntry, StateMsg
    <3>2. CASE ~running
      BY <2>1, <2>2, <3>2 DEF Trail, Closes
    <3>3. QED
      BY <3>1, <3>2
  <2>4. PICK n : n = ActionsIn(p, NextEntry)
    OBVIOUS
  <2>5. Closes(Len(log), s, turn - 1, n)'
    BY <2>1, <2>3, <2>4 DEF Closes, Follows, Unexecuted, Stopped
  <2>6. Trail(p)'
    BY <2>1, <2>4, <2>5, SameLog DEF Trail
  <2>7. QED
    BY <1>a, <2>1, <2>2, <2>6, SameLog DEF PathInv
<1>10. CASE EndRound
  <2> DEFINE m == EndRoundMsg(round, s, TimeSpent, turn - 1)
  <2>1. m \in LogEntry /\ m.type = "end-round" /\ m.state = s /\ m.turns_used = turn - 1
    <3>1. TimeSpent \in Int /\ turn - 1 \in Int /\ round \in Int
      BY DurationTypes DEF TypeOK
    <3>2. m \in Replies
      BY <1>c, <3>1, MessageTypes
    <3>3. QED
      BY <3>2 DEF LogEntry, EndRoundMsg
  <2> HIDE DEF m
  <2>2. log' = Append(log, m) /\ pc = "turn_head" /\ pc' = "round_head"
    BY <1>10 DEF EndRound, m
  <2>3. PICK p \in Positions("round-init") : Opens(p, NextEntry) /\ Trail(p)
    BY <1>b, <2>2
  <2>4. Closes(Len(log), s, turn - 1, ActionsIn(p, NextEntry))
    BY <2>2, <2>3 DEF Trail, Closes
  <2>5. /\ log'[NextEntry] = m
        /\ \A type : \A i : i \in Positions(type)' <=>
             i \in Positions(type) \/ (i = NextEntry /\ type = "end-round")
    BY <1>a, <2>1, <2>2, OneMoreEntry
  <2>6. PICK i, l, st, turns, n :
          i = NextEntry /\ l = Len(log) /\ st = s /\ turns = turn - 1 /\ n = ActionsIn(p, NextEntry)
    OBVIOUS
  <2>7. EndFits(i)'
    <3>1. /\ i \in 1 .. NextEntry /\ Opens(p, i) /\ l = i - 1 /\ l \in 1 .. Len(log)
          /\ p <= l /\ n = ActionsIn(p, i)
      BY <1>a, <2>3, <2>6 DEF Opens
    <3>2. Opens(p, i)' /\ ActionsIn(p, i)' = n
      BY <1>a, <2>1, <2>2, <3>1, RecordedStays
    <3>3. /\ Follows(st, l)' <=> Follows(st, l)
          /\ Unexecuted(l, st)' <=> Unexecuted(l, st)
          /\ Stopped(l, st)' <=> Stopped(l, st)
      BY <1>a, <2>1, <2>2, <3>1, RecordedStays
    <3>4. Closes(l, st, turns, n)'
      BY <2>4, <2>6, <3>3 DEF Closes
    <3>5. log'[i].state = st /\ log'[i].turns_used = turns
      BY <2>1, <2>5, <2>6
    <3>6. QED
      BY <2>5, <3>1, <3>2, <3>4, <3>5 DEF EndFits
  <2>8. Fitting'
    BY <1>a, <2>1, <2>2, <2>5, <2>6, <2>7, FittingStays DEF Fitting
  <2>9. QED
    BY <2>2, <2>8 DEF PathInv
<1>11. CASE RefuseSession \/ RefuseRound \/ AbandonRound
  BY <1>a, <1>11, SameLog DEF RefuseSession, RefuseRound, AbandonRound, PathInv
<1>12. CASE Tick \/ Client \/ UNCHANGED vars
  <2>1. /\ log' = log /\ pc' = pc
        /\ s' = s /\ turn' = turn /\ running' = running /\ action' = action
    BY <1>12 DEF Tick, Client, ClientWrites, ClientReads, ClientCloses, vars, locals, game
  <2>2. \A p \in Positions("round-init") : Trail(p) => Trail(p)'
    BY <2>1, SameLog DEF Trail, Closes, Follows, Unexecuted, Stopped, StateMsg, ActionEntry
  <2>3. QED
    BY <1>a, <1>b, <2>1, <2>2, SameLog DEF PathInv
<1>13. QED
  BY <1>1, <1>2, <1>3, <1>4, <1>5, <1>6, <1>7, <1>8, <1>9, <1>10, <1>11, <1>12
  DEF Next, Thread

(* What the log shows of every round is an execution of the planning problem,
   from an initial state, through enabled actions, never out of a goal, and
   it is reported as it was played (mdpserver.cc:316-407); for any problem,
   any client and any limits. *)
THEOREM PathsAreReplayed == Spec => []PathsReplay
<1>1. Init => (log_paths => PathInv)
  BY DEF Init, PathInv, Fitting, RoundOpen, InRound, Positions
<1>2. IInv /\ LedgerInv /\ (log_paths => PathInv) /\ [Next]_vars => (log_paths => PathInv)'
  BY StartLedger, PathSteps DEF IInv, LedgerInv
<1>3. TypeOK /\ (log_paths => PathInv) => PathsReplay
  <2>1. SUFFICES ASSUME TypeOK, PathInv PROVE
          /\ \A i \in Positions("state") :
               log[i].state \notin Goal /\ Follows(log[i].state, i - 1)
          /\ \A i \in Positions("action") :
               /\ log[i-1].type = "state"
               /\ <<log[i-1].state, log[i].action>> \in Enabled
          /\ \A i \in Positions("end-round") :
               LET st == log[i].state
                   n  == ActionsIn(Opening(i), i)
               IN  \/ Follows(st, i - 1) /\ log[i].turns_used = n
                   \/ Unexecuted(i - 1, st) /\ log[i].turns_used = n - 1
                   \/ /\ log[i-1].type = "error"
                      /\ log[i-2].type = "state" /\ st = log[i-2].state
                      /\ log[i].turns_used = n
                   \/ /\ log[i-1].type = "state" /\ st = log[i-1].state
                      /\ log[i].turns_used = n
    BY DEF PathsReplay
  <2>2. log \in Seq(LogEntry)
    BY <2>1 DEF TypeOK, LogEntry
  <2>3. ASSUME NEW i \in Positions("end-round")
        PROVE  LET st == log[i].state
                   n  == ActionsIn(Opening(i), i)
               IN  \/ Follows(st, i - 1) /\ log[i].turns_used = n
                   \/ Unexecuted(i - 1, st) /\ log[i].turns_used = n - 1
                   \/ /\ log[i-1].type = "error"
                      /\ log[i-2].type = "state" /\ st = log[i-2].state
                      /\ log[i].turns_used = n
                   \/ /\ log[i-1].type = "state" /\ st = log[i-1].state
                      /\ log[i].turns_used = n
    <3>1. PICK p \in Positions("round-init") :
            Opens(p, i) /\ Closes(i - 1, log[i].state, log[i].turns_used, ActionsIn(p, i))
      BY <2>1 DEF PathInv, Fitting, EndFits
    <3>2. Opening(i) = p
      BY <2>2, <3>1, OpensOpening
    <3>3. i - 1 - 1 = i - 2
      BY <2>2, EntryTypes
    <3>4. QED
      BY <3>1, <3>2, <3>3 DEF Closes, Stopped
  <2>4. QED
    BY <2>1, <2>3 DEF PathInv, Fitting, StateFits, ActionFits
<1>4. QED
  BY <1>1, <1>2, <1>3, Inductive, LedgerInductive, TypeCorrect, PTL DEF Spec

-----------------------------------------------------------------------------
(***************************************************************************)
(* The log is a Contest.  First, what the recursive functions on sequences *)
(* return: they exist, and one more element makes one more step.           *)
(***************************************************************************)
LEMMA SetInduction ==
  ASSUME NEW S, 0 \in S, \A n \in Nat : n \in S => n + 1 \in S
  PROVE  \A n \in Nat : n \in S
<1> DEFINE R == OpToRel(<, Nat)
           T == Nat \ S
<1>1. IsWellFoundedOn(R, Nat)
  BY NatLessThanWellFounded
<1>2. SUFFICES ASSUME T # {} PROVE FALSE
  OBVIOUS
<1>3. PICK x \in T : \A y \in T : ~(<<y, x>> \in R)
  BY <1>1, <1>2, WFMin
<1>4. x # 0 /\ x - 1 \in Nat
  OBVIOUS
<1>5. <<x - 1, x>> \in R
  BY <1>4 DEF OpToRel
<1>6. x - 1 \in S
  BY <1>3, <1>4, <1>5
<1>7. QED
  BY <1>4, <1>6

(* A run through a sequence: from base, one step for each element.         *)
IsRun(f, base, step, seq) ==
  /\ f[0] = base
  /\ \A i \in 1 .. Len(seq) : f[i] = step[<<f[i-1], seq[i]>>]

LEMMA RunExists ==
  ASSUME NEW D, NEW E, NEW base \in D, NEW step \in [D \X E -> D], NEW seq \in Seq(E)
  PROVE  \E f \in [0 .. Len(seq) -> D] : IsRun(f, base, step, seq)
<1> DEFINE S == {n \in Nat : \A q \in Seq(E) : Len(q) = n =>
                   \E f \in [0 .. n -> D] : IsRun(f, base, step, q)}
<1>1. 0 \in S
  <2>1. SUFFICES ASSUME NEW q \in Seq(E), Len(q) = 0
                 PROVE  \E f \in [0 .. 0 -> D] : IsRun(f, base, step, q)
    OBVIOUS
  <2> DEFINE f == [i \in 0 .. 0 |-> base]
  <2>2. f \in [0 .. 0 -> D] /\ f[0] = base
    OBVIOUS
  <2>3. IsRun(f, base, step, q)
    BY <2>1, <2>2 DEF IsRun
  <2>4. QED
    BY <2>2, <2>3
<1>2. ASSUME NEW n \in Nat, n \in S, NEW q \in Seq(E), Len(q) = n + 1
      PROVE  \E f \in [0 .. n + 1 -> D] : IsRun(f, base, step, q)
  <2> DEFINE front == SubSeq(q, 1, n)
  <2>2. front \in Seq(E) /\ Len(front) = n /\ \A i \in 1 .. n : front[i] = q[i]
    BY <1>2
  <2>3. PICK f \in [0 .. n -> D] : IsRun(f, base, step, front)
    BY <1>2, <2>2
  <2> DEFINE g == [i \in 0 .. n + 1 |-> IF i = n + 1 THEN step[<<f[n], q[n+1]>>] ELSE f[i]]
  <2>4. f[n] \in D /\ q[n+1] \in E
    BY <1>2, <2>3
  <2>5. g \in [0 .. n + 1 -> D]
    BY <2>3, <2>4
  <2>6. IsRun(g, base, step, q)
    <3>1. g[0] = base
      BY <2>3 DEF IsRun
    <3>2. ASSUME NEW i \in 1 .. n + 1 PROVE g[i] = step[<<g[i-1], q[i]>>]
      <4>1. CASE i = n + 1
        <5>1. n + 1 \in 0 .. n + 1 /\ n \in 0 .. n + 1 /\ n # n + 1 /\ (n + 1) - 1 = n
          OBVIOUS
        <5>2. g[n+1] = step[<<f[n], q[n+1]>>]
          BY <5>1
        <5>3. g[n] = f[n]
          BY <5>1
        <5>4. QED
          BY <4>1, <5>1, <5>2, <5>3
      <4>2. CASE i # n + 1
        BY <2>2, <2>3, <4>2 DEF IsRun
      <4>3. QED
        BY <4>1, <4>2
    <3>3. QED
      BY <1>2, <3>1, <3>2 DEF IsRun
  <2>7. QED
    BY <2>5, <2>6
<1>3. ASSUME NEW n \in Nat, n \in S PROVE n + 1 \in S
  <2>1. \A q \in Seq(E) : Len(q) = n + 1 => \E f \in [0 .. n + 1 -> D] : IsRun(f, base, step, q)
    BY <1>2, <1>3
  <2>2. QED
    BY <2>1
<1>4. \A n \in Nat : n \in S
  <2> HIDE DEF S
  <2>1. QED
    BY <1>1, <1>3, SetInduction
<1>5. QED
  BY <1>4

(* Two functions that go through the same steps end alike.                 *)
LEMMA RunUnique ==
  ASSUME NEW n \in Nat, NEW f, NEW g, f[0] = g[0],
         \A i \in 1 .. n : f[i-1] = g[i-1] => f[i] = g[i]
  PROVE  f[n] = g[n]
<1> DEFINE S == {i \in Nat : i <= n => f[i] = g[i]}
<1>1. 0 \in S
  OBVIOUS
<1>2. \A i \in Nat : i \in S => i + 1 \in S
  OBVIOUS
<1>3. \A i \in Nat : i \in S
  <2> HIDE DEF S
  <2>1. QED
    BY <1>1, <1>2, SetInduction
<1>4. QED
  BY <1>3

Plus == [p \in Int \X Int |-> p[1] + p[2]]

LEMMA PlusAdds ==
  Plus \in [Int \X Int -> Int] /\ \A a, b \in Int : Plus[<<a, b>>] = a + b
<1>1. \A a, b \in Int : <<a, b>> \in Int \X Int /\ <<a, b>>[1] = a /\ <<a, b>>[2] = b
  OBVIOUS
<1>2. QED
  BY <1>1 DEF Plus

LEMMA TotalIsRun ==
  ASSUME NEW seq \in Seq(Int), NEW f \in [0 .. Len(seq) -> Int], IsRun(f, 0, Plus, seq)
  PROVE  AsContest!Total(seq) = f[Len(seq)]
<1> DEFINE IsSum(g) == g = [i \in 0 .. Len(seq) |-> IF i = 0 THEN 0 ELSE g[i-1] + seq[i]]
           h == CHOOSE g : IsSum(g)
<1>1. \A i \in 1 .. Len(seq) : f[i] = f[i-1] + seq[i]
  <2>1. \A i \in 1 .. Len(seq) : f[i-1] \in Int /\ seq[i] \in Int
    OBVIOUS
  <2>2. QED
    BY <2>1, PlusAdds DEF IsRun
<1>2. IsSum(f)
  BY <1>1 DEF IsRun
<1>3. IsSum(h)
  BY <1>2
<1>4. AsContest!Total(seq) = h[Len(seq)]
  BY DEF AsContest!Total
<1> HIDE DEF h
<1>5. h[0] = 0 /\ \A i \in 1 .. Len(seq) : h[i] = h[i-1] + seq[i]
  BY SMTT(20), <1>3
<1>6. f[0] = h[0] /\ \A i \in 1 .. Len(seq) : f[i-1] = h[i-1] => f[i] = h[i]
  BY <1>1, <1>5 DEF IsRun
<1>7. Len(seq) \in Nat
  OBVIOUS
<1>8. f[Len(seq)] = h[Len(seq)]
  BY <1>6, <1>7, RunUnique
<1>9. QED
  BY <1>4, <1>8

(* The total of a sequence with one more number.                           *)
LEMMA TotalGrows ==
  ASSUME NEW seq \in Seq(Int), NEW x \in Int
  PROVE  /\ AsContest!Total(seq) \in Int
         /\ AsContest!Total(Append(seq, x)) = AsContest!Total(seq) + x
<1> DEFINE q == Append(seq, x)
<1>1. /\ q \in Seq(Int) /\ Len(q) = Len(seq) + 1 /\ q[Len(q)] = x
      /\ \A i \in 1 .. Len(seq) : q[i] = seq[i]
  OBVIOUS
<1> HIDE DEF q
<1>2. Plus \in [Int \X Int -> Int] /\ 0 \in Int
  BY PlusAdds
<1>3. PICK f \in [0 .. Len(q) -> Int] : IsRun(f, 0, Plus, q)
  BY <1>1, <1>2, RunExists
<1>4. AsContest!Total(q) = f[Len(q)]
  BY <1>1, <1>3, TotalIsRun
<1> DEFINE g == [i \in 0 .. Len(seq) |-> f[i]]
<1>5. g \in [0 .. Len(seq) -> Int] /\ IsRun(g, 0, Plus, seq)
  BY <1>1, <1>3 DEF IsRun
<1>6. AsContest!Total(seq) = f[Len(seq)]
  BY <1>5, TotalIsRun
<1>7. f[Len(q)] = f[Len(seq)] + x
  <2>1. Len(q) \in 1 .. Len(q) /\ Len(q) - 1 = Len(seq) /\ f[Len(seq)] \in Int
    BY <1>1, <1>3
  <2>2. QED
    BY <1>1, <1>3, <2>1, PlusAdds DEF IsRun
<1>8. QED
  BY <1>1, <1>3, <1>4, <1>6, <1>7 DEF q

LEMMA TotalEmpty == AsContest!Total(<<>>) = 0
<1> DEFINE q == <<>>
<1>1. q \in Seq(Int) /\ Len(q) = 0
  OBVIOUS
<1> HIDE DEF q
<1>2. Plus \in [Int \X Int -> Int] /\ 0 \in Int
  BY PlusAdds
<1>3. PICK f \in [0 .. Len(q) -> Int] : IsRun(f, 0, Plus, q)
  BY <1>1, <1>2, RunExists
<1>4. AsContest!Total(q) = 0
  BY <1>1, <1>3, TotalIsRun DEF IsRun
<1>5. QED
  BY <1>4 DEF q

(* The results of a log with one more entry.                               *)
ResultSet == [goal : BOOLEAN, time : Int, turns : Int, metric : Int]

Collect ==
  [p \in Seq(ResultSet) \X LogEntry |->
     IF p[2].type = "end-round" THEN Append(p[1], Result(p[2])) ELSE p[1]]

LEMMA CollectAppends ==
  /\ Collect \in [Seq(ResultSet) \X LogEntry -> Seq(ResultSet)]
  /\ \A r \in Seq(ResultSet), e \in LogEntry :
       Collect[<<r, e>>] = IF e.type = "end-round" THEN Append(r, Result(e)) ELSE r
<1>1. ASSUME NEW e \in LogEntry, e.type = "end-round" PROVE Result(e) \in ResultSet
  <2>1. e.goal \in BOOLEAN /\ e.time_spent \in Int /\ e.turns_used \in Int /\ e.state \in States
    BY <1>1 DEF LogEntry, Replies
  <2>2. Metric[e.state] \in Int
    BY <2>1, SessionAssumption
  <2>3. QED
    BY <2>1, <2>2 DEF Result, ResultSet
<1>2. \A r \in Seq(ResultSet), e \in LogEntry :
        <<r, e>> \in Seq(ResultSet) \X LogEntry /\ <<r, e>>[1] = r /\ <<r, e>>[2] = e
  OBVIOUS
<1>3. \A r \in Seq(ResultSet), e \in LogEntry :
        Collect[<<r, e>>] = IF e.type = "end-round" THEN Append(r, Result(e)) ELSE r
  BY <1>2 DEF Collect
<1>4. ASSUME NEW p \in Seq(ResultSet) \X LogEntry PROVE Collect[p] \in Seq(ResultSet)
  <2>1. p[1] \in Seq(ResultSet) /\ p[2] \in LogEntry
    OBVIOUS
  <2>2. p[2].type = "end-round" => Append(p[1], Result(p[2])) \in Seq(ResultSet)
    BY <1>1, <2>1
  <2>3. QED
    BY <2>1, <2>2 DEF Collect
<1>5. Collect = [p \in Seq(ResultSet) \X LogEntry |-> Collect[p]]
  BY DEF Collect
<1>6. QED
  BY <1>3, <1>4, <1>5

LEMMA ResultsAreRun ==
  ASSUME NEW seq \in Seq(LogEntry), NEW f \in [0 .. Len(seq) -> Seq(ResultSet)],
         IsRun(f, <<>>, Collect, seq)
  PROVE  Results(seq) = f[Len(seq)]
<1> DEFINE Runs(g) ==
             g = [i \in 0 .. Len(seq) |->
                    IF i = 0 THEN <<>>
                    ELSE IF seq[i].type = "end-round" THEN Append(g[i-1], Result(seq[i]))
                         ELSE g[i-1]]
           h == CHOOSE g : Runs(g)
<1>1. \A i \in 1 .. Len(seq) :
        f[i] = IF seq[i].type = "end-round" THEN Append(f[i-1], Result(seq[i])) ELSE f[i-1]
  <2>1. \A i \in 1 .. Len(seq) : f[i-1] \in Seq(ResultSet) /\ seq[i] \in LogEntry
    OBVIOUS
  <2>2. QED
    BY <2>1, CollectAppends DEF IsRun
<1>2. Runs(f)
  <2>1. f[0] = <<>>
    BY DEF IsRun
  <2>2. \A i \in 0 .. Len(seq) :
          f[i] = IF i = 0 THEN <<>>
                 ELSE IF seq[i].type = "end-round" THEN Append(f[i-1], Result(seq[i]))
                      ELSE f[i-1]
    <3>1. \A i \in 0 .. Len(seq) : i = 0 \/ (i # 0 /\ i \in 1 .. Len(seq))
      OBVIOUS
    <3>2. QED
      BY <1>1, <2>1, <3>1, Zenon
  <2>3. f = [i \in 0 .. Len(seq) |-> f[i]]
    OBVIOUS
  <2>4. QED
    BY <2>2, <2>3, Zenon
<1>3. Runs(h)
  BY <1>2
<1>4. Results(seq) = h[Len(seq)]
  BY DEF Results
<1> HIDE DEF h
<1>5. h[0] = <<>> /\ \A i \in 1 .. Len(seq) :
        h[i] = IF seq[i].type = "end-round" THEN Append(h[i-1], Result(seq[i])) ELSE h[i-1]
  <2>1. \A i \in 0 .. Len(seq) :
          h[i] = IF i = 0 THEN <<>>
                 ELSE IF seq[i].type = "end-round" THEN Append(h[i-1], Result(seq[i]))
                      ELSE h[i-1]
    BY <1>3
  <2>2. 0 \in 0 .. Len(seq) /\ \A i \in 1 .. Len(seq) : i \in 0 .. Len(seq) /\ i # 0
    OBVIOUS
  <2>3. h[0] = <<>>
    BY <2>1, <2>2
  <2>4. QED
    BY <2>1, <2>2, <2>3
<1>6. f[0] = h[0] /\ \A i \in 1 .. Len(seq) : f[i-1] = h[i-1] => f[i] = h[i]
  BY <1>1, <1>5 DEF IsRun
<1>7. Len(seq) \in Nat
  OBVIOUS
<1>8. f[Len(seq)] = h[Len(seq)]
  BY <1>6, <1>7, RunUnique
<1>9. QED
  BY <1>4, <1>8

LEMMA ResultsGrow ==
  ASSUME NEW seq \in Seq(LogEntry), NEW e \in LogEntry
  PROVE  /\ Results(seq) \in Seq(ResultSet)
         /\ e.type = "end-round" =>
              /\ Results(Append(seq, e)) = Append(Results(seq), Result(e))
              /\ Result(e) \in ResultSet
         /\ e.type # "end-round" => Results(Append(seq, e)) = Results(seq)
<1> DEFINE q == Append(seq, e)
<1>1. /\ q \in Seq(LogEntry) /\ Len(q) = Len(seq) + 1 /\ q[Len(q)] = e
      /\ \A i \in 1 .. Len(seq) : q[i] = seq[i]
  OBVIOUS
<1> HIDE DEF q
<1>2. <<>> \in Seq(ResultSet)
  OBVIOUS
<1>3. PICK f \in [0 .. Len(q) -> Seq(ResultSet)] : IsRun(f, <<>>, Collect, q)
  BY <1>1, <1>2, CollectAppends, RunExists
<1>4. Results(q) = f[Len(q)]
  BY <1>1, <1>3, ResultsAreRun
<1> DEFINE g == [i \in 0 .. Len(seq) |-> f[i]]
<1>5. g \in [0 .. Len(seq) -> Seq(ResultSet)] /\ IsRun(g, <<>>, Collect, seq)
  BY <1>1, <1>3 DEF IsRun
<1>6. Results(seq) = f[Len(seq)]
  BY <1>5, ResultsAreRun
<1>7. Len(q) \in 1 .. Len(q) /\ Len(q) - 1 = Len(seq) /\ f[Len(seq)] \in Seq(ResultSet)
  BY <1>1, <1>3
<1>8. f[Len(q)] = IF e.type = "end-round" THEN Append(f[Len(seq)], Result(e)) ELSE f[Len(seq)]
  <2>1. f[Len(q)] = Collect[<<f[Len(q)-1], q[Len(q)]>>]
    BY <1>3, <1>7 DEF IsRun
  <2>2. f[Len(q)] = Collect[<<f[Len(seq)], e>>]
    BY <1>1, <1>7, <2>1
  <2>3. QED
    BY <1>7, <2>2, CollectAppends
<1>9. e.type = "end-round" => Result(e) \in ResultSet
  <2>1. SUFFICES ASSUME e.type = "end-round" PROVE Result(e) \in ResultSet
    OBVIOUS
  <2>2. e.goal \in BOOLEAN /\ e.time_spent \in Int /\ e.turns_used \in Int /\ e.state \in States
    BY <2>1 DEF LogEntry, Replies
  <2>3. Metric[e.state] \in Int
    BY <2>2, SessionAssumption
  <2>4. QED
    BY <2>2, <2>3 DEF Result, ResultSet
<1>10. QED
  BY <1>4, <1>6, <1>7, <1>8, <1>9 DEF q

LEMMA ResultsEmpty == Results(<<>>) = <<>>
<1> DEFINE q == <<>>
<1>1. q \in Seq(LogEntry) /\ Len(q) = 0
  OBVIOUS
<1> HIDE DEF q
<1>2. <<>> \in Seq(ResultSet)
  OBVIOUS
<1>3. PICK f \in [0 .. Len(q) -> Seq(ResultSet)] : IsRun(f, <<>>, Collect, q)
  BY <1>1, <1>2, CollectAppends, RunExists
<1>4. Results(q) = <<>>
  BY <1>1, <1>3, ResultsAreRun DEF IsRun
<1>5. QED
  BY <1>4 DEF q

(***************************************************************************)
(* What the thread's variables have to do with the results in the log: its *)
(* books are the sums of the reported rounds, successful or not, and what  *)
(* all of them were charged together fits into the time limit.             *)
(***************************************************************************)
Charged == AsContest!Total(AsContest!Times(Reported))

ContestInv ==
  pc \notin {"read_session", "returned"} =>
    /\ Announced = {cfg} /\ Concluded = {}
    /\ cfg \in {DefaultCfg} \cup {config_map[p] : p \in DOMAIN config_map}
    /\ Len(Reported) = round - 1
    /\ success_count = Cardinality(AsContest!Goals(Reported))
    /\ total_time = AsContest!Total(AsContest!GoalTimes(Reported))
    /\ total_metric = AsContest!Total(AsContest!Values(Reported))
    /\ Charged <= Largest(0, cfg.time_limit)
    /\ Charged <= Elapsed(session_timer)
    /\ RoundOpen => time_left = 0 \/ Charged + time_left <= cfg.time_limit
    /\ InRound => Charged <= round_timer - session_timer

(* One more reported round in each of the sums.                            *)
LEMMA SumsGrow ==
  ASSUME NEW seq \in Seq(ResultSet), NEW r \in ResultSet
  PROVE  /\ AsContest!Total(AsContest!Times(seq)) \in Int
         /\ AsContest!Total(AsContest!GoalTimes(seq)) \in Int
         /\ AsContest!Total(AsContest!Values(seq)) \in Int
         /\ Cardinality(AsContest!Goals(seq)) \in Nat
         /\ AsContest!Goals(seq) = {} <=> Cardinality(AsContest!Goals(seq)) = 0
         /\ AsContest!Total(AsContest!Times(Append(seq, r))) =
               AsContest!Total(AsContest!Times(seq)) + r.time
         /\ AsContest!Total(AsContest!GoalTimes(Append(seq, r))) =
               AsContest!Total(AsContest!GoalTimes(seq)) + (IF r.goal THEN r.time ELSE 0)
         /\ AsContest!Total(AsContest!Values(Append(seq, r))) =
               AsContest!Total(AsContest!Values(seq)) + r.metric
         /\ Cardinality(AsContest!Goals(Append(seq, r))) =
               Cardinality(AsContest!Goals(seq)) + (IF r.goal THEN 1 ELSE 0)
<1>1. \A i \in 1 .. Len(seq) : seq[i] \in ResultSet
  OBVIOUS
<1>2. /\ Len(seq) \in Nat /\ DOMAIN seq = 1 .. Len(seq)
      /\ DOMAIN Append(seq, r) = 1 .. Len(seq) + 1
      /\ Append(seq, r)[Len(seq) + 1] = r
      /\ \A i \in 1 .. Len(seq) : Append(seq, r)[i] = seq[i]
  OBVIOUS
<1>3. r.goal \in BOOLEAN /\ r.time \in Int /\ r.metric \in Int
  BY DEF ResultSet
<1>4. /\ AsContest!Times(seq) \in Seq(Int)
      /\ AsContest!Times(Append(seq, r)) = Append(AsContest!Times(seq), r.time)
  BY <1>1, <1>2, <1>3 DEF AsContest!Times, ResultSet
<1>5. /\ AsContest!Values(seq) \in Seq(Int)
      /\ AsContest!Values(Append(seq, r)) = Append(AsContest!Values(seq), r.metric)
  BY <1>1, <1>2, <1>3 DEF AsContest!Values, ResultSet
<1>6. /\ AsContest!GoalTimes(seq) \in Seq(Int)
      /\ AsContest!GoalTimes(Append(seq, r)) =
           Append(AsContest!GoalTimes(seq), IF r.goal THEN r.time ELSE 0)
  BY <1>1, <1>2, <1>3 DEF AsContest!GoalTimes, ResultSet
<1>7. /\ IsFiniteSet(AsContest!Goals(seq)) /\ Len(seq) + 1 \notin AsContest!Goals(seq)
      /\ AsContest!Goals(Append(seq, r)) =
           IF r.goal THEN AsContest!Goals(seq) \cup {Len(seq) + 1} ELSE AsContest!Goals(seq)
  <2>1. IsFiniteSet(1 .. Len(seq))
    BY <1>2, FS_Interval
  <2>2. AsContest!Goals(seq) \subseteq 1 .. Len(seq)
    BY <1>2 DEF AsContest!Goals
  <2>3. IsFiniteSet(AsContest!Goals(seq))
    BY <2>1, <2>2, FS_Subset
  <2>4. Len(seq) + 1 \notin AsContest!Goals(seq)
    BY <1>2, <2>2
  <2>5. AsContest!Goals(Append(seq, r)) =
           IF r.goal THEN AsContest!Goals(seq) \cup {Len(seq) + 1} ELSE AsContest!Goals(seq)
    BY <1>2 DEF AsContest!Goals
  <2>6. QED
    BY <2>3, <2>4, <2>5
<1>8. /\ Cardinality(AsContest!Goals(seq)) \in Nat
      /\ AsContest!Goals(seq) = {} <=> Cardinality(AsContest!Goals(seq)) = 0
      /\ Cardinality(AsContest!Goals(Append(seq, r))) =
           Cardinality(AsContest!Goals(seq)) + (IF r.goal THEN 1 ELSE 0)
  <2>1. Cardinality(AsContest!Goals(seq)) \in Nat
    BY <1>7, FS_CardinalityType
  <2>2. AsContest!Goals(seq) = {} <=> Cardinality(AsContest!Goals(seq)) = 0
    BY <1>7, FS_EmptySet
  <2>3. Cardinality(AsContest!Goals(seq) \cup {Len(seq) + 1}) = Cardinality(AsContest!Goals(seq)) + 1
    BY <1>7, FS_AddElement
  <2>4. QED
    BY <1>7, <2>1, <2>2, <2>3
<1>9. (IF r.goal THEN r.time ELSE 0) \in Int
  BY <1>3
<1>10. QED
  BY <1>3, <1>4, <1>5, <1>6, <1>8, <1>9, TotalGrows

(* One more entry in the view of the log as a contest.                     *)
LEMMA ViewGrows ==
  ASSUME log \in Seq(LogEntry), NEW e \in LogEntry, log' = Append(log, e)
  PROVE  /\ Reported \in Seq(ResultSet)
         /\ Announced' = Announced \cup (IF e.type = "session-init" THEN {Terms(e)} ELSE {})
         /\ Concluded' = Concluded \cup (IF e.type = "end-session" THEN {Verdict(e)} ELSE {})
         /\ e.type # "end-round" => Reported' = Reported
         /\ e.type = "end-round" =>
              Reported' = Append(Reported, Result(e)) /\ Result(e) \in ResultSet
<1>1. /\ Len(log) \in Nat /\ NextEntry = Len(log) + 1
      /\ \A i \in 1 .. Len(log) : log'[i] = log[i]
      /\ \A type : \A i : i \in Positions(type)' <=>
           i \in Positions(type) \/ (i = NextEntry /\ e.type = type)
      /\ \A type : Positions(type) \subseteq 1 .. Len(log)
  BY OneMoreEntry, EntryTypes DEF NextEntry
<1>2. Announced' = Announced \cup (IF e.type = "session-init" THEN {Terms(e)} ELSE {})
  <2>1. \A x : x \in Announced' <=> \E i \in Positions("session-init")' : x = Terms(log'[i])
    BY DEF Announced
  <2>2. \A x : x \in Announced <=> \E i \in Positions("session-init") : x = Terms(log[i])
    BY DEF Announced
  <2>3. \A i \in Positions("session-init") : log'[i] = log[i]
    BY <1>1
  <2>4. log'[NextEntry] = e
    BY OneMoreEntry
  <2>5. \A x : x \in Announced' <=> x \in Announced \/ (e.type = "session-init" /\ x = Terms(e))
    BY <1>1, <2>1, <2>2, <2>3, <2>4
  <2>6. QED
    BY <2>5 DEF Announced
<1>3. Concluded' = Concluded \cup (IF e.type = "end-session" THEN {Verdict(e)} ELSE {})
  <2>1. \A x : x \in Concluded' <=> \E i \in Positions("end-session")' : x = Verdict(log'[i])
    BY DEF Concluded
  <2>2. \A x : x \in Concluded <=> \E i \in Positions("end-session") : x = Verdict(log[i])
    BY DEF Concluded
  <2>3. \A i \in Positions("end-session") : log'[i] = log[i]
    BY <1>1
  <2>4. log'[NextEntry] = e
    BY OneMoreEntry
  <2>5. \A x : x \in Concluded' <=> x \in Concluded \/ (e.type = "end-session" /\ x = Verdict(e))
    BY <1>1, <2>1, <2>2, <2>3, <2>4
  <2>6. QED
    BY <2>5 DEF Concluded
<1>4. Reported' = Results(Append(log, e))
  BY DEF Reported
<1>5. QED
  BY <1>2, <1>3, <1>4, ResultsGrow DEF Reported

(* The steps that write nothing, or an entry that a contest does not show. *)
LEMMA QuietView ==
  ASSUME TypeOK, [Next]_vars, ~StartSession, ~EndRound, ~EndSession
  PROVE  Announced' = Announced /\ Reported' = Reported /\ Concluded' = Concluded
<1> DEFINE Plain(e) == e.type \notin {"session-init", "end-round", "end-session"}
           Unseen   == log' = log \/ \E e \in LogEntry : Plain(e) /\ log' = Append(log, e)
<1>1. ASSUME NEW why \in {"bad problem", "bad action", "disabled action"}
      PROVE  Error(why) \in LogEntry /\ Error(why).type = "error"
  BY MessageTypes DEF LogEntry, Error
<1>2. ASSUME RefuseProblem PROVE Unseen
  BY <1>1, <1>2 DEF RefuseProblem
<1>3. ASSUME RejectAction PROVE Unseen
  BY <1>1, <1>3 DEF RejectAction
<1>4. ASSUME SendState PROVE Unseen
  <2>1. StateMsg(s) \in LogEntry /\ StateMsg(s).type = "state"
    BY MessageTypes DEF TypeOK, LogEntry, StateMsg
  <2>2. QED
    BY <1>4, <2>1 DEF SendState
<1>5. ASSUME AcceptAction PROVE Unseen
  <2>1. \A a \in Actions : ActionEntry(a) \in LogEntry /\ ActionEntry(a).type = "action"
    BY DEF LogEntry, ActionEntry
  <2>2. PICK a \in Actions : log' = IF log_paths THEN Append(log, ActionEntry(a)) ELSE log
    BY <1>5, SessionAssumption DEF AcceptAction
  <2>3. QED
    BY <2>1, <2>2
<1>6. ASSUME AnnounceRound PROVE Unseen
  <2>1. round \in Int /\ cfg.round_limit - round \in Int /\ TimeLeft \in Int
    BY DurationTypes DEF TypeOK, Cfg
  <2> DEFINE m == RoundInit(round, TimeLeft, cfg.round_limit - round)
  <2>2. m \in LogEntry /\ m.type = "round-init"
    BY <2>1, MessageTypes DEF LogEntry, RoundInit
  <2>3. log' = Append(log, m)
    BY <1>6 DEF AnnounceRound
  <2> HIDE DEF m
  <2>4. QED
    BY <2>2, <2>3
<1>7. ASSUME ~(RefuseProblem \/ RejectAction \/ SendState \/ AcceptAction \/ AnnounceRound)
      PROVE  log' = log
  BY <1>7 DEF Next, Thread, Client, vars, RefuseSession, RefuseRound, StartRound, ReadDone,
     AbandonRound, TakeTurn, StopRound, Tick, ClientWrites, ClientReads, ClientCloses
<1>8. Unseen
  BY <1>2, <1>3, <1>4, <1>5, <1>6, <1>7
<1>9. CASE log' = log
  BY <1>9 DEF Announced, Reported, Concluded, Positions
<1>10. CASE \E e \in LogEntry : Plain(e) /\ log' = Append(log, e)
  <2>1. log \in Seq(LogEntry)
    BY DEF TypeOK, LogEntry
  <2>2. QED
    BY <1>10, <2>1, ViewGrows
<1>11. QED
  BY <1>8, <1>9, <1>10

(* An empty log shows a contest that has not begun.                        *)
LEMMA EmptyView ==
  ASSUME log = <<>>
  PROVE  Announced = {} /\ Reported = <<>> /\ Concluded = {}
<1>1. \A type : Positions(type) = {}
  BY DEF Positions
<1>2. QED
  BY <1>1, ResultsEmpty DEF Announced, Reported, Concluded

(* The sums over no rounds.                                                *)
LEMMA SumsEmpty ==
  /\ AsContest!Total(AsContest!Times(<<>>)) = 0
  /\ AsContest!Total(AsContest!GoalTimes(<<>>)) = 0
  /\ AsContest!Total(AsContest!Values(<<>>)) = 0
  /\ Cardinality(AsContest!Goals(<<>>)) = 0
<1>1. AsContest!Times(<<>>) = <<>> /\ AsContest!GoalTimes(<<>>) = <<>> /\ AsContest!Values(<<>>) = <<>>
  BY DEF AsContest!Times, AsContest!GoalTimes, AsContest!Values
<1>2. AsContest!Goals(<<>>) = {}
  BY DEF AsContest!Goals
<1>3. QED
  BY <1>1, <1>2, TotalEmpty, FS_EmptySet

(* The first entry announces the limits.                                   *)
LEMMA ContestStarts ==
  ASSUME TypeOK, LedgerInv, StartSession
  PROVE  ContestInv' /\ AsContest!Announce
<1>1. log = <<>> /\ log \in Seq(LogEntry)
  BY DEF LedgerInv, Present, StartSession, At, TypeOK, LogEntry
<1>2. PICK m \in Requests :
        /\ m.problem \in KnownProblems
        /\ cfg' = ConfigOf(m.problem)
        /\ log' = Append(log, SessionInit(ConfigOf(m.problem)))
  BY DEF StartSession
<1>3. cfg' \in Cfg
  BY <1>2, ConfigTypes, SessionAssumption
<1>4. cfg' \in {DefaultCfg} \cup {config_map[p] : p \in DOMAIN config_map}
  BY <1>2 DEF ConfigOf
<1> DEFINE e == SessionInit(cfg')
<1>5. e \in LogEntry /\ e.type = "session-init" /\ Terms(e) = cfg'
  <2>1. e \in LogEntry
    BY <1>3, MessageTypes DEF LogEntry
  <2>2. Terms(e) = cfg'
    BY <1>3 DEF SessionInit, Terms, Cfg
  <2>3. QED
    BY <2>1, <2>2 DEF SessionInit
<1> HIDE DEF e
<1>6. log' = Append(log, e)
  BY <1>2 DEF e
<1>7. Announced' = {cfg'} /\ Reported' = <<>> /\ Concluded' = {}
  BY <1>1, <1>5, <1>6, ViewGrows, EmptyView
<1>8. /\ round' = 1 /\ success_count' = 0 /\ total_time' = 0 /\ total_metric' = 0
      /\ session_timer' = now /\ now' = now /\ now \in Nat /\ pc' = "round_head"
  BY DEF StartSession, TypeOK
<1>9. cfg'.time_limit \in Int
  BY <1>3 DEF Cfg
<1>10. ContestInv'
  BY <1>4, <1>7, <1>8, <1>9, SumsEmpty DEF ContestInv, Charged, RoundOpen, InRound, Elapsed, Largest
<1>11. AsContest!Announce
  BY <1>1, <1>4, <1>7, EmptyView DEF AsContest!Announce
<1>12. QED
  BY <1>10, <1>11

(* The end of a round reports it, and its sums are the thread's books.     *)
LEMMA ContestReports ==
  ASSUME IInv, LedgerInv, ContestInv, EndRound
  PROVE  ContestInv' /\ AsContest!Report
<1> DEFINE e == EndRoundMsg(round, s, TimeSpent, turn - 1)
<1>1. TypeOK /\ Limits /\ Counting
  BY DEF IInv
<1>2. /\ cfg.time_limit \in Int /\ cfg.round_limit \in Int /\ cfg.turn_limit \in Int
      /\ round \in Nat /\ turn \in Nat /\ time_left \in Nat /\ round_timer \in Nat
      /\ session_timer \in Nat /\ now \in Nat /\ s \in States
      /\ TimeSpent \in Nat /\ Metric[s] \in Int
  BY <1>1, DurationTypes, SessionAssumption DEF TypeOK, Cfg
<1>3. /\ pc = "turn_head" /\ pc' = "round_head" /\ cfg' = cfg /\ session_timer' = session_timer
      /\ now' = now /\ round' = round + 1 /\ log' = Append(log, e)
      /\ total_metric' = total_metric + Metric[s]
  BY DEF EndRound, At, session
<1>4. log \in Seq(LogEntry) /\ e \in LogEntry
  <2>1. round \in Int /\ TimeSpent \in Int /\ turn - 1 \in Int
    BY <1>2
  <2>2. e \in Replies
    BY <1>2, <2>1, MessageTypes
  <2>3. QED
    BY <1>1, <2>2 DEF LogEntry, TypeOK
<1>5. /\ e.type = "end-round" /\ e.time_spent = TimeSpent /\ e.turns_used = turn - 1
      /\ e.state = s /\ e.goal = (s \in Goal)
  BY DEF EndRoundMsg
<1> HIDE DEF e
<1> DEFINE r == Result(e)
<1>6. /\ r.time = TimeSpent /\ r.turns = turn - 1 /\ r.metric = Metric[s]
      /\ r = [goal |-> e.goal, time |-> TimeSpent, turns |-> turn - 1, metric |-> Metric[s]]
  BY <1>5 DEF Result
<1>7. r.goal = e.goal
  BY DEF Result
<1> HIDE DEF r
<1>8. /\ Reported \in Seq(ResultSet) /\ r \in ResultSet /\ Reported' = Append(Reported, r)
      /\ Announced' = Announced /\ Concluded' = Concluded
  BY <1>3, <1>4, <1>5, ViewGrows DEF r
<1>9. /\ Charged \in Int /\ Charged' = Charged + TimeSpent
      /\ AsContest!Total(AsContest!GoalTimes(Reported'))
           = AsContest!Total(AsContest!GoalTimes(Reported)) + (IF r.goal THEN TimeSpent ELSE 0)
      /\ AsContest!Total(AsContest!Values(Reported'))
           = AsContest!Total(AsContest!Values(Reported)) + Metric[s]
      /\ Cardinality(AsContest!Goals(Reported'))
           = Cardinality(AsContest!Goals(Reported)) + (IF r.goal THEN 1 ELSE 0)
  BY <1>6, <1>8, SumsGrow DEF Charged
<1>10. /\ Announced = {cfg} /\ Concluded = {}
       /\ cfg \in {DefaultCfg} \cup {config_map[p] : p \in DOMAIN config_map}
       /\ Len(Reported) = round - 1
       /\ success_count = Cardinality(AsContest!Goals(Reported))
       /\ total_time = AsContest!Total(AsContest!GoalTimes(Reported))
       /\ total_metric = AsContest!Total(AsContest!Values(Reported))
       /\ Charged <= Largest(0, cfg.time_limit)
       /\ time_left = 0 \/ Charged + time_left <= cfg.time_limit
       /\ Charged <= round_timer - session_timer
  BY <1>3 DEF ContestInv, RoundOpen, InRound
<1>11. TimeSpent <= time_left /\ TimeSpent <= Largest(0, now - round_timer)
  BY <1>2 DEF TimeSpent, Elapsed, Largest, Least
<1>12. round_timer <= now
  BY DEF IInv, Accounting
<1>13. /\ Charged' <= Largest(0, cfg.time_limit)
       /\ Charged' <= now - session_timer
  BY <1>2, <1>9, <1>10, <1>11, <1>12 DEF Largest
<1>14. /\ total_time' = total_time + (IF r.goal THEN TimeSpent ELSE 0)
       /\ success_count' = success_count + (IF r.goal THEN 1 ELSE 0)
  <2>1. CASE s \in Goal
    <3>1. r.goal
      BY <1>5, <1>7, <2>1
    <3>2. total_time' = total_time + TimeSpent /\ success_count' = success_count + 1
      BY <2>1 DEF EndRound
    <3>3. QED
      BY <3>1, <3>2
  <2>2. CASE s \notin Goal
    <3>1. ~r.goal
      BY <1>5, <1>7, <2>2
    <3>2. total_time' = total_time /\ success_count' = success_count
      BY <2>2 DEF EndRound
    <3>3. total_time \in Nat /\ success_count \in Nat
      BY <1>1 DEF TypeOK
    <3>4. QED
      BY <3>1, <3>2, <3>3
  <2>3. QED
    BY <2>1, <2>2
<1>15. Len(Reported') = round
  BY <1>2, <1>8, <1>10
<1>16. ContestInv'
  BY <1>2, <1>3, <1>8, <1>9, <1>10, <1>13, <1>14, <1>15
     DEF ContestInv, RoundOpen, InRound, Elapsed
<1>17. AsContest!Report
  <2> DEFINE left == AsContest!NonNegative(cfg.time_limit) - Charged
  <2>1. left \in Int /\ TimeSpent \in 0 .. left
    BY <1>2, <1>9, <1>10, <1>11 DEF AsContest!NonNegative, Largest
  <2>2. left = 0 => turn - 1 = 0
    <3>1. SUFFICES ASSUME left = 0 PROVE turn = 1
      OBVIOUS
    <3>2. time_left = 0
      BY <1>2, <1>9, <1>10, <3>1 DEF AsContest!NonNegative
    <3>3. QED
      BY <1>3, <3>2 DEF LedgerInv, Present, InRound
  <2>3. turn - 1 \in 0 .. AsContest!NonNegative(cfg.turn_limit)
    BY <1>1, <1>2 DEF Limits, Counting, Largest, AsContest!NonNegative
  <2>4. turn - 1 \in IF left = 0 THEN {0} ELSE 0 .. AsContest!NonNegative(cfg.turn_limit)
    BY <2>2, <2>3
  <2>5. Len(Reported) < cfg.round_limit
    BY <1>1, <1>2, <1>3, <1>10 DEF Counting, InRound
  <2>6. e.goal \in BOOLEAN
    BY <1>8, <1>7 DEF ResultSet
  <2>7. Metric[s] \in {Metric[st] : st \in States}
    BY <1>2
  <2>8. left = AsContest!NonNegative(cfg.time_limit) - AsContest!Total(AsContest!Times(Reported))
    BY DEF Charged
  <2>9. Reported' = Append(Reported, [goal |-> e.goal, time |-> TimeSpent,
                                      turns |-> turn - 1, metric |-> Metric[s]])
    BY <1>6, <1>8
  <2> HIDE DEF left
  <2>10. cfg \in Announced /\ Concluded = {} /\ Announced' = Announced /\ Concluded' = Concluded
    BY <1>8, <1>10
  <2>11. \E goal \in BOOLEAN, time \in 0 .. left, metric \in {Metric[st] : st \in States} :
           \E turns \in IF left = 0 THEN {0} ELSE 0 .. AsContest!NonNegative(cfg.turn_limit) :
             Reported' = Append(Reported, [goal |-> goal, time |-> time,
                                           turns |-> turns, metric |-> metric])
    BY <2>1, <2>4, <2>6, <2>7, <2>9
  <2>12. QED
    BY <2>5, <2>8, <2>10, <2>11 DEF AsContest!Report
<1>18. QED
  BY <1>16, <1>17

(* A contest counts as this module does.                                   *)
LEMMA SameCardinality == \A S : AsContest!Cardinality(S) = Cardinality(S)
  BY Zenon DEF AsContest!Cardinality, Cardinality

(* The end of the session: the message says what the reports add up to.    *)
LEMMA ContestConcludes ==
  ASSUME IInv, ContestInv, EndSession
  PROVE  ContestInv' /\ AsContest!Conclude
<1> DEFINE e == EndSessionMsg(round - 1, cfg.round_limit, success_count,
                              total_time, total_turns, total_metric)
<1>1. TypeOK /\ Limits
  BY DEF IInv
<1>2. /\ cfg.round_limit \in Int /\ round \in Nat /\ success_count \in Nat
      /\ total_time \in Nat /\ total_turns \in Int /\ total_metric \in Int
  BY <1>1 DEF TypeOK, Cfg
<1>3. /\ pc = "round_head" /\ round > cfg.round_limit /\ pc' = "returned"
      /\ log' = Append(log, e)
  BY DEF EndSession, At, Return
<1>4. log \in Seq(LogEntry) /\ e \in LogEntry
  <2>1. /\ round - 1 \in Int /\ success_count \in Int /\ total_time \in Int
    BY <1>2
  <2>2. e \in Replies
    BY <1>2, <2>1, MessageTypes
  <2>3. QED
    BY <1>1, <2>2 DEF LogEntry, TypeOK
<1>5. e.type = "end-session"
  BY DEF EndSessionMsg
<1>6. /\ e.rounds = round - 1 /\ e.failed = cfg.round_limit - success_count
      /\ e.successes = success_count
      /\ e.averages = (IF success_count > 0 THEN {[time |-> total_time, turns |-> total_turns]} ELSE {})
      /\ e.metric = (IF cfg.round_limit > 0 THEN {total_metric} ELSE {})
  BY DEF EndSessionMsg
<1> HIDE DEF e
<1>7. /\ Announced = {cfg} /\ Concluded = {} /\ Len(Reported) = round - 1
      /\ success_count = Cardinality(AsContest!Goals(Reported))
      /\ total_time = AsContest!Total(AsContest!GoalTimes(Reported))
      /\ total_metric = AsContest!Total(AsContest!Values(Reported))
  BY <1>3 DEF ContestInv
<1>8. Announced' = Announced /\ Reported' = Reported /\ Concluded' = {Verdict(e)}
  BY <1>3, <1>4, <1>5, <1>7, ViewGrows
<1>9. Reported \in Seq(ResultSet)
  BY <1>3, <1>4, ViewGrows
<1>10. AsContest!Goals(Reported) # {} <=> success_count > 0
  <2>1. PICK g : g \in ResultSet
    <3>1. [goal |-> TRUE, time |-> 0, turns |-> 0, metric |-> 0] \in ResultSet
      BY DEF ResultSet
    <3>2. QED
      BY <3>1
  <2>2. AsContest!Goals(Reported) = {} <=> Cardinality(AsContest!Goals(Reported)) = 0
    BY <1>9, <2>1, SumsGrow
  <2>3. QED
    BY <1>2, <1>7, <2>2
<1>11. {a.time : a \in e.averages}
         = (IF AsContest!Goals(Reported) # {} THEN {total_time} ELSE {})
  <2>1. CASE success_count > 0
    <3>1. e.averages = {[time |-> total_time, turns |-> total_turns]}
      BY <1>6, <2>1
    <3>2. [time |-> total_time, turns |-> total_turns].time = total_time
      OBVIOUS
    <3>3. {a.time : a \in e.averages} = {total_time}
      BY <3>1, <3>2
    <3>4. QED
      BY <1>10, <2>1, <3>3
  <2>2. CASE ~(success_count > 0)
    <3>1. e.averages = {}
      BY <1>6, <2>2
    <3>2. {a.time : a \in e.averages} = {}
      BY <3>1
    <3>3. QED
      BY <1>10, <2>2, <3>2
  <2>3. QED
    BY <2>1, <2>2
<1>12. Verdict(e) = AsContest!Summary(cfg, Reported)
  <2>1. Verdict(e) = [rounds |-> e.rounds, failed |-> e.failed, successes |-> e.successes,
                      time |-> {a.time : a \in e.averages}, metric |-> e.metric]
    BY DEF Verdict
  <2>2. AsContest!Summary(cfg, Reported) =
          [rounds |-> Len(Reported),
           failed |-> cfg.round_limit - Cardinality(AsContest!Goals(Reported)),
           successes |-> Cardinality(AsContest!Goals(Reported)),
           time |-> IF AsContest!Goals(Reported) # {}
                    THEN {AsContest!Total(AsContest!GoalTimes(Reported))} ELSE {},
           metric |-> IF cfg.round_limit > 0
                      THEN {AsContest!Total(AsContest!Values(Reported))} ELSE {}]
    BY SameCardinality DEF AsContest!Summary
  <2>3. QED
    BY <1>6, <1>7, <1>11, <2>1, <2>2
<1>13. Len(Reported) = AsContest!NonNegative(cfg.round_limit)
  BY <1>1, <1>2, <1>3, <1>7 DEF Limits, Largest, AsContest!NonNegative
<1>14. AsContest!Conclude
  BY <1>7, <1>8, <1>12, <1>13 DEF AsContest!Conclude
<1>15. QED
  BY <1>3, <1>14 DEF ContestInv

(* Every other step leaves the contest as it is, and the budget in order.  *)
LEMMA ContestStays ==
  ASSUME IInv, IInv', ContestInv, [Next]_vars, ~StartSession, ~EndRound, ~EndSession
  PROVE  ContestInv' /\ Announced' = Announced /\ Reported' = Reported /\ Concluded' = Concluded
<1>1. TypeOK /\ TypeOK'
  BY DEF IInv
<1>2. Announced' = Announced /\ Reported' = Reported /\ Concluded' = Concluded
  BY <1>1, QuietView
<1>3. /\ cfg.time_limit \in Int /\ now \in Nat /\ now' \in Nat /\ session_timer \in Nat
      /\ round_timer \in Nat /\ time_left \in Nat /\ session_timer <= now
  BY <1>1 DEF TypeOK, Cfg, IInv, Accounting
<1>4. /\ cfg' = cfg /\ session_timer' = session_timer /\ now' >= now
      /\ round' = round /\ success_count' = success_count /\ total_time' = total_time
      /\ total_metric' = total_metric
  <2>1. /\ cfg' = cfg /\ session_timer' = session_timer
        /\ round' = round /\ success_count' = success_count /\ total_time' = total_time
        /\ total_metric' = total_metric
    BY DEF Next, Thread, Client, vars, RefuseProblem, RefuseSession, RefuseRound, AnnounceRound,
       StartRound, SendState, AcceptAction, RejectAction, ReadDone, AbandonRound, TakeTurn,
       StopRound, Tick, ClientWrites, ClientReads, ClientCloses, locals, session, totals
  <2>2. now' = now \/ now' = now + 1
    BY DEF Next, Thread, Client, vars, RefuseProblem, RefuseSession, RefuseRound, AnnounceRound,
       StartRound, SendState, AcceptAction, RejectAction, ReadDone, AbandonRound, TakeTurn,
       StopRound, Tick, ClientWrites, ClientReads, ClientCloses
  <2>3. QED
    BY <1>3, <2>1, <2>2
<1>5. Charged \in Int /\ Charged' = Charged
  <2>1. log \in Seq(LogEntry)
    BY <1>1 DEF TypeOK, LogEntry
  <2>2. PICK e : e = Error("bad problem")
    OBVIOUS
  <2>3. e \in LogEntry
    BY <2>2, MessageTypes DEF LogEntry
  <2>4. Reported \in Seq(ResultSet)
    BY <2>1, <2>3, ResultsGrow DEF Reported
  <2>5. [goal |-> TRUE, time |-> 0, turns |-> 0, metric |-> 0] \in ResultSet
    BY DEF ResultSet
  <2>6. QED
    BY <1>2, <2>4, <2>5, SumsGrow DEF Charged
<1>6. CASE pc' \in {"read_session", "returned"}
  BY <1>2, <1>6 DEF ContestInv
<1>7. CASE AnnounceRound
  <2>1. pc = "round_head" /\ pc' = "round_init" /\ time_left' = TimeLeft /\ now' = now
    BY <1>7 DEF AnnounceRound, At
  <2>2. time_left' = 0 \/ Charged + time_left' <= cfg.time_limit
    BY <1>3, <1>5, <2>1 DEF ContestInv, TimeLeft, Elapsed, Largest
  <2>3. QED
    BY <1>2, <1>3, <1>4, <1>5, <2>1, <2>2 DEF ContestInv, InRound, RoundOpen, Elapsed
<1>8. CASE StartRound
  <2>1. /\ pc = "round_init" /\ pc' = "turn_head" /\ time_left' = time_left /\ now' = now
        /\ round_timer' = now
    BY <1>8 DEF StartRound, At
  <2>2. QED
    BY <1>2, <1>3, <1>4, <1>5, <2>1 DEF ContestInv, InRound, RoundOpen, Elapsed
<1>9. CASE ~AnnounceRound /\ ~StartRound /\ pc' \notin {"read_session", "returned"}
  <2>1. time_left' = time_left /\ round_timer' = round_timer
    BY <1>9 DEF Next, Thread, Client, vars, RefuseProblem, RefuseSession, RefuseRound,
       SendState, AcceptAction, RejectAction, ReadDone, AbandonRound, TakeTurn,
       StopRound, Tick, ClientWrites, ClientReads, ClientCloses, locals, game
  <2>2. pc' = pc \/ (pc \in {"turn_head", "read_act", "check_time"} /\
                    pc' \in {"turn_head", "read_act", "check_time"})
    BY <1>9 DEF Next, Thread, Client, vars, RefuseProblem, RefuseSession, RefuseRound,
       SendState, AcceptAction, RejectAction, ReadDone, AbandonRound, TakeTurn,
       StopRound, Tick, ClientWrites, ClientReads, ClientCloses, At, Return
  <2>3. /\ pc \notin {"read_session", "returned"} /\ (InRound' <=> InRound)
        /\ (RoundOpen' <=> RoundOpen)
    BY <1>9, <2>2 DEF InRound, RoundOpen
  <2>4. Charged' <= Elapsed(session_timer)'
    BY <1>3, <1>4, <1>5, <2>3 DEF ContestInv, Elapsed
  <2>5. QED
    BY <1>2, <1>3, <1>4, <1>5, <2>1, <2>3, <2>4 DEF ContestInv
<1>10. QED
  BY <1>2, <1>6, <1>7, <1>8, <1>9

(* The log file of a session is a contest: the limits are announced once,  *)
(* the rounds are reported in order and within them, and the summary the   *)
(* server keeps in its own variables is the one the reports add up to, for *)
(* every problem, configuration and client and wherever the session ends.  *)
THEOREM SessionImplementsContest == Spec => ImplementsContest
<1>1. Init => AsContest!Init /\ ContestInv
  BY EmptyView DEF Init, AsContest!Init, ContestInv
<1>2. IInv /\ IInv' /\ LedgerInv /\ ContestInv /\ [Next]_vars
        => ContestInv' /\ [AsContest!Next]_(AsContest!contest)
  <2> SUFFICES ASSUME IInv, IInv', LedgerInv, ContestInv, [Next]_vars
               PROVE  ContestInv' /\ [AsContest!Next]_(AsContest!contest)
    OBVIOUS
  <2>1. CASE StartSession
    BY <2>1, ContestStarts DEF IInv, AsContest!Next
  <2>2. CASE EndRound
    BY <2>2, ContestReports DEF AsContest!Next
  <2>3. CASE EndSession
    BY <2>3, ContestConcludes DEF AsContest!Next
  <2>4. CASE ~StartSession /\ ~EndRound /\ ~EndSession
    BY <2>4, ContestStays DEF AsContest!contest
  <2>5. QED
    BY <2>1, <2>2, <2>3, <2>4
<1>3. QED
  BY <1>1, <1>2, Inductive, LedgerInductive, PTL DEF Spec, ImplementsContest, AsContest!Spec
=============================================================================
