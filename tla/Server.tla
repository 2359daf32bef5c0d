------------------------------- MODULE Server -------------------------------
(***************************************************************************)
(* The server process: the accept loop (run_server), the threads it starts *)
(* (host_problem, of which module Session has one in full), the counter of *)
(* identifiers they share (module SessionIds), the log files they append   *)
(* to and the descriptors they hold.                                       *)
(*                                                                         *)
(* A connection has one session, so connections and threads are the same   *)
(* set.  A round is a single exchange here: what happens in it is module   *)
(* Session's.  The socket of a session is never closed, its log file is    *)
(* when the thread returns; accept reserves its descriptor when it is      *)
(* called.                                                                 *)
(***************************************************************************)
EXTENDS SessionIds, FiniteSets, FiniteSetsExt, SequencesExt

CONSTANTS
  Requests,        (* proper requests: [name, problem]                      *)
  Malformed,       (* any other message                                     *)
  Silent,          (* no message                                            *)
  KnownProblems,   (* the problems the server has read                      *)
  ConfigFile,      (* its entries in order: [problem, rounds]               *)
  RoundLimit,      (* rounds of a problem that is not in the file           *)
  LongEntries,     (* the summary of a round exceeds the stream's buffer    *)
  MaxThreads, MaxDescriptors, Backlog,
  MaxStarts        (* bound: how often the server is started                *)

VARIABLES
  serving,         (* "down", or where the accept loop is                   *)
  starts,          (* how often the server was started                      *)
  backlog,         (* connections not accepted yet                          *)
  client,          (* the client's end of each connection                   *)
  request,         (* the first message of each connection                  *)
  at,              (* where each thread is in host_problem                  *)
  sockets,         (* connections that hold a descriptor                    *)
  stream,          (* the log stream of each thread                         *)
  out,             (* what the thread has to write to log and client        *)
  round,           (* the round each session is in                          *)
  files,           (* the log files                                         *)
  heard            (* what the server has told each client                  *)

svars == <<vars, history, serving, starts, backlog, client, request, at, sockets,
           stream, out, round, files, heard>>

Proper(c) == request[c] \in Requests
Known(c) == Proper(c) /\ request[c].problem \in KnownProblems

Running == {c \in Threads : at[c] \notin {"none", "lost", "over"}}

(* Descriptors in use; last_id is open while it is written, and a blocked  *)
(* accept has one reserved.                                                *)
Used ==
  Cardinality(sockets) + Cardinality({c \in Threads : stream[c] = "open"})
    + Cardinality({c \in Threads : pc[c] = "write"})
    + (IF serving = "blocked" THEN 1 ELSE 0)

Full == Used >= MaxDescriptors

(* The last entry for a problem wins.                                      *)
RoundsOf(p) ==
  LET for == {i \in DOMAIN ConfigFile : ConfigFile[i].problem = p} IN
  IF for = {} THEN RoundLimit ELSE ConfigFile[Max(for)].rounds

-----------------------------------------------------------------------------
(* The process ends, whatever its threads are doing: descriptors are       *)
(* closed and connections reset, the ones not yet accepted included.       *)
ProcessEnds ==
  /\ serving' = "down"
  /\ initialised' = FALSE /\ last_id' = 0
  /\ pc' = [t \in Threads |-> "idle"]
  /\ register' = [t \in Threads |-> 0]
  /\ backlog' = <<>>
  /\ client' = [c \in Threads |-> IF client[c] = "open" THEN "dropped" ELSE client[c]]
  /\ at' = [c \in Threads |-> IF at[c] = "none" THEN "none" ELSE "over"]
  /\ sockets' = {}
  /\ stream' = [c \in Threads |-> IF stream[c] = "open" THEN "closed" ELSE stream[c]]
  /\ out' = [c \in Threads |-> <<>>]
  /\ UNCHANGED <<file, issued, starts, request, round, files>>

Kill == serving # "down" /\ ProcessEnds /\ UNCHANGED heard

Start ==
  /\ serving = "down" /\ starts < MaxStarts
  /\ serving' = "call" /\ starts' = starts + 1
  /\ UNCHANGED <<vars, backlog, client, request, at, sockets, stream, out, round, files, heard>>

(* The clients: connect and send a request, or nothing; hang up.           *)
Connect(c) ==
  /\ client[c] = "away" /\ serving # "down" /\ Len(backlog) < Backlog
  /\ client' = [client EXCEPT ![c] = "open"]
  /\ backlog' = Append(backlog, c)
  /\ \E r \in Requests \cup {Malformed, Silent} : request' = [request EXCEPT ![c] = r]
  /\ UNCHANGED <<vars, serving, starts, at, sockets, stream, out, round, files, heard>>

HangUp(c) ==
  /\ client[c] = "open"
  /\ client' = [client EXCEPT ![c] = "gone"]
  /\ UNCHANGED <<vars, serving, starts, backlog, request, at, sockets, stream, out, round, files, heard>>

-----------------------------------------------------------------------------
(* The loop of run_server.  When accept fails the loop is left, run_server *)
(* returns and with it main.  A thread that cannot be created is not       *)
(* reported, and nobody closes its socket.                                 *)
CallAccept ==
  /\ serving = "call"
  /\ IF Full
     THEN ProcessEnds
     ELSE /\ serving' = "blocked"
          /\ UNCHANGED <<vars, starts, backlog, client, request, at, sockets, stream, out, round, files>>
  /\ UNCHANGED heard

Accept ==
  /\ serving = "blocked" /\ backlog # <<>>
  /\ LET c == Head(backlog) IN
       /\ sockets' = sockets \cup {c}
       /\ at' = [at EXCEPT ![c] = IF Cardinality(Running) < MaxThreads THEN "reading" ELSE "lost"]
  /\ backlog' = Tail(backlog)
  /\ serving' = "call"
  /\ UNCHANGED <<vars, starts, client, request, stream, out, round, files, heard>>

-----------------------------------------------------------------------------
(* A session.  The request names contestant and problem, or the thread     *)
(* returns; at the end of the stream it returns too.                       *)
GoTo(c, label) == at' = [at EXCEPT ![c] = label]

ReadRequestKnown(c) ==                                 \* mutant of ReadRequest
  /\ at[c] = "reading" /\ Known(c)
  /\ GoTo(c, "new_id")
  /\ UNCHANGED <<vars, serving, starts, backlog, client, request, sockets, stream, out, round, files, heard>>

ReadRequest(c) ==
  /\ at[c] = "reading" /\ Proper(c)
  /\ GoTo(c, "new_id")
  /\ UNCHANGED <<vars, serving, starts, backlog, client, request, sockets, stream, out, round, files, heard>>

Leave(c) ==
  /\ \/ at[c] = "reading" /\ (request[c] = Malformed \/ (request[c] = Silent /\ client[c] = "gone"))
     \/ at[c] = "waiting" /\ client[c] = "gone"
  /\ GoTo(c, "over")
  /\ stream' = [stream EXCEPT ![c] = IF @ = "open" THEN "closed" ELSE @]
  /\ UNCHANGED <<vars, serving, starts, backlog, client, request, sockets, out, round, files, heard>>

(* new_id.  Without a free descriptor last_id can be neither read nor      *)
(* written; nobody is told.                                                *)
TakeId(c) ==
  /\ at[c] = "new_id"
  /\ IF Full /\ (pc[c] = "open" \/ (pc[c] = "init" /\ ~initialised))
     THEN WithoutFile(c) ELSE NewId(c)
  /\ at' = [at EXCEPT ![c] = IF pc[c] = "return" THEN "open_log" ELSE @]
  /\ UNCHANGED <<serving, starts, backlog, client, request, sockets, stream, out, round, files, heard>>

(* What a session logs and says; a long entry reaches the file in parts.   *)
Entry(c, what) == [session |-> c, what |-> what, whole |-> TRUE,
                   rounds |-> IF Known(c) THEN RoundsOf(request[c].problem) ELSE 0]

Parts(e) == IF LongEntries /\ e.what = "round" THEN <<[e EXCEPT !.whole = FALSE], e>> ELSE <<e>>

(* The thread is about to log an entry and to send it to the client.       *)
Tell(c, what) == out' = [out EXCEPT ![c] = Parts(Entry(c, what))] /\ GoTo(c, "log")

Opening(c) == IF Known(c) THEN "session-init" ELSE "error"

OpenLogTruncating(c) ==                                \* mutant of OpenLog
  /\ at[c] = "open_log"
  /\ stream' = [stream EXCEPT ![c] = IF Full THEN "none" ELSE "open"]
  /\ files' = IF Full THEN files ELSE [files EXCEPT ![request[c]] = <<>>]
  /\ Tell(c, Opening(c))
  /\ UNCHANGED <<vars, serving, starts, backlog, client, request, sockets, round, heard>>

(* The log is opened in append mode; a session whose log cannot be opened  *)
(* goes on without one.                                                    *)
OpenLog(c) ==
  /\ at[c] = "open_log"
  /\ stream' = [stream EXCEPT ![c] = IF Full THEN "none" ELSE "open"]
  /\ Tell(c, Opening(c))
  /\ UNCHANGED <<vars, serving, starts, backlog, client, request, sockets, round, files, heard>>

WriteLog(c) ==
  /\ at[c] = "log"
  /\ files' = IF stream[c] = "open"
              THEN [files EXCEPT ![request[c]] = Append(@, Head(out[c]))] ELSE files
  /\ IF Len(out[c]) > 1
     THEN out' = [out EXCEPT ![c] = Tail(@)] /\ UNCHANGED at
     ELSE GoTo(c, "reply") /\ UNCHANGED out
  /\ UNCHANGED <<vars, serving, starts, backlog, client, request, sockets, stream, round, heard>>

(* The write to the client.  One that hung up is told nothing: the write   *)
(* is lost, or SIGPIPE ends the process and every session in it.           *)
Said(c) == Head(out[c]).what

GoOn(c) ==
  IF Said(c) \in {"error", "end-session"}
  THEN /\ GoTo(c, "over")
       /\ out' = [out EXCEPT ![c] = <<>>]
       /\ stream' = [stream EXCEPT ![c] = IF @ = "open" THEN "closed" ELSE @]
  ELSE /\ IF round[c] <= Head(out[c]).rounds
          THEN GoTo(c, "waiting") /\ out' = [out EXCEPT ![c] = <<>>]
          ELSE Tell(c, "end-session")
       /\ UNCHANGED stream

Reply(c) ==
  /\ at[c] = "reply"
  /\ \/ /\ GoOn(c)
        /\ heard' = IF client[c] = "open"
                    THEN [heard EXCEPT ![c] = Append(@, Head(out[c]))] ELSE heard
        /\ UNCHANGED <<vars, serving, starts, backlog, client, request, sockets, round, files>>
     \/ client[c] = "gone" /\ ProcessEnds /\ UNCHANGED heard

(* The client asks for the next round and it is played to its end.         *)
PlayRound(c) ==
  /\ at[c] = "waiting" /\ client[c] = "open"
  /\ Tell(c, "round")
  /\ round' = [round EXCEPT ![c] = @ + 1]
  /\ UNCHANGED <<vars, serving, starts, backlog, client, request, sockets, stream, files, heard>>

-----------------------------------------------------------------------------
ServerInit ==
  /\ Init /\ HistoryInit
  /\ serving = "down" /\ starts = 0 /\ backlog = <<>>
  /\ client = [c \in Threads |-> "away"]
  /\ request = [c \in Threads |-> Silent]
  /\ at = [c \in Threads |-> "none"]
  /\ sockets = {} /\ stream = [c \in Threads |-> "none"]
  /\ out = [c \in Threads |-> <<>>]
  /\ round = [c \in Threads |-> 1]
  /\ files = [r \in Requests |-> <<>>]
  /\ heard = [c \in Threads |-> <<>>]

Work(c) ==
  \/ ReadRequest(c) \/ TakeId(c) \/ OpenLog(c) \/ WriteLog(c) \/ Reply(c) \/ Leave(c)

Loop == CallAccept \/ Accept

ServerStep ==
  \/ Start \/ Kill \/ Loop
  \/ \E c \in Threads : Connect(c) \/ HangUp(c) \/ Work(c) \/ PlayRound(c)

ServerNext == ServerStep /\ Observe

ServerSpec == ServerInit /\ [][ServerNext]_svars

(* The operating system runs the loop and every thread that can go on.     *)
(* Nothing is assumed of the clients, of the one who kills the server and  *)
(* of the one who starts it again.                                         *)
FairServerSpec ==
  /\ ServerSpec
  /\ WF_svars(Loop /\ Observe)
  /\ \A c \in Threads : WF_svars(Work(c) /\ Observe)

-----------------------------------------------------------------------------
(***************************************************************************)
(* LogsTell: whatever the sessions of a contestant that append to the same *)
(* file do, and however often the server is killed, the file tells of each *)
(* of them what it did, in order and from its first line: the              *)
(* announcement with the limits of the configuration file, every round,    *)
(* the summary; and it tells all that the client was told                  *)
(* (mdpserver.cc:252-280, 406-421).                                        *)
(***************************************************************************)
Times(n, e) == [i \in 1 .. n |-> e]

Story(c) ==
  IF Known(c)
  THEN <<Entry(c, "session-init")>>
         \o Times(RoundsOf(request[c].problem), Entry(c, "round"))
         \o <<Entry(c, "end-session")>>
  ELSE <<Entry(c, "error")>>

(* The lines that tell of a session, and how many there are up to one.     *)
LinesIn(lines, c) == {i \in DOMAIN lines : lines[i].session = c /\ lines[i].whole}

Lines(c) == LinesIn(files[request[c]], c)

Rank(c, i) == Cardinality({j \in Lines(c) : j <= i})

Tells(c) ==
  /\ Cardinality(Lines(c)) <= Len(Story(c))
  /\ \A i \in Lines(c) : files[request[c]][i] = Story(c)[Rank(c, i)]
  /\ Len(heard[c]) <= Cardinality(Lines(c))
  /\ \A k \in DOMAIN heard[c] : heard[c][k] = Story(c)[k]

LogsTell == \A c \in Threads : stream[c] # "none" => Tells(c)

(* EntriesStand: the lines of a log file are entries, none is cut by       *)
(* another session's.  Holds as long as entries fit the stream's buffer.   *)
EntriesStand ==
  \A r \in Requests : \A i \in DOMAIN files[r] :
    ~files[r][i].whole /\ i < Len(files[r]) => files[r][i + 1].session = files[r][i].session

(***************************************************************************)
(* Answered: a client that has asked for a problem is told that its        *)
(* session begins, or why not, or loses the connection (mdpserver.cc:      *)
(* 209-281, 462-483): it does not wait for ever.                           *)
(***************************************************************************)
Answered ==
  \A c \in Threads :
    client[c] = "open" /\ Proper(c) ~> heard[c] # <<>> \/ client[c] # "open"
=============================================================================
