----------------------------- MODULE SessionIds -----------------------------
(***************************************************************************)
(* The session identifiers of the server: new_id, read_last_id and         *)
(* write_last_id (mdpserver.cc), called by the thread of every session     *)
(* that is accepted, and the file last_id that carries the counter over a  *)
(* restart of the server.                                                  *)
(*                                                                         *)
(* The counter is a static variable: its initialiser runs once per process *)
(* (the language makes the other threads wait for it), but incrementing    *)
(* it, writing it to the file and returning it are separate accesses that  *)
(* no lock protects.  The file is truncated when it is opened and gets its *)
(* content when the number is flushed; a file that cannot be opened is     *)
(* passed over in silence.  The process may be killed anywhere.            *)
(***************************************************************************)
EXTENDS Integers, Sequences

CONSTANTS
  Threads,        (* session threads                                        *)
  Empty,          (* the content of a file that was truncated or is absent  *)
  MaxIds          (* bound: identifiers, in number and in value             *)

ASSUME SessionIdsAssumption == Empty \notin Int

VARIABLES
  file,           (* the content of the file last_id                        *)
  initialised,    (* the static variable has been initialised               *)
  last_id,        (* the static variable                                    *)
  pc,             (* where each thread is in new_id                         *)
  register,       (* the value a thread has loaded last_id into             *)
  issued          (* the identifiers returned so far, over all processes    *)

vars == <<file, initialised, last_id, pc, register, issued>>

(* What has happened to the counter; no action of the code reads these.    *)
VARIABLES
  mingled,        (* since new_id was last empty two threads were inside    *)
  unsaved,        (* the file was truncated or passed over and has not got  *)
                  (* the counter of this process since                      *)
  suspect         (* identifiers issued before the counter was last put in  *)
                  (* doubt                                                  *)

history == <<mingled, unsaved, suspect>>

Inside == {t \in Threads : pc[t] # "idle"}

Goto(t, label) == pc' = [pc EXCEPT ![t] = label]

Load(t) == register' = [register EXCEPT ![t] = last_id]

(* read_last_id: a file without a number leaves id at zero.                *)
ReadFile == IF file = Empty THEN 0 ELSE file

-----------------------------------------------------------------------------
(* The thread of a session reaches new_id.                                 *)
Call(t) ==
  /\ pc[t] = "idle"
  /\ Len(issued) < MaxIds /\ last_id < MaxIds /\ ReadFile < MaxIds
  /\ Goto(t, "init")
  /\ UNCHANGED <<file, initialised, last_id, register, issued>>

(* static int last_id = read_last_id(); without the file, zero.            *)
InitialiseEachCall(t) ==                               \* mutant of Initialise
  /\ pc[t] = "init"
  /\ last_id' = ReadFile
  /\ initialised' = TRUE
  /\ Goto(t, "load")
  /\ UNCHANGED <<file, register, issued>>

Initialise(t) ==
  /\ pc[t] = "init"
  /\ last_id' = IF initialised THEN last_id ELSE ReadFile
  /\ initialised' = TRUE
  /\ Goto(t, "load")
  /\ UNCHANGED <<file, register, issued>>

FileUnread(t) ==
  /\ pc[t] = "init" /\ ~initialised
  /\ last_id' = 0
  /\ initialised' = TRUE
  /\ Goto(t, "load")
  /\ UNCHANGED <<file, register, issued>>

(* last_id++: a load and a store.                                          *)
LoadCounter(t) ==
  /\ pc[t] = "load"
  /\ Load(t)
  /\ Goto(t, "store")
  /\ UNCHANGED <<file, initialised, last_id, issued>>

StoreCounter(t) ==
  /\ pc[t] = "store"
  /\ last_id' = register[t] + 1
  /\ Goto(t, "argument")
  /\ UNCHANGED <<file, initialised, register, issued>>

(* write_last_id(last_id): the argument, the open, the number, or nothing  *)
(* if the file cannot be opened.                                           *)
LoadArgument(t) ==
  /\ pc[t] = "argument"
  /\ Load(t)
  /\ Goto(t, "open")
  /\ UNCHANGED <<file, initialised, last_id, issued>>

OpenFile(t) ==
  /\ pc[t] = "open"
  /\ file' = Empty
  /\ Goto(t, "write")
  /\ UNCHANGED <<initialised, last_id, register, issued>>

FileUnwritten(t) ==
  /\ pc[t] = "open"
  /\ Goto(t, "return")
  /\ UNCHANGED <<file, initialised, last_id, register, issued>>

WriteFileStale(t) ==                                   \* mutant of WriteFile
  /\ pc[t] = "write"
  /\ file' = register[t] - 1
  /\ Goto(t, "return")
  /\ UNCHANGED <<initialised, last_id, register, issued>>

WriteFile(t) ==
  /\ pc[t] = "write"
  /\ file' = register[t]
  /\ Goto(t, "return")
  /\ UNCHANGED <<initialised, last_id, register, issued>>

(* return last_id: the counter is read once more.                          *)
ReturnId(t) ==
  /\ pc[t] = "return"
  /\ issued' = Append(issued, last_id)
  /\ Goto(t, "idle")
  /\ UNCHANGED <<file, initialised, last_id, register>>

(* The README stops the server by killing the process; it is started again *)
(* later.                                                                  *)
KillAndRestart ==
  /\ initialised' = FALSE
  /\ last_id' = 0
  /\ pc' = [t \in Threads |-> "idle"]
  /\ register' = [t \in Threads |-> 0]
  /\ UNCHANGED <<file, issued>>

Init ==
  /\ file = Empty
  /\ initialised = FALSE
  /\ last_id = 0
  /\ pc = [t \in Threads |-> "idle"]
  /\ register = [t \in Threads |-> 0]
  /\ issued = <<>>

NewId(t) ==
  \/ Call(t) \/ Initialise(t) \/ LoadCounter(t) \/ StoreCounter(t)
  \/ LoadArgument(t) \/ OpenFile(t) \/ WriteFile(t) \/ ReturnId(t)

WithoutFile(t) == FileUnread(t) \/ FileUnwritten(t)

Step == (\E t \in Threads : NewId(t) \/ WithoutFile(t)) \/ KillAndRestart

-----------------------------------------------------------------------------
(* What puts the counter in doubt.  Two threads are inside, until all have *)
(* left: one may store what another has counted past.  A process ends that *)
(* has not saved its counter, or one begins and does not read it.          *)
Overlap == \E t, u \in Threads : t # u /\ pc'[t] # "idle" /\ pc'[u] # "idle"

Forgets ==
  \/ unsaved /\ ~initialised'
  \/ ~initialised /\ initialised' /\ last_id' # ReadFile

Cut == \E t \in Threads : pc[t] = "open" /\ pc'[t] \in {"write", "return"}
Saved == \E t \in Threads : pc[t] = "write" /\ pc'[t] = "return"

Observe ==
  /\ mingled' = ((mingled \/ Overlap) /\ \E t \in Threads : pc'[t] # "idle")
  /\ unsaved' = (initialised' /\ (Cut \/ (unsaved /\ ~Saved)))
  /\ suspect' = IF mingled \/ Overlap \/ Forgets THEN Len(issued') ELSE suspect

HistoryInit == mingled = FALSE /\ unsaved = FALSE /\ suspect = 0

Next == Step /\ Observe

Spec == Init /\ HistoryInit /\ [][Next]_<<vars, history>>

-----------------------------------------------------------------------------
(***************************************************************************)
(* Properties.                                                             *)
(***************************************************************************)
Labels == {"idle", "init", "load", "store", "argument", "open", "write", "return"}

(* Every variable has its type.                                            *)
TypeOK ==
  /\ file \in Nat \cup {Empty}
  /\ initialised \in BOOLEAN
  /\ last_id \in Nat
  /\ pc \in [Threads -> Labels]
  /\ register \in [Threads -> Nat]
  /\ issued \in Seq(Nat)
  /\ mingled \in BOOLEAN /\ unsaved \in BOOLEAN
  /\ suspect \in 0 .. Len(issued)

(* No two sessions get the same identifier.  This is not so: the code only *)
(* guarantees what follows.                                                *)
UniqueIds ==
  \A i, j \in DOMAIN issued : i < j => issued[i] < issued[j]

(* The identifiers issued since the counter was last in doubt.             *)
Reliable == suspect + 1 .. Len(issued)

LastIssued == IF issued = <<>> THEN 0 ELSE issued[Len(issued)]

(* Later sessions get larger identifiers, in one process and across        *)
(* restarts: an identifier is repeated only if, in or after the call that  *)
(* got it first, two calls have overlapped, a process was killed between   *)
(* truncating the file and writing it, or the file could not be opened and *)
(* the process ended before it was written again (mdpserver.cc:91-117).    *)
(* Kills at any other point, any number of them, and an overlap once it is *)
(* over do no harm to what follows.                                        *)
IdsIncrease ==
  \A i, j \in Reliable : i < j => issued[i] < issued[j]

(* What read_last_id expects of the file, "the last used client id"        *)
(* (mdpserver.cc:90): when no call is at work, it is that of the counter,  *)
(* and no identifier issued since the counter was in doubt is beyond it;   *)
(* after a restart too, whatever the killed process was doing.             *)
FileRemembers ==
  Inside = {} /\ ~unsaved /\ Reliable # {} =>
    /\ file # Empty /\ LastIssued <= file
    /\ initialised => last_id = file

-----------------------------------------------------------------------------
(* The inductive invariant.  A thread that is past the initialiser has     *)
(* found or made the counter initialised; while calls are mingled nothing  *)
(* that was issued is reliable, and otherwise one thread at most is        *)
(* inside.                                                                 *)
Started ==
  /\ \A t \in Threads : pc[t] \notin {"idle", "init"} => initialised
  /\ unsaved => initialised
  /\ mingled => suspect = Len(issued) /\ Inside # {}
  /\ ~mingled => \A t, u \in Threads : pc[t] # "idle" /\ pc[u] # "idle" => t = u

(* Then the thread holds what the counter holds, and so does the file once *)
(* it is written.                                                          *)
Carries(t) ==
  /\ pc[t] \in {"store", "open", "write"} => register[t] = last_id
  /\ pc[t] = "write" => unsaved
  /\ pc[t] = "return" /\ ~unsaved => file = last_id

(* The counter is beyond the reliable identifiers from its increment to    *)
(* the return, and not behind them before.                                 *)
Counting == \A t \in Threads : pc[t] \in {"idle", "init", "load", "store"}

Beyond ==
  /\ ~unsaved => file # Empty /\ LastIssued <= file
  /\ initialised /\ Counting =>
       /\ LastIssued <= last_id
       /\ ~unsaved => last_id = file
  /\ ~Counting => LastIssued < last_id

IInv ==
  /\ TypeOK
  /\ Started
  /\ ~mingled => \A t \in Threads : Carries(t)
  /\ ~mingled /\ Reliable # {} => Beyond
  /\ \A i \in Reliable : issued[i] <= LastIssued
  /\ IdsIncrease
=============================================================================
