---------------------------- MODULE ServerProofs ----------------------------
(***************************************************************************)
(* The identifiers, for any number of threads, of calls that overlap, of   *)
(* kills anywhere and of files that cannot be opened: what new_id          *)
(* guarantees nevertheless.  A step of the server - accept loop, sessions, *)
(* log files, clients, SIGPIPE, descriptors running out - is a step of     *)
(* SessionIds or leaves its variables alone, so that what is proved there  *)
(* holds here, for any number of connections, starts and requests.         *)
(***************************************************************************)
EXTENDS Server, FiniteSetTheorems, TLAPS

(***************************************************************************)
(* SessionIds.  Types first, then the labels, then what the thread that is *)
(* alone in new_id holds.                                                  *)
(***************************************************************************)
LEMMA CodeTypes ==
  ASSUME TypeOK, Step \/ UNCHANGED vars
  PROVE  /\ file' \in Nat \cup {Empty} /\ initialised' \in BOOLEAN /\ last_id' \in Nat
         /\ pc' \in [Threads -> Labels] /\ register' \in [Threads -> Nat]
         /\ issued' \in Seq(Nat) /\ Len(issued) <= Len(issued')
<1> USE DEF TypeOK, Labels, Goto, Load
<1>0. Len(issued) \in Nat
  OBVIOUS
<1>1. ASSUME NEW t \in Threads, Call(t) \/ LoadCounter(t) \/ LoadArgument(t) \/ OpenFile(t)
                                  \/ WriteFile(t) \/ FileUnwritten(t)
      PROVE  /\ file' \in Nat \cup {Empty} /\ initialised' \in BOOLEAN /\ last_id' \in Nat
             /\ pc' \in [Threads -> Labels] /\ register' \in [Threads -> Nat]
             /\ issued' = issued
  BY <1>1 DEF Call, LoadCounter, LoadArgument, OpenFile, WriteFile, FileUnwritten
<1>2. ASSUME NEW t \in Threads, Initialise(t) \/ FileUnread(t)
      PROVE  /\ file' = file /\ initialised' \in BOOLEAN /\ last_id' \in Nat
             /\ pc' \in [Threads -> Labels] /\ register' = register /\ issued' = issued
  <2>1. initialised' = TRUE /\ last_id' \in Nat
    BY <1>2 DEF Initialise, FileUnread, ReadFile
  <2>2. pc' \in [Threads -> Labels]
    BY <1>2 DEF Initialise, FileUnread
  <2>3. QED
    BY <1>2, <2>1, <2>2 DEF Initialise, FileUnread
<1>3. ASSUME NEW t \in Threads, StoreCounter(t)
      PROVE  /\ file' = file /\ initialised' = initialised /\ last_id' \in Nat
             /\ pc' \in [Threads -> Labels] /\ register' = register /\ issued' = issued
  BY <1>3 DEF StoreCounter
<1>4. ASSUME NEW t \in Threads, ReturnId(t)
      PROVE  /\ file' = file /\ initialised' = initialised /\ last_id' = last_id
             /\ pc' \in [Threads -> Labels] /\ register' = register
             /\ issued' \in Seq(Nat) /\ Len(issued') = Len(issued) + 1
  BY <1>4 DEF ReturnId
<1>5. CASE KillAndRestart
  <2>1. initialised' = FALSE /\ last_id' = 0 /\ issued' = issued /\ file' = file
    BY <1>5 DEF KillAndRestart
  <2>2. pc' \in [Threads -> Labels] /\ register' \in [Threads -> Nat]
    BY <1>5 DEF KillAndRestart
  <2>3. initialised' \in BOOLEAN
    BY <2>1
  <2>4. Len(issued) <= Len(issued')
    BY <1>0, <2>1
  <2>5. QED
    BY <2>1, <2>2, <2>3, <2>4
<1>6. CASE UNCHANGED vars
  <2>1. /\ file' = file /\ initialised' = initialised /\ last_id' = last_id
        /\ pc' = pc /\ register' = register /\ issued' = issued
    BY <1>6 DEF vars
  <2>2. Len(issued) <= Len(issued)
    BY <1>0
  <2>3. QED
    BY <2>1, <2>2
<1>7. ASSUME NEW t \in Threads, NewId(t) \/ WithoutFile(t)
      PROVE  /\ file' \in Nat \cup {Empty} /\ initialised' \in BOOLEAN /\ last_id' \in Nat
             /\ pc' \in [Threads -> Labels] /\ register' \in [Threads -> Nat]
             /\ issued' \in Seq(Nat) /\ Len(issued) <= Len(issued')
  <2>1. Len(issued) <= Len(issued)
    BY <1>0
  <2>2. CASE StoreCounter(t)
    BY <1>3, <2>1, <2>2
  <2>3. CASE ReturnId(t)
    <3>1. Len(issued) <= Len(issued')
      BY <1>0, <1>4, <2>3
    <3>2. QED
      BY <1>4, <2>3, <3>1
  <2>4. CASE Initialise(t) \/ FileUnread(t)
    BY <1>2, <2>1, <2>4
  <2>5. CASE ~StoreCounter(t) /\ ~ReturnId(t) /\ ~Initialise(t) /\ ~FileUnread(t)
    <3>1. Call(t) \/ LoadCounter(t) \/ LoadArgument(t) \/ OpenFile(t) \/ WriteFile(t) \/ FileUnwritten(t)
      BY <1>7, <2>5 DEF NewId, WithoutFile
    <3>2. QED
      BY <1>1, <2>1, <3>1
  <2>6. QED
    BY <2>2, <2>3, <2>4, <2>5
<1>8. QED
  BY <1>5, <1>6, <1>7 DEF Step

LEMMA Typed ==
  ASSUME TypeOK, Step \/ UNCHANGED vars, Observe
  PROVE  TypeOK'
<1>1. issued \in Seq(Nat) /\ issued' \in Seq(Nat) /\ Len(issued) <= Len(issued')
  BY CodeTypes DEF TypeOK
<1>2. suspect' \in 0 .. Len(issued')
  BY <1>1 DEF Observe, TypeOK
<1>3. mingled' \in BOOLEAN /\ unsaved' \in BOOLEAN
  BY DEF Observe
<1>4. QED
  BY <1>2, <1>3, CodeTypes DEF TypeOK

(* Whatever the code does, a thread past the initialiser has it behind it. *)
LEMMA StartedStep ==
  ASSUME TypeOK, Started, Step, Observe
  PROVE  Started'
<1>1. \A t \in Threads : pc'[t] \notin {"idle", "init"} => initialised'
  <2> USE DEF TypeOK, Started, Goto
  <2>1. ASSUME NEW t \in Threads, NewId(t) \/ WithoutFile(t)
        PROVE  \A u \in Threads : pc'[u] \notin {"idle", "init"} => initialised'
    <3>1. CASE Call(t)
      BY <3>1 DEF Call
    <3>2. CASE Initialise(t) \/ FileUnread(t)
      BY <3>2 DEF Initialise, FileUnread
    <3>3. CASE LoadCounter(t) \/ StoreCounter(t) \/ LoadArgument(t)
      BY <3>3 DEF LoadCounter, StoreCounter, LoadArgument
    <3>4. CASE OpenFile(t) \/ WriteFile(t) \/ ReturnId(t) \/ FileUnwritten(t)
      BY <3>4 DEF OpenFile, WriteFile, ReturnId, FileUnwritten
    <3>5. QED
      BY <2>1, <3>1, <3>2, <3>3, <3>4 DEF NewId, WithoutFile
  <2>2. CASE KillAndRestart
    BY <2>2 DEF KillAndRestart
  <2>3. QED
    BY <2>1, <2>2 DEF Step
<1>2. unsaved' => initialised'
  BY DEF Observe
<1>3. mingled' => suspect' = Len(issued') /\ Inside' # {}
  BY DEF Observe, Inside
<1>4. ~mingled' => \A t, u \in Threads : pc'[t] # "idle" /\ pc'[u] # "idle" => t = u
  BY DEF Observe, Overlap
<1>5. QED
  BY <1>1, <1>2, <1>3, <1>4 DEF Started

-----------------------------------------------------------------------------
(* Only opening and writing the file changes what is known of it.          *)
LEMMA UnsavedKept ==
  ASSUME TypeOK, Started, Observe, initialised',
         \A u \in Threads : pc'[u] = pc[u] \/ pc[u] \notin {"open", "write"}
  PROVE  unsaved' = unsaved
<1>1. ~Cut
  BY DEF Cut
<1>2. ~Saved
  BY DEF Saved
<1>3. unsaved' <=> unsaved
  BY <1>1, <1>2 DEF Observe
<1>4. unsaved \in BOOLEAN /\ unsaved' \in BOOLEAN
  BY DEF TypeOK, Observe
<1>5. QED
  BY <1>3, <1>4

(* With nothing mingled a thread that takes a step is alone.               *)
LEMMA Alone ==
  ASSUME TypeOK, Started, ~mingled, ~Overlap,
         NEW t \in Threads, NewId(t) \/ WithoutFile(t)
  PROVE  /\ \A u \in Threads \ {t} : pc[u] = "idle" /\ pc'[u] = "idle"
         /\ pc[t] \in Labels
<1> USE DEF TypeOK, Goto
<1>1. \A u \in Threads \ {t} : pc'[u] = pc[u]
  BY DEF NewId, WithoutFile, Call, Initialise, FileUnread, LoadCounter, StoreCounter,
         LoadArgument, OpenFile, WriteFile, FileUnwritten, ReturnId
<1>2. CASE Call(t)
  <2>1. pc'[t] # "idle"
    BY <1>2 DEF Call
  <2>2. QED
    BY <1>1, <2>1 DEF Overlap
<1>3. CASE ~Call(t)
  <2>1. pc[t] # "idle"
    BY <1>3 DEF NewId, WithoutFile, Initialise, FileUnread, LoadCounter, StoreCounter,
                LoadArgument, OpenFile, WriteFile, FileUnwritten, ReturnId
  <2>2. QED
    BY <1>1, <2>1 DEF Started
<1>4. QED
  BY <1>2, <1>3

(* What the thread carries.                                                *)
LEMMA CarriesStep ==
  ASSUME IInv, Step, Observe, ~mingled', NEW v \in Threads
  PROVE  Carries(v)'
<1> USE DEF Goto, Load
<1>0. TypeOK /\ Started /\ (unsaved' => initialised')
  BY DEF IInv, Observe
<1>1. CASE mingled \/ Overlap
  <2>1. pc'[v] = "idle"
    BY <1>1 DEF Observe
  <2>2. QED
    BY <2>1 DEF Carries
<1>2. ASSUME ~mingled, ~Overlap, NEW t \in Threads, NewId(t) \/ WithoutFile(t)
      PROVE  Carries(v)'
  <2>1. \A u \in Threads \ {t} : pc[u] = "idle" /\ pc'[u] = "idle"
    BY <1>0, <1>2, Alone
  <2>2. CASE v # t
    BY <2>1, <2>2 DEF Carries
  <2>3. CASE v = t
    <3>1. Carries(t)
      BY <1>2 DEF IInv
    <3>2. CASE Call(t) \/ Initialise(t) \/ FileUnread(t) \/ StoreCounter(t) \/ ReturnId(t)
      <4>1. pc'[t] \in {"init", "load", "argument", "idle"}
        BY <1>0, <3>2 DEF Call, Initialise, FileUnread, StoreCounter, ReturnId, TypeOK
      <4>2. QED
        BY <2>3, <4>1 DEF Carries
    <3>3. CASE LoadCounter(t) \/ LoadArgument(t)
      <4>1. pc'[t] \in {"store", "open"} /\ register'[t] = last_id'
        BY <1>0, <3>3 DEF LoadCounter, LoadArgument, TypeOK
      <4>2. QED
        BY <2>3, <4>1 DEF Carries
    <3>4. CASE OpenFile(t)
      <4>1. pc[t] = "open" /\ pc'[t] = "write" /\ register'[t] = last_id' /\ initialised'
        BY <1>0, <3>1, <3>4 DEF OpenFile, TypeOK, Carries, Started
      <4>2. unsaved'
        BY <4>1 DEF Observe, Cut
      <4>3. QED
        BY <2>3, <4>1, <4>2 DEF Carries
    <3>5. CASE WriteFile(t)
      <4>1. pc'[t] = "return" /\ file' = last_id'
        BY <1>0, <3>1, <3>5 DEF WriteFile, TypeOK, Carries
      <4>2. QED
        BY <2>3, <4>1 DEF Carries
    <3>6. CASE FileUnwritten(t)
      <4>1. pc[t] = "open" /\ pc'[t] = "return" /\ initialised'
        BY <1>0, <3>6 DEF FileUnwritten, TypeOK, Started
      <4>2. unsaved'
        BY <4>1 DEF Observe, Cut
      <4>3. QED
        BY <2>3, <4>1, <4>2 DEF Carries
    <3>7. QED
      BY <1>2, <3>2, <3>3, <3>4, <3>5, <3>6 DEF NewId, WithoutFile
  <2>4. QED
    BY <2>2, <2>3
<1>3. CASE KillAndRestart
  <2>1. pc'[v] = "idle"
    BY <1>3 DEF KillAndRestart
  <2>2. QED
    BY <2>1 DEF Carries
<1>4. QED
  BY <1>1, <1>2, <1>3 DEF Step

-----------------------------------------------------------------------------
(* The file and the counter, as long as nothing has put them in doubt and no
   identifier is returned. *)
LEMMA BeyondStep ==
  ASSUME IInv, Step, Observe, ~mingled, ~Overlap, ~Forgets, Reliable # {},
         issued' = issued
  PROVE  Beyond'
<1> USE DEF Goto, Load
<1>0. TypeOK /\ Started /\ Beyond /\ LastIssued' = LastIssued
  BY DEF IInv, LastIssued
<1>00. LastIssued \in Nat
  BY <1>0 DEF TypeOK, LastIssued
<1>1. ASSUME NEW t \in Threads, NewId(t) \/ WithoutFile(t)
      PROVE  Beyond'
  <2>1. \A u \in Threads \ {t} : pc[u] = "idle" /\ pc'[u] = "idle"
    BY <1>0, <1>1, Alone
  <2>2. Carries(t)
    BY DEF IInv
  <2>3. CASE Call(t)
    <3>1. /\ pc[t] = "idle" /\ pc'[t] = "init" /\ file' = file /\ last_id' = last_id
          /\ initialised' = initialised
      BY <1>0, <2>3 DEF Call, TypeOK
    <3>2. Counting /\ Counting'
      BY <2>1, <3>1 DEF Counting
    <3>3. unsaved' = unsaved
      <4>1. CASE initialised
        <5>1. \A u \in Threads : pc'[u] = pc[u] \/ pc[u] \notin {"open", "write"}
          BY <2>1, <3>1
        <5>2. initialised'
          BY <3>1, <4>1
        <5>3. QED
          BY <1>0, <5>1, <5>2, UnsavedKept
      <4>2. CASE ~initialised
        <5>1. ~unsaved /\ ~unsaved'
          BY <1>0, <3>1, <4>2 DEF Started, Observe
        <5>2. unsaved = FALSE /\ unsaved' = FALSE
          BY <1>0, <5>1 DEF TypeOK, Observe
        <5>3. QED
          BY <5>2
      <4>3. QED
        BY <4>1, <4>2
    <3>4. QED
      BY <1>0, <3>1, <3>2, <3>3 DEF Beyond
  <2>4. CASE Initialise(t) \/ FileUnread(t)
    <3>1. /\ pc[t] = "init" /\ pc'[t] = "load" /\ file' = file /\ initialised'
          /\ initialised => last_id' = last_id
      BY <1>0, <2>4 DEF Initialise, FileUnread, TypeOK
    <3>2. Counting /\ Counting'
      BY <2>1, <3>1 DEF Counting
    <3>3. unsaved' = unsaved
      <4>1. \A u \in Threads : pc'[u] = pc[u] \/ pc[u] \notin {"open", "write"}
        BY <2>1, <3>1
      <4>2. QED
        BY <1>0, <3>1, <4>1, UnsavedKept
    <3>4. CASE initialised
      BY <1>0, <3>1, <3>2, <3>3, <3>4 DEF Beyond
    <3>5. CASE ~initialised
      <4>1. last_id' = ReadFile
        BY <3>1, <3>5 DEF Forgets
      <4>2. ~unsaved
        BY <1>0, <3>5 DEF Started
      <4>3. file # Empty /\ LastIssued <= file
        BY <1>0, <4>2 DEF Beyond
      <4>4. last_id' = file
        BY <4>1, <4>3 DEF ReadFile
      <4>5. QED
        BY <1>0, <3>1, <3>2, <4>3, <4>4 DEF Beyond
    <3>6. QED
      BY <3>4, <3>5
  <2>5. CASE LoadCounter(t) \/ StoreCounter(t) \/ LoadArgument(t)
    <3>1. /\ pc[t] \in {"load", "store", "argument"} /\ pc'[t] \in {"store", "argument", "open"}
          /\ file' = file /\ initialised' = initialised /\ initialised
      BY <1>0, <2>5 DEF LoadCounter, StoreCounter, LoadArgument, TypeOK, Started
    <3>2. unsaved' = unsaved
      <4>1. \A u \in Threads : pc'[u] = pc[u] \/ pc[u] \notin {"open", "write"}
        BY <2>1, <3>1
      <4>2. initialised'
        BY <3>1
      <4>3. QED
        BY <1>0, <4>1, <4>2, UnsavedKept
    <3>3. CASE LoadCounter(t)
      <4>1. pc[t] = "load" /\ pc'[t] = "store" /\ last_id' = last_id
        BY <1>0, <3>3 DEF LoadCounter, TypeOK
      <4>2. Counting /\ Counting'
        BY <2>1, <4>1 DEF Counting
      <4>3. QED
        BY <1>0, <3>1, <3>2, <4>1, <4>2 DEF Beyond
    <3>4. CASE StoreCounter(t)
      <4>1. pc[t] = "store" /\ pc'[t] = "argument" /\ last_id' = register[t] + 1
        BY <1>0, <3>4 DEF StoreCounter, TypeOK
      <4>2. last_id' = last_id + 1 /\ last_id \in Nat
        BY <1>0, <2>2, <4>1 DEF Carries, TypeOK
      <4>3. Counting /\ ~Counting'
        BY <2>1, <4>1 DEF Counting
      <4>4. LastIssued <= last_id
        BY <1>0, <3>1, <4>3 DEF Beyond
      <4>5. LastIssued < last_id'
        BY <1>00, <4>2, <4>4
      <4>6. QED
        BY <1>0, <3>1, <3>2, <4>3, <4>5 DEF Beyond
    <3>5. CASE LoadArgument(t)
      <4>1. pc[t] = "argument" /\ pc'[t] = "open" /\ last_id' = last_id
        BY <1>0, <3>5 DEF LoadArgument, TypeOK
      <4>2. ~Counting /\ ~Counting'
        BY <4>1 DEF Counting
      <4>3. QED
        BY <1>0, <3>1, <3>2, <4>1, <4>2 DEF Beyond
    <3>6. QED
      BY <2>5, <3>3, <3>4, <3>5
  <2>6. CASE OpenFile(t) \/ FileUnwritten(t)
    <3>1. /\ pc[t] = "open" /\ pc'[t] \in {"write", "return"} /\ last_id' = last_id
          /\ initialised'
      BY <1>0, <2>6 DEF OpenFile, FileUnwritten, TypeOK, Started
    <3>2. ~Counting /\ ~Counting'
      BY <3>1 DEF Counting
    <3>3. unsaved'
      BY <3>1 DEF Observe, Cut
    <3>4. QED
      BY <1>0, <3>1, <3>2, <3>3 DEF Beyond
  <2>7. CASE WriteFile(t)
    <3>1. /\ pc[t] = "write" /\ pc'[t] = "return" /\ last_id' = last_id
          /\ file' = last_id
      BY <1>0, <2>2, <2>7 DEF WriteFile, TypeOK, Carries
    <3>2. ~Counting /\ ~Counting'
      BY <3>1 DEF Counting
    <3>3. LastIssued < last_id /\ last_id \in Nat
      BY <1>0, <3>2 DEF Beyond, TypeOK
    <3>4. file' # Empty /\ LastIssued <= file'
      BY <1>00, <3>1, <3>3, SessionIdsAssumption
    <3>5. QED
      BY <1>0, <3>1, <3>2, <3>3, <3>4 DEF Beyond
  <2>8. CASE ReturnId(t)
    <3>1. issued' = Append(issued, last_id) /\ issued \in Seq(Nat)
      BY <1>0, <2>8 DEF ReturnId, TypeOK
    <3>2. Len(issued') = Len(issued) + 1 /\ Len(issued) \in Nat
      BY <3>1
    <3>3. QED
      BY <3>2
  <2>9. QED
    BY <1>1, <2>3, <2>4, <2>5, <2>6, <2>7, <2>8 DEF NewId, WithoutFile
<1>2. CASE KillAndRestart
  <2>1. ~initialised' /\ file' = file /\ \A t \in Threads : pc'[t] = "idle"
    BY <1>2 DEF KillAndRestart
  <2>2. ~unsaved
    BY <2>1 DEF Forgets
  <2>3. Counting'
    BY <2>1 DEF Counting
  <2>4. QED
    BY <1>0, <2>1, <2>2, <2>3 DEF Beyond
<1>3. QED
  BY <1>1, <1>2 DEF Step

-----------------------------------------------------------------------------
(* A thread that is alone returns an identifier beyond the reliable ones,
   and one that the file has if it has been written. *)
LEMMA ReturnStep ==
  ASSUME IInv, Observe, ~mingled, ~Overlap, ~Forgets, NEW t \in Threads, ReturnId(t)
  PROVE  Beyond' /\ IdsIncrease' /\ \A i \in Reliable' : issued'[i] <= LastIssued'
<1> DEFINE n == Len(issued)
<1>1. TypeOK /\ Started /\ Carries(t) /\ (Reliable # {} => Beyond)
  BY DEF IInv
<1>2. /\ pc[t] = "return" /\ issued' = Append(issued, last_id) /\ last_id' = last_id
      /\ file' = file /\ initialised' = initialised /\ pc'[t] = "idle" /\ suspect' = suspect
  BY <1>1 DEF ReturnId, Goto, TypeOK, Observe
<1>3. n \in Nat /\ issued \in Seq(Nat) /\ last_id \in Nat /\ suspect \in 0 .. n
  BY <1>1 DEF TypeOK
<1>4. /\ Len(issued') = n + 1 /\ issued'[n + 1] = last_id
      /\ \A i \in 1 .. n : issued'[i] = issued[i] /\ issued[i] \in Nat
  BY <1>2, <1>3
<1>5. LastIssued' = last_id
  BY <1>3, <1>4 DEF LastIssued
<1>6. Reliable' = Reliable \cup {n + 1} /\ Reliable \subseteq 1 .. n
  BY <1>2, <1>3, <1>4 DEF Reliable
<1>7. ASSUME NEW i \in Reliable PROVE issued'[i] < last_id
  <2>1. ~Counting
    BY <1>2 DEF Counting
  <2>2. LastIssued < last_id /\ LastIssued \in Nat
    BY <1>1, <1>3, <1>7, <2>1 DEF Beyond, LastIssued
  <2>3. issued[i] <= LastIssued
    BY DEF IInv
  <2>4. issued'[i] = issued[i] /\ issued[i] \in Nat
    BY <1>4, <1>6
  <2>5. QED
    BY <1>3, <2>2, <2>3, <2>4
<1>8. initialised' /\ unsaved' = unsaved
  <2>1. initialised'
    BY <1>1, <1>2 DEF Started
  <2>2. NewId(t)
    BY DEF NewId
  <2>3. \A u \in Threads : pc'[u] = pc[u] \/ pc[u] \notin {"open", "write"}
    BY <1>1, <1>2, <2>2, Alone
  <2>4. QED
    BY <1>1, <2>1, <2>3, UnsavedKept
<1>9. Beyond'
  <2>1. Counting'
    <3>1. NewId(t)
      BY DEF NewId
    <3>2. \A u \in Threads : pc'[u] = "idle"
      BY <1>1, <1>2, <3>1, Alone
    <3>3. QED
      BY <3>2 DEF Counting
  <2>2. ~unsaved => file' = last_id /\ file' # Empty
    BY <1>1, <1>2, <1>3, SessionIdsAssumption DEF Carries
  <2>3. QED
    BY <1>2, <1>3, <1>5, <1>8, <2>1, <2>2 DEF Beyond
<1>10. \A i \in Reliable' : issued'[i] <= last_id
  BY <1>3, <1>4, <1>6, <1>7
<1>11. ASSUME NEW i \in Reliable', NEW j \in Reliable', i < j
       PROVE  issued'[i] < issued'[j]
  <2>1. i \in Reliable
    BY <1>3, <1>6, <1>11
  <2>2. CASE j = n + 1
    BY <1>4, <1>7, <2>1, <2>2
  <2>3. CASE j \in Reliable
    <3>1. issued[i] < issued[j]
      BY <1>11, <2>1, <2>3 DEF IInv, IdsIncrease
    <3>2. issued'[i] = issued[i] /\ issued'[j] = issued[j]
      BY <1>4, <1>6, <2>1, <2>3
    <3>3. QED
      BY <3>1, <3>2
  <2>4. QED
    BY <1>6, <2>2, <2>3
<1>12. QED
  BY <1>5, <1>9, <1>10, <1>11 DEF IdsIncrease

(* Every step of new_id preserves the invariant.                           *)
LEMMA IdsStep ==
  ASSUME IInv, Step, Observe
  PROVE  IInv'
<1>1. TypeOK /\ Started
  BY DEF IInv
<1>2. TypeOK' /\ Started'
  BY <1>1, Typed, StartedStep
<1>3. ~mingled' => \A t \in Threads : Carries(t)'
  BY CarriesStep
<1>4. CASE mingled \/ Overlap \/ Forgets
  <2>1. suspect' = Len(issued') /\ Len(issued') \in Nat
    BY <1>2, <1>4 DEF Observe, TypeOK
  <2>2. Reliable' = {}
    BY <2>1 DEF Reliable
  <2>3. QED
    BY <1>2, <1>3, <2>2 DEF IInv, IdsIncrease
<1>5. CASE ~mingled /\ ~Overlap /\ ~Forgets /\ \E t \in Threads : ReturnId(t)
  BY <1>2, <1>3, <1>5, ReturnStep DEF IInv
<1>6. CASE ~mingled /\ ~Overlap /\ ~Forgets /\ ~\E t \in Threads : ReturnId(t)
  <2>1. issued' = issued
    BY <1>6 DEF Step, NewId, WithoutFile, Call, Initialise, FileUnread, LoadCounter,
                StoreCounter, LoadArgument, OpenFile, WriteFile, FileUnwritten, KillAndRestart
  <2>2. suspect' = suspect
    BY <1>6 DEF Observe
  <2>3. Reliable' = Reliable /\ LastIssued' = LastIssued
    BY <2>1, <2>2 DEF Reliable, LastIssued
  <2>4. Reliable # {} => Beyond'
    BY <1>6, <2>1, BeyondStep
  <2>5. \A i \in Reliable' : issued'[i] <= LastIssued'
    BY <2>1, <2>3 DEF IInv
  <2>6. IdsIncrease'
    BY <2>1, <2>3 DEF IInv, IdsIncrease
  <2>7. QED
    BY <1>2, <1>3, <2>3, <2>4, <2>5, <2>6 DEF IInv
<1>7. QED
  BY <1>4, <1>5, <1>6

LEMMA IdsInit ==
  ASSUME Init, HistoryInit
  PROVE  IInv
<1>1. /\ issued = <<>> /\ Len(issued) = 0 /\ LastIssued = 0 /\ initialised = FALSE
      /\ mingled = FALSE /\ unsaved = FALSE /\ suspect = 0
      /\ \A t \in Threads : pc[t] = "idle"
  BY DEF Init, HistoryInit, LastIssued
<1>2. TypeOK
  <2>1. initialised \in BOOLEAN /\ mingled \in BOOLEAN /\ unsaved \in BOOLEAN
    BY <1>1
  <2>2. QED
    BY <1>1, <2>1 DEF Init, TypeOK, Labels
<1>3. Reliable = {}
  BY <1>1 DEF Reliable
<1>4. Started
  BY <1>1 DEF Started
<1>5. \A t \in Threads : Carries(t)
  BY <1>1 DEF Carries
<1>6. QED
  BY <1>2, <1>3, <1>4, <1>5 DEF IInv, IdsIncrease

LEMMA IdsKept ==
  ASSUME IInv, [Next]_<<vars, history>>
  PROVE  IInv'
<1>1. CASE Next
  BY <1>1, IdsStep DEF Next
<1>2. CASE UNCHANGED <<vars, history>>
  <2> USE <1>2 DEF vars, history
  <2>1. TypeOK' /\ Started' /\ Reliable' = Reliable /\ LastIssued' = LastIssued
    BY DEF IInv, TypeOK, Started, Reliable, LastIssued, Inside
  <2>2. ~mingled' => \A t \in Threads : Carries(t)'
    BY DEF IInv, Carries
  <2>3. Beyond' = Beyond
    BY <2>1 DEF Beyond, Counting
  <2>4. QED
    BY <2>1, <2>2, <2>3 DEF IInv, IdsIncrease
<1>3. QED
  BY <1>1, <1>2

(* Nothing is assumed of the threads, of the one who kills the process and of
   the files. *)
LEMMA IdsInvariant == Spec => []IInv
<1>1. Init /\ HistoryInit => IInv
  BY IdsInit
<1>2. IInv /\ [Next]_<<vars, history>> => IInv'
  BY IdsKept
<1>3. QED
  BY <1>1, <1>2, PTL DEF Spec

(* An identifier is repeated only if calls overlapped, or a process ended
   before its counter was in the file, or the file was not read, after the
   first of the two was asked for (mdpserver.cc:112-117). *)
THEOREM IdsOnlyRepeatInDoubt == Spec => []IdsIncrease
<1>1. IInv => IdsIncrease
  BY DEF IInv
<1>2. QED
  BY <1>1, IdsInvariant, PTL

LEMMA FileIsCurrent ==
  ASSUME IInv
  PROVE  FileRemembers
<1> SUFFICES ASSUME Inside = {}, ~unsaved, Reliable # {}
             PROVE  /\ file # Empty /\ LastIssued <= file
                    /\ initialised => last_id = file
  BY DEF FileRemembers
<1>1. \A t \in Threads : pc[t] = "idle"
  BY DEF Inside
<1>2. ~mingled
  BY DEF IInv, Started
<1>3. Beyond /\ Counting
  BY <1>1, <1>2 DEF IInv, Counting
<1>4. QED
  BY <1>3 DEF Beyond

(* When no call is at work, and after a process was killed at any point, the
   file has what the next process must count on from, unless the last doubt
   about the counter is not over (mdpserver.cc:90-108). *)
THEOREM FileRemembersUnlessInDoubt == Spec => []FileRemembers
<1>1. IInv => FileRemembers
  BY FileIsCurrent
<1>2. QED
  BY <1>1, IdsInvariant, PTL

-----------------------------------------------------------------------------
(***************************************************************************)
(* Server.  The end of a process, whenever it is, is the end of the one    *)
(* of SessionIds.                                                          *)
(***************************************************************************)
LEMMA EndIsKill ==
  ASSUME ProcessEnds
  PROVE  KillAndRestart
BY DEF ProcessEnds, KillAndRestart

(* A step that leaves the counter alone leaves its history alone.          *)
LEMMA NothingObserved ==
  ASSUME TypeOK, Started, UNCHANGED vars, Observe
  PROVE  UNCHANGED history
<1>1. ~Cut /\ ~Saved
  BY DEF vars, Cut, Saved
<1>2. initialised' = initialised /\ pc' = pc /\ issued' = issued
  BY DEF vars
<1>3. unsaved' <=> unsaved
  BY <1>1, <1>2 DEF Observe, Started
<1>4. Overlap => mingled
  BY <1>2 DEF Overlap, Started
<1>5. mingled' <=> mingled
  BY <1>2, <1>4 DEF Observe, Started, Inside
<1>6. ~Forgets
  BY <1>2 DEF Forgets, Started
<1>7. suspect' = suspect
  BY <1>2, <1>4, <1>6 DEF Observe, Started
<1>8. mingled' = mingled /\ unsaved' = unsaved
  <2>1. mingled \in BOOLEAN /\ unsaved \in BOOLEAN /\ mingled' \in BOOLEAN /\ unsaved' \in BOOLEAN
    BY DEF TypeOK, Observe
  <2>2. QED
    BY <1>3, <1>5, <2>1
<1>9. QED
  BY <1>7, <1>8 DEF history

LEMMA StepRefines ==
  ASSUME TypeOK, Started, [ServerNext]_svars
  PROVE  [Next]_<<vars, history>>
<1>1. ASSUME ServerStep, Observe PROVE Step \/ UNCHANGED vars
  <2>1. ASSUME ProcessEnds PROVE Step
    BY <2>1, EndIsKill DEF Step
  <2>2. CASE Start
    BY <2>2 DEF Start
  <2>3. CASE Kill
    BY <2>1, <2>3 DEF Kill
  <2>4. CASE Loop
    BY <2>1, <2>4 DEF Loop, CallAccept, Accept
  <2>5. ASSUME NEW c \in Threads, Connect(c) \/ HangUp(c) \/ PlayRound(c)
        PROVE  UNCHANGED vars
    BY <2>5 DEF Connect, HangUp, PlayRound
  <2>6. ASSUME NEW c \in Threads, Work(c) PROVE Step \/ UNCHANGED vars
    <3>1. CASE TakeId(c)
      <4>1. NewId(c) \/ WithoutFile(c)
        BY <3>1 DEF TakeId
      <4>2. QED
        BY <4>1 DEF Step
    <3>2. CASE Reply(c)
      BY <2>1, <3>2 DEF Reply
    <3>3. CASE ReadRequest(c) \/ OpenLog(c) \/ WriteLog(c) \/ Leave(c)
      BY <3>3 DEF ReadRequest, OpenLog, WriteLog, Leave
    <3>4. QED
      BY <2>6, <3>1, <3>2, <3>3 DEF Work
  <2>7. QED
    BY <1>1, <2>2, <2>3, <2>4, <2>5, <2>6 DEF ServerStep
<1>2. CASE ServerNext
  <2>1. Step /\ Observe => Next
    BY DEF Next
  <2>2. QED
    BY <1>1, <1>2, <2>1, NothingObserved DEF ServerNext
<1>3. CASE UNCHANGED svars
  BY <1>3 DEF svars
<1>4. QED
  BY <1>2, <1>3

-----------------------------------------------------------------------------
(* The server implements SessionIds (new_id, read_last_id and write_last_id,
   mdpserver.cc:90-117), whatever clients do, when descriptors run out and
   wherever it is stopped. *)
THEOREM ServerImplementsIds == ServerSpec => Spec
<1>1. ServerInit => Init /\ HistoryInit /\ IInv
  BY IdsInit DEF ServerInit
<1>2. IInv /\ [ServerNext]_svars => [Next]_<<vars, history>>
  BY StepRefines DEF IInv
<1>3. IInv /\ [Next]_<<vars, history>> => IInv'
  BY IdsKept
<1>4. QED
  BY <1>1, <1>2, <1>3, PTL DEF ServerSpec, Spec

(* In the whole process too an identifier is repeated only then.           *)
THEOREM ServerIdsOnlyRepeatInDoubt == ServerSpec => []IdsIncrease
<1>1. Spec => []IdsIncrease
  BY IdsOnlyRepeatInDoubt
<1>2. QED
  BY <1>1, ServerImplementsIds, PTL

(* And the next process finds the file as it must.                         *)
THEOREM ServerFileRemembersUnlessInDoubt == ServerSpec => []FileRemembers
<1>1. Spec => []FileRemembers
  BY FileRemembersUnlessInDoubt
<1>2. QED
  BY <1>1, ServerImplementsIds, PTL

-----------------------------------------------------------------------------
(***************************************************************************)
(* The log files.  Here too sessions may overlap in new_id, descriptors    *)
(* may run out and the process may end anywhere.  What the invariant       *)
(* says, besides what a file tells, is what each thread is about           *)
(* to write: the entry that comes next in its story.                       *)
(***************************************************************************)
Limited == \A p \in KnownProblems : RoundsOf(p) \in Int

LogEntries ==
  [session : Threads, what : {"session-init", "error", "round", "end-session"},
   whole : BOOLEAN, rounds : Int]

Before  == {"none", "lost", "reading", "new_id", "open_log"}
Telling == {"log", "reply", "waiting"}

LogTypes ==
  /\ backlog \in Seq(Threads)
  /\ client \in [Threads -> {"away", "open", "gone", "dropped"}]
  /\ request \in [Threads -> Requests \cup {Malformed, Silent}]
  /\ at \in [Threads -> Before \cup Telling \cup {"over"}]
  /\ stream \in [Threads -> {"none", "open", "closed"}]
  /\ out \in [Threads -> Seq(LogEntries)]
  /\ round \in [Threads -> Nat]
  /\ files \in [Requests -> Seq(LogEntries)]
  /\ heard \in [Threads -> Seq(LogEntries)]

(* A connection waits to be accepted once, and only before its session.    *)
Queued ==
  /\ \A i \in DOMAIN backlog : client[backlog[i]] # "away" /\ at[backlog[i]] = "none"
  /\ \A i, j \in DOMAIN backlog : backlog[i] = backlog[j] => i = j
  /\ \A c \in Threads : client[c] = "away" => at[c] = "none"

(* Nothing is written or said before the log is opened.                    *)
Blank(c) ==
  /\ stream[c] = "none" /\ heard[c] = <<>> /\ round[c] = 1
  /\ \A r \in Requests : \A i \in DOMAIN files[r] : files[r][i].session # c

(* The entry a session is telling: the next one, or the one just written.  *)
Due(c) == Cardinality(Lines(c)) + (IF at[c] = "log" THEN 1 ELSE 0)

InTime(c) ==
  IF at[c] = "waiting"
  THEN /\ Known(c) /\ round[c] = Due(c) /\ Due(c) \in 1 .. RoundsOf(request[c].problem)
       /\ client[c] = "open" => Len(heard[c]) = Due(c)
  ELSE /\ Due(c) \in 1 .. Len(Story(c))
       /\ \/ out[c] = <<Story(c)[Due(c)]>>
          \/ at[c] = "log" /\ out[c] = Parts(Story(c)[Due(c)])
       /\ Known(c) => round[c] = IF Due(c) < Len(Story(c)) THEN Due(c) ELSE Due(c) - 1
       /\ client[c] = "open" => Len(heard[c]) = Due(c) - 1

ThreadInv(c) ==
  /\ at[c] \in Before => Blank(c)
  /\ at[c] \in {"new_id", "open_log"} \cup Telling \/ stream[c] # "none" => Proper(c)
  /\ at[c] \in {"log", "reply"} => out[c] # <<>>
  /\ at[c] \in Telling => stream[c] # "closed"
  /\ stream[c] = "open" => at[c] \in Telling /\ InTime(c)
  /\ stream[c] # "none" => Tells(c)

LogInv == LogTypes /\ Queued /\ \A c \in Threads : ThreadInv(c)

-----------------------------------------------------------------------------
(* Appending an entry adds its position, or none, to the lines of a session. *)
LEMMA OneMore ==
  ASSUME NEW lines \in Seq(LogEntries), NEW e \in LogEntries, NEW c
  PROVE  /\ LinesIn(Append(lines, e), c) =
              IF e.session = c /\ e.whole
              THEN LinesIn(lines, c) \cup {Len(lines) + 1} ELSE LinesIn(lines, c)
         /\ \A i \in LinesIn(lines, c) : Append(lines, e)[i] = lines[i]
         /\ Append(lines, e)[Len(lines) + 1] = e
<1> DEFINE more == Append(lines, e)
<1>1. DOMAIN lines = 1 .. Len(lines) /\ DOMAIN more = 1 .. Len(lines) + 1 /\ Len(lines) \in Nat
  OBVIOUS
<1>2. (\A i \in 1 .. Len(lines) : more[i] = lines[i]) /\ more[Len(lines) + 1] = e
  OBVIOUS
<1> HIDE DEF more
<1>3. \A i : i \in LinesIn(more, c) <=>
               i \in LinesIn(lines, c) \/ (i = Len(lines) + 1 /\ e.session = c /\ e.whole)
  BY <1>1, <1>2 DEF LinesIn
<1>4. LinesIn(more, c) =
        IF e.session = c /\ e.whole
        THEN LinesIn(lines, c) \cup {Len(lines) + 1} ELSE LinesIn(lines, c)
  BY <1>3
<1>5. QED
  BY <1>1, <1>2, <1>4 DEF more, LinesIn

LEMMA LinesCount ==
  ASSUME NEW lines \in Seq(LogEntries), NEW c
  PROVE  /\ LinesIn(lines, c) \subseteq 1 .. Len(lines)
         /\ IsFiniteSet(LinesIn(lines, c)) /\ Cardinality(LinesIn(lines, c)) \in Nat
<1>1. LinesIn(lines, c) \subseteq 1 .. Len(lines)
  BY DEF LinesIn
<1>2. IsFiniteSet(1 .. Len(lines))
  BY FS_Interval
<1>3. QED
  BY <1>1, <1>2, FS_Subset, FS_CardinalityType

(* A new last line has the next rank, the others keep theirs.              *)
LEMMA RankOfLast ==
  ASSUME NEW n \in Nat, NEW S \in SUBSET (1 .. n)
  PROVE  /\ Cardinality(S \cup {n + 1}) = Cardinality(S) + 1
         /\ {j \in S \cup {n + 1} : j <= n + 1} = S \cup {n + 1}
         /\ \A i \in S : {j \in S \cup {n + 1} : j <= i} = {j \in S : j <= i}
<1>1. IsFiniteSet(S)
  <2>1. IsFiniteSet(1 .. n)
    BY FS_Interval
  <2>2. QED
    BY <2>1, FS_Subset
<1>2. \A j \in S : j \in Int /\ j < n + 1
  OBVIOUS
<1>3. Cardinality(S \cup {n + 1}) = Cardinality(S) + 1
  BY <1>1, <1>2, FS_AddElement
<1>4. {j \in S \cup {n + 1} : j <= n + 1} = S \cup {n + 1}
  <2>1. \A j \in S \cup {n + 1} : j <= n + 1
    BY <1>2
  <2>2. QED
    BY <2>1
<1>5. ASSUME NEW i \in S
      PROVE  {j \in S \cup {n + 1} : j <= i} = {j \in S : j <= i}
  <2>1. ~(n + 1 <= i)
    BY <1>2
  <2>2. QED
    BY <2>1
<1>6. QED
  BY <1>3, <1>4, <1>5

LEMMA TimesSeq ==
  ASSUME NEW T, NEW e \in T, NEW n \in Int
  PROVE  LET p == IF n > 0 THEN n ELSE 0 IN
         /\ Times(n, e) \in Seq(T) /\ Len(Times(n, e)) = p
         /\ \A k \in 1 .. p : Times(n, e)[k] = e
<1> DEFINE p == IF n > 0 THEN n ELSE 0
<1>1. 1 .. n = 1 .. p /\ p \in Nat
  OBVIOUS
<1> HIDE DEF p
<1>2. Times(n, e) = [i \in 1 .. p |-> e]
  BY <1>1 DEF Times
<1>3. QED
  BY <1>1, <1>2 DEF p

-----------------------------------------------------------------------------
(* The entries of a story, and how many they are.                          *)
LEMMA EntryType ==
  ASSUME Limited, NEW c \in Threads,
         NEW what \in {"session-init", "error", "round", "end-session"}
  PROVE  /\ Entry(c, what) \in LogEntries
         /\ Entry(c, what).session = c /\ Entry(c, what).what = what /\ Entry(c, what).whole
         /\ Known(c) => Entry(c, what).rounds = RoundsOf(request[c].problem)
  BY DEF Entry, LogEntries, Limited, Known

LEMMA StoryOf ==
  ASSUME Limited, NEW c \in Threads
  PROVE  /\ Story(c) \in Seq(LogEntries)
         /\ Known(c) =>
              LET R == RoundsOf(request[c].problem) IN
              /\ Len(Story(c)) = 2 + (IF R > 0 THEN R ELSE 0)
              /\ Story(c)[1] = Entry(c, "session-init")
              /\ \A k \in 1 .. R : Story(c)[k + 1] = Entry(c, "round")
              /\ Story(c)[Len(Story(c))] = Entry(c, "end-session")
         /\ ~Known(c) => Story(c) = <<Entry(c, "error")>>
<1> DEFINE R == RoundsOf(request[c].problem)
           P == IF R > 0 THEN R ELSE 0
           first == Entry(c, "session-init")
           next  == Entry(c, "round")
           last  == Entry(c, "end-session")
           middle == Times(R, next)
<1>1. CASE ~Known(c)
  BY <1>1, EntryType DEF Story
<1>2. CASE Known(c)
  <2>1. R \in Int /\ P \in Nat
    BY <1>2 DEF Limited, Known
  <2>2. first \in LogEntries /\ next \in LogEntries /\ last \in LogEntries
    BY EntryType
  <2>3. Story(c) = <<first>> \o middle \o <<last>>
    BY <1>2 DEF Story
  <2> HIDE DEF R, first, next, last
  <2>5. middle \in Seq(LogEntries) /\ Len(middle) = P /\ \A k \in 1 .. P : middle[k] = next
    BY <2>1, <2>2, TimesSeq
  <2> HIDE DEF middle, P
  <2> DEFINE begin == <<first>> \o middle
  <2>6. /\ begin \in Seq(LogEntries) /\ Len(begin) = 1 + P
        /\ begin[1] = first /\ \A k \in 1 .. P : begin[k + 1] = next
    BY <2>1, <2>2, <2>5
  <2> HIDE DEF begin
  <2>7. /\ begin \o <<last>> \in Seq(LogEntries) /\ Len(begin \o <<last>>) = 2 + P
        /\ \A k \in 1 .. 1 + P : (begin \o <<last>>)[k] = begin[k]
        /\ (begin \o <<last>>)[2 + P] = last
    BY <2>1, <2>2, <2>6
  <2>8. Story(c) = begin \o <<last>>
    BY <2>3 DEF begin
  <2>9. QED
    BY <1>2, <2>1, <2>6, <2>7, <2>8 DEF P, R, first, next, last
<1>3. QED
  BY <1>1, <1>2

-----------------------------------------------------------------------------
(* A step that concerns neither a thread nor its lines keeps what is said of it. *)
SameRequest(c) == request'[c] = request[c]

SameThread(c) ==
  /\ SameRequest(c) /\ at'[c] = at[c] /\ stream'[c] = stream[c] /\ out'[c] = out[c]
  /\ round'[c] = round[c] /\ heard'[c] = heard[c]
  /\ client'[c] = "open" => client[c] = "open"

SameLines(c) ==
  /\ Proper(c) => /\ LinesIn(files'[request[c]], c) = Lines(c)
                  /\ \A i \in Lines(c) : files'[request[c]][i] = files[request[c]][i]
  /\ \A r \in Requests : \A i \in DOMAIN files'[r] :
       files'[r][i].session = c => i \in DOMAIN files[r] /\ files[r][i].session = c

LEMMA StorySame ==
  ASSUME NEW c, SameRequest(c)
  PROVE  /\ (Proper(c))' = Proper(c) /\ (Known(c))' = Known(c)
         /\ \A what : (Entry(c, what))' = Entry(c, what)
         /\ (Story(c))' = Story(c)
<1>1. (Proper(c))' = Proper(c) /\ (Known(c))' = Known(c)
  BY DEF SameRequest, Proper, Known
<1>2. \A what : (Entry(c, what))' = Entry(c, what)
  BY <1>1 DEF SameRequest, Entry
<1>3. QED
  BY <1>1, <1>2 DEF SameRequest, Story

LEMMA TellsSame ==
  ASSUME NEW c, Proper(c), SameRequest(c), SameLines(c), heard'[c] = heard[c]
  PROVE  /\ (Lines(c))' = Lines(c) /\ (Tells(c))' = Tells(c)
<1>1. (Lines(c))' = Lines(c)
  BY DEF SameRequest, SameLines, Lines
<1>2. \A i : (Rank(c, i))' = Rank(c, i)
  BY <1>1 DEF Rank
<1>3. \A i \in Lines(c) : (files[request[c]][i])' = files[request[c]][i]
  BY DEF SameRequest, SameLines
<1>4. (Story(c))' = Story(c)
  BY StorySame
<1>5. QED
  BY <1>1, <1>2, <1>3, <1>4 DEF Tells

LEMMA BlankSame ==
  ASSUME NEW c, Blank(c), stream'[c] = stream[c], heard'[c] = heard[c],
         round'[c] = round[c], SameLines(c)
  PROVE  Blank(c)'
  BY DEF Blank, SameLines

LEMMA ThreadKept ==
  ASSUME NEW c \in Threads, ThreadInv(c), SameThread(c), SameLines(c)
  PROVE  ThreadInv(c)'
<1> USE DEF SameThread
<1>1. (Proper(c))' = Proper(c) /\ (Known(c))' = Known(c) /\ (Story(c))' = Story(c)
  BY StorySame
<1>2. at[c] \in Before => Blank(c)'
  BY BlankSame DEF ThreadInv
<1>3. Proper(c) => (Lines(c))' = Lines(c) /\ (Tells(c))' = Tells(c)
  BY TellsSame
<1>4. ASSUME stream[c] = "open" PROVE InTime(c)'
  <2>1. Proper(c) /\ InTime(c)
    BY <1>4 DEF ThreadInv
  <2>2. (Due(c))' = Due(c)
    BY <1>3, <2>1 DEF Due
  <2>3. QED
    BY <1>1, <2>1, <2>2 DEF InTime, SameRequest
<1>5. QED
  BY <1>1, <1>2, <1>3, <1>4 DEF ThreadInv

(* Nothing is appended, or a line of another thread.                       *)
LEMMA LinesKept ==
  ASSUME NEW c, files' = files
  PROVE  SameLines(c)
  BY DEF SameLines, Lines

LEMMA OthersKept ==
  ASSUME LogTypes, NEW c, NEW d \in Threads, c # d, NEW r \in Requests,
         NEW e \in LogEntries, e.session = d,
         files' = [files EXCEPT ![r] = Append(@, e)]
  PROVE  SameLines(c)
<1>1. files[r] \in Seq(LogEntries) /\ files \in [Requests -> Seq(LogEntries)]
  BY DEF LogTypes
<1>2. /\ LinesIn(Append(files[r], e), c) = LinesIn(files[r], c)
      /\ \A i \in LinesIn(files[r], c) : Append(files[r], e)[i] = files[r][i]
  <2>1. ~(e.session = c /\ e.whole)
    OBVIOUS
  <2>2. LinesIn(Append(files[r], e), c) = LinesIn(files[r], c)
    BY <1>1, <2>1, OneMore
  <2>3. \A i \in LinesIn(files[r], c) : Append(files[r], e)[i] = files[r][i]
    BY <1>1 DEF LinesIn
  <2>4. QED
    BY <2>2, <2>3
<1>3. ASSUME NEW i \in DOMAIN Append(files[r], e), Append(files[r], e)[i].session = c
      PROVE  i \in DOMAIN files[r] /\ files[r][i].session = c
  BY <1>1, <1>3
<1>4. ASSUME NEW q \in Requests
      PROVE  files'[q] = IF q = r THEN Append(files[r], e) ELSE files[q]
  BY <1>1
<1>5. QED
  BY <1>2, <1>3, <1>4 DEF SameLines, Lines, Proper

-----------------------------------------------------------------------------
(* What a session is about to write is an entry, or a part of it before it. *)
LEMMA StoryEntries ==
  ASSUME Limited, NEW c \in Threads, NEW k \in 1 .. Len(Story(c))
  PROVE  Story(c)[k] \in LogEntries /\ Story(c)[k].session = c /\ Story(c)[k].whole
<1>1. Story(c) \in Seq(LogEntries)
  BY StoryOf
<1>2. CASE ~Known(c)
  <2>1. Story(c) = <<Entry(c, "error")>> /\ k = 1
    BY SMTT(20), <1>2, StoryOf
  <2>2. QED
    BY <2>1, EntryType
<1>3. CASE Known(c)
  <2> DEFINE R == RoundsOf(request[c].problem)
  <2>1. R \in Int
    BY <1>3 DEF Limited, Known
  <2>2. k = 1 \/ k - 1 \in 1 .. R \/ k = Len(Story(c))
    BY <1>1, <1>3, <2>1, StoryOf
  <2>3. Story(c)[k] \in {Entry(c, "session-init"), Entry(c, "round"), Entry(c, "end-session")}
    <3>1. CASE k - 1 \in 1 .. R
      <4>1. Story(c)[(k - 1) + 1] = Entry(c, "round")
        BY <1>3, <3>1, StoryOf
      <4>2. QED
        BY <4>1
    <3>2. QED
      BY <1>3, <2>2, <3>1, StoryOf
  <2>4. QED
    BY <2>3, EntryType
<1>4. QED
  BY <1>2, <1>3

LEMMA PartsOf ==
  ASSUME NEW e \in LogEntries, e.whole
  PROVE  /\ Parts(e) \in Seq(LogEntries) /\ Parts(e) # <<>>
         /\ \/ Parts(e) = <<e>>
            \/ \E part \in LogEntries :
                  Parts(e) = <<part, e>> /\ part.session = e.session /\ ~part.whole
<1> DEFINE part == [e EXCEPT !.whole = FALSE]
<1>1. part \in LogEntries /\ part.session = e.session /\ ~part.whole
  BY DEF LogEntries
<1> HIDE DEF part
<1>2. Parts(e) = <<e>> \/ Parts(e) = <<part, e>>
  BY DEF Parts, part
<1>3. CASE Parts(e) = <<e>>
  BY <1>3
<1>4. CASE Parts(e) = <<part, e>>
  BY <1>1, <1>4
<1>5. QED
  BY <1>2, <1>3, <1>4

(* The end of the process leaves the files, and what they tell, as they are. *)
LEMMA EndedThread ==
  ASSUME LogTypes, NEW c \in Threads, ThreadInv(c), ProcessEnds, UNCHANGED heard
  PROVE  ThreadInv(c)'
<1>1. SameLines(c) /\ SameRequest(c)
  BY LinesKept DEF ProcessEnds, SameRequest
<1>2. (Proper(c))' = Proper(c)
  BY <1>1, StorySame
<1>3. Proper(c) => (Tells(c))' = Tells(c)
  BY <1>1, TellsSame
<1>4. stream'[c] = IF stream[c] = "open" THEN "closed" ELSE stream[c]
  BY DEF ProcessEnds
<1>5. CASE at[c] = "none"
  <2>1. at'[c] = "none"
    BY <1>5 DEF ProcessEnds
  <2>2. Blank(c) /\ stream'[c] = stream[c]
    BY <1>4, <1>5 DEF ThreadInv, Before, Blank
  <2>3. Blank(c)'
    BY <1>1, <2>2, BlankSame DEF ProcessEnds
  <2>4. QED
    BY <2>1, <2>3 DEF ThreadInv, Telling, Blank
<1>6. CASE at[c] # "none"
  <2>1. at'[c] = "over"
    BY <1>6 DEF ProcessEnds
  <2>2. stream'[c] # "none" => stream[c] # "none"
    BY <1>4
  <2>3. stream'[c] # "open"
    BY <1>4
  <2>4. QED
    BY <1>2, <1>3, <2>1, <2>2, <2>3 DEF ThreadInv, Telling, Before
<1>7. QED
  BY <1>5, <1>6

(* The log is opened: nothing is in it of this session.                    *)
LEMMA OpenLogThread ==
  ASSUME Limited, LogTypes, NEW c \in Threads, ThreadInv(c), OpenLog(c)
  PROVE  ThreadInv(c)'
<1>1. at[c] = "open_log" /\ Blank(c) /\ Proper(c)
  BY DEF OpenLog, ThreadInv, Before
<1>2. SameLines(c) /\ SameRequest(c)
  BY LinesKept DEF OpenLog, SameRequest
<1>3. (Proper(c))' /\ (Story(c))' = Story(c) /\ (Known(c))' = Known(c)
  BY <1>1, <1>2, StorySame
<1>4. Lines(c) = {}
  BY <1>1 DEF Blank, Lines, LinesIn, Proper
<1>5. (Lines(c))' = {} /\ Cardinality({}) = 0
  BY <1>1, <1>2, <1>4, FS_EmptySet DEF SameLines, Lines, SameRequest
<1>6. heard'[c] = <<>> /\ round'[c] = 1
  BY <1>1 DEF OpenLog, Blank
<1>7. at'[c] = "log" /\ out'[c] = Parts(Entry(c, Opening(c))) /\ stream'[c] \in {"none", "open"}
  BY DEF OpenLog, Tell, GoTo, LogTypes
<1>8. Entry(c, Opening(c)) \in LogEntries /\ Entry(c, Opening(c)).whole
  BY EntryType DEF Opening
<1>9. out'[c] # <<>>
  BY <1>7, <1>8, PartsOf
<1>10. Len(Story(c)) \in Nat /\ Len(Story(c)) >= 1
       /\ Story(c)[1] = Entry(c, Opening(c)) /\ (Known(c) => Len(Story(c)) > 1)
  <2>1. CASE Known(c)
    <3> DEFINE R == RoundsOf(request[c].problem)
    <3>1. R \in Int
      BY <2>1 DEF Limited, Known
    <3>2. Len(Story(c)) = 2 + (IF R > 0 THEN R ELSE 0)
          /\ Story(c)[1] = Entry(c, "session-init")
      BY <2>1, StoryOf
    <3> HIDE DEF R
    <3>3. QED
      BY <2>1, <3>1, <3>2 DEF Opening
  <2>2. CASE ~Known(c)
    BY <2>2, StoryOf DEF Opening
  <2>3. QED
    BY <2>1, <2>2
<1>11. (Due(c))' = 1
  BY <1>5, <1>7 DEF Due
<1>12. InTime(c)'
  BY <1>3, <1>6, <1>7, <1>10, <1>11 DEF InTime
<1>13. Tells(c)'
  BY <1>3, <1>5, <1>6, <1>10 DEF Tells
<1>14. QED
  BY <1>3, <1>7, <1>9, <1>12, <1>13 DEF ThreadInv, Before, Telling

(* A line is written: part of the entry that is due, or the entry.         *)
LEMMA WriteLogThread ==
  ASSUME Limited, LogTypes, NEW c \in Threads, ThreadInv(c), WriteLog(c)
  PROVE  ThreadInv(c)'
<1> DEFINE e == Head(out[c])
           more == Len(out[c]) > 1
           lines == files[request[c]]
<1>1. at[c] = "log" /\ out[c] # <<>> /\ Proper(c) /\ stream[c] # "closed"
      /\ stream[c] \in {"none", "open"} /\ out[c] \in Seq(LogEntries)
  BY DEF WriteLog, ThreadInv, Telling, LogTypes
<1>2. SameRequest(c) /\ stream'[c] = stream[c] /\ heard'[c] = heard[c]
      /\ round'[c] = round[c] /\ client'[c] = client[c]
  BY DEF WriteLog, SameRequest
<1>3. (Proper(c))' /\ (Story(c))' = Story(c) /\ (Known(c))' = Known(c)
  BY <1>1, <1>2, StorySame
<1>4. /\ more => out'[c] = Tail(out[c]) /\ at'[c] = "log"
      /\ ~more => out'[c] = out[c] /\ at'[c] = "reply"
  BY <1>1 DEF WriteLog, GoTo, LogTypes
<1>5. out'[c] # <<>>
  <2>1. CASE more
    <3>1. Len(Tail(out[c])) = Len(out[c]) - 1 /\ Len(out[c]) \in Int
      BY <1>1
    <3>2. Tail(out[c]) # <<>>
      BY <2>1, <3>1
    <3>3. QED
      BY <1>4, <2>1, <3>2
  <2>2. CASE ~more
    BY <1>1, <1>4, <2>2
  <2>3. QED
    BY <2>1, <2>2
<1>6. CASE stream[c] = "none"
  BY <1>1, <1>2, <1>3, <1>4, <1>5, <1>6 DEF ThreadInv, Before, Telling
<1>7. CASE stream[c] = "open"
  <2> DEFINE n == Cardinality(Lines(c))
             k == Due(c)
             x == Story(c)[k]
  <2>1. InTime(c) /\ Tells(c)
    BY <1>7 DEF ThreadInv
  <2>2. k = n + 1
    BY <1>1 DEF Due
  <2>3. k \in 1 .. Len(Story(c)) /\ (out[c] = <<x>> \/ out[c] = Parts(x))
        /\ (Known(c) => round[c] = IF k < Len(Story(c)) THEN k ELSE k - 1)
        /\ (client[c] = "open" => Len(heard[c]) = k - 1)
    BY <1>1, <2>1 DEF InTime
  <2>4. x \in LogEntries /\ x.session = c /\ x.whole
    BY <2>3, StoryEntries
  <2>5. lines \in Seq(LogEntries) /\ lines' = Append(lines, e)
        /\ files'[request[c]] = Append(lines, e) /\ e \in LogEntries
    BY <1>1, <1>2, <1>7 DEF WriteLog, LogTypes, Proper, SameRequest
  <2>6. n \in Nat /\ IsFiniteSet(Lines(c)) /\ Lines(c) \subseteq 1 .. Len(lines) /\ Len(lines) \in Nat
    BY <2>5, LinesCount DEF Lines
  <2>7. \A i \in Lines(c) : Append(lines, e)[i] = lines[i]
    BY <2>5 DEF Lines, LinesIn
  <2> HIDE DEF x
  <2>a. out[c] = <<x>> \/ \E part \in LogEntries : out[c] = <<part, x>> /\ ~part.whole
    BY <2>3, <2>4, PartsOf
  <2>8. CASE more
    <3>1. PICK part \in LogEntries : out[c] = <<part, x>> /\ ~part.whole
      <4>1. out[c] = <<x>> => ~more
        OBVIOUS
      <4>2. QED
        BY <2>a, <2>8, <4>1
    <3>2. e = part /\ Tail(out[c]) = <<x>>
      BY <3>1
    <3>3. (Lines(c))' = Lines(c)
      BY <1>2, <2>5, <3>1, <3>2, OneMore DEF Lines, SameRequest
    <3>4. \A i : (Rank(c, i))' = Rank(c, i)
      BY <3>3 DEF Rank
    <3>5. (Due(c))' = k
      BY <1>1, <1>4, <2>8, <3>3 DEF Due
    <3>6. Tells(c)'
      BY <1>2, <1>3, <2>1, <2>5, <2>7, <3>3, <3>4 DEF Tells, SameRequest
    <3>7. InTime(c)'
      BY <1>2, <1>3, <1>4, <2>3, <2>8, <3>2, <3>5 DEF InTime, x
    <3>8. QED
      BY <1>1, <1>2, <1>3, <1>4, <1>5, <2>8, <3>6, <3>7 DEF ThreadInv, Before, Telling
  <2>9. CASE ~more
    <3>1. out[c] = <<x>>
      BY <2>a, <2>9
    <3>2. e = x
      BY <3>1
    <3>a. PICK last \in Nat : last = Len(lines) + 1
      BY <2>6
    <3>3. (Lines(c))' = Lines(c) \cup {last}
      BY <1>2, <2>4, <2>5, <3>2, <3>a, OneMore DEF Lines, SameRequest
    <3>4. /\ Cardinality((Lines(c))') = k
          /\ (Rank(c, last))' = k
          /\ \A i \in Lines(c) : (Rank(c, i))' = Rank(c, i)
      <4>1. /\ Cardinality(Lines(c) \cup {last}) = n + 1
            /\ {j \in Lines(c) \cup {last} : j <= last} = Lines(c) \cup {last}
            /\ \A i \in Lines(c) :
                 {j \in Lines(c) \cup {last} : j <= i} = {j \in Lines(c) : j <= i}
        BY <2>6, <3>a, RankOfLast
      <4>2. \A i : (Rank(c, i))' = Cardinality({j \in Lines(c) \cup {last} : j <= i})
        BY <3>3 DEF Rank
      <4>3. Rank(c, last)' = n + 1
        BY <4>1, <4>2
      <4>4. \A i \in Lines(c) : (Rank(c, i))' = Rank(c, i)
        BY <4>1, <4>2 DEF Rank
      <4>5. QED
        BY <2>2, <3>3, <4>1, <4>3, <4>4
    <3>5. (Due(c))' = k
      BY <1>4, <2>9, <3>4, <2>3 DEF Due
    <3>6. Append(lines, e)[last] = x
      BY <2>5, <3>2, <3>a
    <3>7. \A i \in (Lines(c))' : (files[request[c]])'[i] = Story(c)[(Rank(c, i))']
      <4>1. \A i \in Lines(c) : lines[i] = Story(c)[Rank(c, i)]
        BY <2>1 DEF Tells
      <4>2. \A i : (files[request[c]])'[i] = Append(lines, e)[i]
        BY <1>2, <2>5 DEF SameRequest
      <4>3. (files[request[c]])'[last] = Story(c)[(Rank(c, last))']
        BY <3>4, <3>6, <4>2 DEF x
      <4>4. ASSUME NEW i \in Lines(c)
            PROVE  (files[request[c]])'[i] = Story(c)[(Rank(c, i))']
        BY <2>7, <3>4, <4>1, <4>2
      <4>5. QED
        BY <3>3, <4>3, <4>4
    <3>8. Len(heard[c]) <= n /\ \A i \in DOMAIN heard[c] : heard[c][i] = Story(c)[i]
      BY <2>1 DEF Tells
    <3>9. Len(heard[c]) \in Nat
      BY DEF LogTypes
    <3>10. Tells(c)'
      BY <1>2, <1>3, <2>2, <2>3, <2>6, <3>4, <3>7, <3>8, <3>9 DEF Tells
    <3>11. InTime(c)'
      BY <1>2, <1>3, <1>4, <2>3, <2>9, <3>1, <3>5 DEF InTime, x
    <3>12. QED
      BY <1>1, <1>2, <1>3, <1>4, <1>5, <2>9, <3>10, <3>11 DEF ThreadInv, Before, Telling
  <2>10. QED
    BY <2>8, <2>9
<1>8. QED
  BY <1>1, <1>6, <1>7

(* The client asks for the next round: the session is not at its end.      *)
LEMMA PlayRoundThread ==
  ASSUME Limited, LogTypes, NEW c \in Threads, ThreadInv(c), PlayRound(c)
  PROVE  ThreadInv(c)'
<1>1. at[c] = "waiting" /\ client[c] = "open" /\ Proper(c) /\ stream[c] \in {"none", "open"}
  BY DEF PlayRound, ThreadInv, Telling, LogTypes
<1>2. SameRequest(c) /\ SameLines(c) /\ stream'[c] = stream[c] /\ heard'[c] = heard[c]
      /\ client'[c] = client[c]
  BY LinesKept DEF PlayRound, SameRequest
<1>3. (Proper(c))' /\ (Story(c))' = Story(c) /\ (Known(c))' = Known(c)
  BY <1>1, <1>2, StorySame
<1>4. (Lines(c))' = Lines(c) /\ (Tells(c))' = Tells(c)
  BY <1>1, <1>2, TellsSame
<1>5. at'[c] = "log" /\ out'[c] = Parts(Entry(c, "round")) /\ round'[c] = round[c] + 1
  BY DEF PlayRound, Tell, GoTo, LogTypes
<1>6. out'[c] # <<>>
  BY <1>5, EntryType, PartsOf
<1>7. CASE stream[c] = "open"
  <2> DEFINE R == RoundsOf(request[c].problem)
             k == Due(c)
  <2>1. InTime(c) /\ Tells(c)
    BY <1>7 DEF ThreadInv
  <2>2. Known(c) /\ round[c] = k /\ k \in 1 .. R /\ Len(heard[c]) = k
    BY <1>1, <2>1 DEF InTime
  <2>3. k = Cardinality(Lines(c))
    <3>1. k = Cardinality(Lines(c)) + 0
      BY <1>1 DEF Due
    <3>2. Cardinality(Lines(c)) \in Nat
      BY <1>1, LinesCount DEF LogTypes, Lines, Proper
    <3>3. QED
      BY <3>1, <3>2
  <2>4. (Due(c))' = k + 1
    BY <1>4, <1>5, <2>3 DEF Due
  <2>5. R \in Int
    BY <2>2 DEF Limited, Known
  <2>6. Len(Story(c)) = 2 + R /\ Story(c)[k + 1] = Entry(c, "round")
    <3>1. Len(Story(c)) = 2 + (IF R > 0 THEN R ELSE 0)
          /\ \A j \in 1 .. R : Story(c)[j + 1] = Entry(c, "round")
      BY <2>2, StoryOf
    <3> HIDE DEF R, k
    <3>2. QED
      BY <2>2, <2>5, <3>1
  <2> HIDE DEF R, k
  <2>7. InTime(c)'
    BY <1>2, <1>3, <1>5, <2>2, <2>4, <2>5, <2>6 DEF InTime
  <2>8. QED
    BY <1>1, <1>2, <1>3, <1>4, <1>5, <1>6, <2>1, <2>7 DEF ThreadInv, Before, Telling
<1>8. CASE stream[c] = "none"
  BY <1>1, <1>2, <1>3, <1>5, <1>6, <1>8 DEF ThreadInv, Before, Telling
<1>9. QED
  BY <1>1, <1>7, <1>8

(* What was written is told to the client; the session goes on or ends.    *)
LEMMA ReplyThread ==
  ASSUME Limited, LogTypes, NEW c \in Threads, ThreadInv(c), at[c] = "reply", GoOn(c),
         heard' = IF client[c] = "open"
                  THEN [heard EXCEPT ![c] = Append(@, Head(out[c]))] ELSE heard,
         UNCHANGED <<client, request, round, files>>
  PROVE  ThreadInv(c)'
<1> DEFINE e == Head(out[c])
<1>1. Proper(c) /\ out[c] # <<>> /\ stream[c] \in {"none", "open"} /\ out[c] \in Seq(LogEntries)
  BY DEF ThreadInv, Telling, LogTypes
<1>2. SameRequest(c) /\ SameLines(c)
  BY LinesKept DEF SameRequest
<1>3. (Proper(c))' /\ (Story(c))' = Story(c) /\ (Known(c))' = Known(c)
  BY <1>1, <1>2, StorySame
<1>4. (Lines(c))' = Lines(c)
  BY <1>1, <1>2 DEF SameLines, Lines, SameRequest
<1>5. e \in LogEntries
  BY <1>1
<1> DEFINE ending == e.what \in {"error", "end-session"}
           onwards == ~ending /\ round[c] <= e.rounds
           closing == ~ending /\ ~(round[c] <= e.rounds)
<1>6. /\ ending => /\ at'[c] = "over"
                   /\ stream'[c] = IF stream[c] = "open" THEN "closed" ELSE stream[c]
      /\ onwards => at'[c] = "waiting" /\ stream'[c] = stream[c]
      /\ closing => /\ at'[c] = "log" /\ out'[c] = Parts(Entry(c, "end-session"))
                    /\ stream'[c] = stream[c]
  BY DEF GoOn, Said, GoTo, Tell, LogTypes
<1>7. Parts(Entry(c, "end-session")) # <<>>
  BY EntryType, PartsOf
<1> HIDE DEF ending, onwards, closing
<1>8. CASE stream[c] = "none"
  BY <1>1, <1>3, <1>6, <1>7, <1>8 DEF ThreadInv, Before, Telling, ending, onwards, closing
<1>9. CASE stream[c] = "open"
  <2> DEFINE n == Cardinality(Lines(c))
             R == RoundsOf(request[c].problem)
  <2>1. InTime(c) /\ Tells(c)
    BY <1>9 DEF ThreadInv
  <2>2. n \in Nat /\ Due(c) = n
    <3>1. n \in Nat
      BY <1>1, LinesCount DEF LogTypes, Lines, Proper
    <3>2. Due(c) = n + 0
      BY DEF Due
    <3>3. QED
      BY <3>1, <3>2
  <2>3. n \in 1 .. Len(Story(c)) /\ out[c] = <<Story(c)[n]>>
        /\ (Known(c) => round[c] = IF n < Len(Story(c)) THEN n ELSE n - 1)
        /\ (client[c] = "open" => Len(heard[c]) = n - 1)
    BY <2>1, <2>2 DEF InTime
  <2>4. e = Story(c)[n]
    BY <2>3
  <2> HIDE DEF n, R, e
  <2>5. Tells(c)'
    <3>1. heard[c] \in Seq(LogEntries) /\ Len(heard[c]) <= n
          /\ \A k \in DOMAIN heard[c] : heard[c][k] = Story(c)[k]
      BY <2>1 DEF LogTypes, Tells, n
    <3>2. heard'[c] = IF client[c] = "open" THEN Append(heard[c], e) ELSE heard[c]
      BY DEF LogTypes, e
    <3>3. Len(heard'[c]) <= n /\ \A k \in DOMAIN heard'[c] : heard'[c][k] = Story(c)[k]
      <4>1. CASE client[c] = "open"
        <5>1. Len(heard[c]) = n - 1 /\ heard'[c] = Append(heard[c], e)
          BY <2>3, <3>2, <4>1
        <5>2. /\ DOMAIN heard'[c] = 1 .. n
              /\ Len(heard'[c]) = n
              /\ \A k \in 1 .. n - 1 : heard'[c][k] = heard[c][k]
              /\ heard'[c][n] = e
          BY <1>5, <2>2, <3>1, <5>1
        <5>3. DOMAIN heard[c] = 1 .. n - 1
          BY <3>1, <5>1
        <5>4. QED
          BY <2>2, <2>4, <3>1, <5>2, <5>3
      <4>2. CASE client[c] # "open"
        BY <3>1, <3>2, <4>2
      <4>3. QED
        BY <4>1, <4>2
    <3>4. \A i : (Rank(c, i))' = Rank(c, i)
      BY <1>4 DEF Rank
    <3>5. QED
      BY <1>3, <1>4, <2>1, <3>3, <3>4 DEF Tells, n
  <2>6. ending \/ Known(c)
    <3>1. SUFFICES ASSUME ~Known(c) PROVE ending
      OBVIOUS
    <3>2. Story(c) = <<Entry(c, "error")>>
      BY <3>1, StoryOf
    <3>3. n = 1 /\ e = Entry(c, "error")
      BY <2>3, <2>4, <3>2
    <3>4. QED
      BY <3>3, EntryType DEF ending
  <2>7. CASE ending
    BY <1>3, <1>6, <1>9, <2>5, <2>7 DEF ThreadInv, Before, Telling
  <2>8. CASE ~ending /\ Known(c)
    <3>1. R \in Int /\ Len(Story(c)) = 2 + (IF R > 0 THEN R ELSE 0)
          /\ Story(c)[Len(Story(c))] = Entry(c, "end-session")
          /\ Story(c)[1] = Entry(c, "session-init")
          /\ \A k \in 1 .. R : Story(c)[k + 1] = Entry(c, "round")
      BY <2>8, StoryOf DEF R, Limited, Known
    <3>2. n # Len(Story(c))
      BY <2>4, <2>8, <3>1, EntryType DEF ending
    <3>3. round[c] = n /\ n < Len(Story(c))
      BY <2>3, <2>8, <3>1, <3>2
    <3>4. e.rounds = R
      <4>1. n = 1 \/ n - 1 \in 1 .. R
        BY <2>3, <3>1, <3>3
      <4>2. e = Entry(c, "session-init") \/ e = Entry(c, "round")
        <5>1. CASE n - 1 \in 1 .. R
          <6>1. Story(c)[(n - 1) + 1] = Entry(c, "round") /\ (n - 1) + 1 = n
            BY <2>2, <3>1, <5>1
          <6>2. QED
            BY <2>4, <6>1
        <5>2. QED
          BY <2>4, <3>1, <4>1, <5>1
      <4>3. QED
        BY <2>8, <4>2, EntryType DEF R
    <3>5. heard'[c] = IF client[c] = "open" THEN Append(heard[c], e) ELSE heard[c]
      BY DEF LogTypes, e
    <3>6. client[c] = "open" => Len(heard'[c]) = n
      BY <1>5, <2>2, <2>3, <3>5 DEF LogTypes
    <3>7. CASE onwards
      <4>1. n <= R
        BY <3>3, <3>4, <3>7 DEF onwards
      <4>2. (Due(c))' = n
        <5>1. (Due(c))' = n + 0
          BY <1>4, <1>6, <3>7 DEF Due, n
        <5>2. QED
          BY <2>2, <5>1
      <4>3. InTime(c)'
        BY <1>3, <1>6, <2>2, <2>3, <2>8, <3>1, <3>3, <3>6, <3>7, <4>1, <4>2 DEF InTime, R
      <4>4. QED
        BY <1>3, <1>6, <1>9, <2>5, <3>7, <4>3 DEF ThreadInv, Before, Telling
    <3>8. CASE closing
      <4>1. n + 1 = Len(Story(c))
        BY <2>2, <2>3, <3>1, <3>3, <3>4, <3>8 DEF closing
      <4>2. (Due(c))' = n + 1
        BY <1>4, <1>6, <3>8 DEF Due, n
      <4>3. InTime(c)'
        BY <1>3, <1>6, <2>2, <3>1, <3>3, <3>6, <3>8, <4>1, <4>2 DEF InTime
      <4>4. QED
        BY <1>3, <1>6, <1>7, <1>9, <2>5, <3>8, <4>3 DEF ThreadInv, Before, Telling
    <3>9. QED
      BY <2>8, <3>7, <3>8 DEF onwards, closing
  <2>9. QED
    BY <2>6, <2>7, <2>8
<1>10. QED
  BY <1>1, <1>8, <1>9

-----------------------------------------------------------------------------
(* The types of what the sessions keep.                                    *)
LEMMA LogTypesStep ==
  ASSUME Limited, LogTypes, \A c \in Threads : ThreadInv(c), [ServerNext]_svars
  PROVE  LogTypes'
<1> USE DEF LogTypes, Before, Telling
<1>1. ASSUME ProcessEnds, UNCHANGED heard PROVE LogTypes'
  <2>1. client' \in [Threads -> {"away", "open", "gone", "dropped"}]
    BY <1>1 DEF ProcessEnds
  <2>2. at' \in [Threads -> Before \cup Telling \cup {"over"}]
    BY <1>1 DEF ProcessEnds
  <2>3. stream' \in [Threads -> {"none", "open", "closed"}]
    BY <1>1 DEF ProcessEnds
  <2>4. out' \in [Threads -> Seq(LogEntries)]
    BY <1>1 DEF ProcessEnds
  <2>5. QED
    BY <1>1, <2>1, <2>2, <2>3, <2>4 DEF ProcessEnds
<1>2. CASE Start
  BY <1>2 DEF Start
<1>3. CASE Kill
  BY <1>1, <1>3 DEF Kill
<1>4. CASE CallAccept
  BY <1>1, <1>4 DEF CallAccept
<1>5. CASE Accept
  BY <1>5 DEF Accept
<1>6. ASSUME NEW c \in Threads, Connect(c) PROVE LogTypes'
  BY <1>6 DEF Connect
<1>7. ASSUME NEW c \in Threads, HangUp(c) PROVE LogTypes'
  BY <1>7 DEF HangUp
<1>8. ASSUME NEW c \in Threads, NEW what \in {"session-init", "error", "round", "end-session"},
             Tell(c, what)
      PROVE  /\ out' \in [Threads -> Seq(LogEntries)]
             /\ at' \in [Threads -> Before \cup Telling \cup {"over"}]
  <2>1. Parts(Entry(c, what)) \in Seq(LogEntries)
    BY EntryType, PartsOf
  <2>2. QED
    BY <1>8, <2>1 DEF Tell, GoTo
<1>9. ASSUME NEW c \in Threads, ReadRequest(c) \/ TakeId(c) \/ Leave(c) PROVE LogTypes'
  BY <1>9 DEF ReadRequest, TakeId, Leave, GoTo
<1>10. ASSUME NEW c \in Threads, OpenLog(c) PROVE LogTypes'
  <2>1. Opening(c) \in {"session-init", "error"}
    BY DEF Opening
  <2>2. QED
    BY <1>8, <1>10, <2>1 DEF OpenLog
<1>11. ASSUME NEW c \in Threads, PlayRound(c) PROVE LogTypes'
  BY <1>8, <1>11 DEF PlayRound
<1>12. ASSUME NEW c \in Threads, WriteLog(c) PROVE LogTypes'
  <2>1. out[c] # <<>> /\ Proper(c)
    BY <1>12 DEF WriteLog, ThreadInv
  <2>2. Head(out[c]) \in LogEntries /\ Tail(out[c]) \in Seq(LogEntries)
    BY <2>1
  <2>3. files' \in [Requests -> Seq(LogEntries)]
    BY <1>12, <2>1, <2>2 DEF WriteLog, Proper
  <2>4. QED
    BY <1>12, <2>2, <2>3 DEF WriteLog, GoTo
<1>13. ASSUME NEW c \in Threads, Reply(c) PROVE LogTypes'
  <2>1. CASE ProcessEnds /\ UNCHANGED heard
    BY <1>1, <2>1
  <2>2. CASE ~(ProcessEnds /\ UNCHANGED heard)
    <3>1. out[c] # <<>>
      BY <1>13 DEF Reply, ThreadInv
    <3>2. Head(out[c]) \in LogEntries
      BY <3>1
    <3>4. /\ GoOn(c)
          /\ heard' = IF client[c] = "open"
                      THEN [heard EXCEPT ![c] = Append(@, Head(out[c]))] ELSE heard
      BY <1>13, <2>2 DEF Reply
    <3>3. heard' \in [Threads -> Seq(LogEntries)]
      BY <3>2, <3>4
    <3>5. out' \in [Threads -> Seq(LogEntries)]
          /\ at' \in [Threads -> Before \cup Telling \cup {"over"}]
      <4>1. CASE Tell(c, "end-session")
        BY <1>8, <4>1
      <4>2. CASE ~Tell(c, "end-session")
        <5>1. out' = [out EXCEPT ![c] = <<>>]
              /\ (at' = [at EXCEPT ![c] = "over"] \/ at' = [at EXCEPT ![c] = "waiting"])
          BY <3>4, <4>2 DEF GoOn, GoTo
        <5>2. out' \in [Threads -> Seq(LogEntries)]
          BY <5>1
        <5>3. "over" \in Before \cup Telling \cup {"over"}
              /\ "waiting" \in Before \cup Telling \cup {"over"}
          OBVIOUS
        <5>4. at' \in [Threads -> Before \cup Telling \cup {"over"}]
          <6>1. CASE at' = [at EXCEPT ![c] = "over"]
            BY <5>3, <6>1
          <6>2. CASE at' = [at EXCEPT ![c] = "waiting"]
            BY <5>3, <6>2
          <6>3. QED
            BY <5>1, <6>1, <6>2
        <5>5. QED
          BY <5>2, <5>4
      <4>3. QED
        BY <4>1, <4>2
    <3>6. stream' \in [Threads -> {"none", "open", "closed"}]
      BY <3>4 DEF GoOn
    <3>7. QED
      BY <1>13, <2>2, <3>3, <3>5, <3>6 DEF Reply
  <2>3. QED
    BY <2>1, <2>2
<1>14. CASE UNCHANGED svars
  BY <1>14 DEF svars
<1>15. QED
  BY <1>2, <1>3, <1>4, <1>5, <1>6, <1>7, <1>9, <1>10, <1>11, <1>12, <1>13, <1>14
  DEF ServerNext, ServerStep, Loop, Work

LEMMA QueuedStep ==
  ASSUME LogTypes, Queued, [ServerNext]_svars
  PROVE  Queued'
<1> USE DEF LogTypes, Queued
<1>1. ASSUME ProcessEnds PROVE Queued'
  BY <1>1 DEF ProcessEnds
<1>2. CASE Start
  BY <1>2 DEF Start
<1>3. CASE Kill
  BY <1>1, <1>3 DEF Kill
<1>4. CASE CallAccept
  BY <1>1, <1>4 DEF CallAccept
<1>5. CASE Accept
  <2>1. backlog # <<>> /\ Head(backlog) = backlog[1] /\ 1 \in DOMAIN backlog
    BY <1>5 DEF Accept
  <2>2. \A i \in DOMAIN backlog' :
          /\ backlog'[i] = backlog[i + 1] /\ i + 1 \in DOMAIN backlog /\ i \in Nat /\ i >= 1
          /\ backlog'[i] \in Threads
    BY SMTT(20), <1>5, <2>1 DEF Accept
  <2>3. client' = client /\ \A c \in Threads : c # Head(backlog) => at'[c] = at[c]
    BY <1>5 DEF Accept
  <2>4. client[Head(backlog)] # "away"
    BY <2>1
  <2>5. \A i \in DOMAIN backlog' : backlog'[i] # Head(backlog)
    BY <2>1, <2>2
  <2>6. \A i, j \in DOMAIN backlog' : backlog'[i] = backlog'[j] => i = j
    BY <2>2
  <2>7. QED
    BY <2>2, <2>3, <2>4, <2>5, <2>6
<1>6. ASSUME NEW c \in Threads, Connect(c) PROVE Queued'
  <2>1. /\ backlog' = Append(backlog, c) /\ client[c] = "away" /\ at' = at
        /\ client' = [client EXCEPT ![c] = "open"]
    BY <1>6 DEF Connect
  <2>2. \A i \in DOMAIN backlog : backlog[i] # c
    BY <2>1
  <2>3. /\ DOMAIN backlog' = 1 .. Len(backlog) + 1 /\ Len(backlog) \in Nat
        /\ \A i \in 1 .. Len(backlog) : backlog'[i] = backlog[i]
        /\ backlog'[Len(backlog) + 1] = c /\ DOMAIN backlog = 1 .. Len(backlog)
    BY <2>1
  <2> DEFINE n == Len(backlog)
  <2> HIDE DEF n
  <2>a. \A i \in DOMAIN backlog' : i \in 1 .. n \/ (i = n + 1 /\ backlog'[i] = c)
    BY <2>3 DEF n
  <2>b. \A i \in 1 .. n : backlog'[i] = backlog[i] /\ backlog[i] # c /\ i \in DOMAIN backlog
    BY <2>2, <2>3 DEF n
  <2>4. \A i, j \in DOMAIN backlog' : backlog'[i] = backlog'[j] => i = j
    BY <2>a, <2>b
  <2>5. QED
    BY SMTT(20), <2>1, <2>3, <2>4
<1>7. ASSUME NEW c \in Threads, HangUp(c) \/ PlayRound(c) PROVE Queued'
  BY <1>7 DEF HangUp, PlayRound, Tell, GoTo
<1>8. ASSUME NEW c \in Threads, Work(c) PROVE Queued'
  <2>1. CASE ProcessEnds
    BY <1>1, <2>1
  <2>2. CASE ~ProcessEnds
    <3>1. at[c] # "none" /\ backlog' = backlog /\ client' = client
          /\ \A d \in Threads : d # c => at'[d] = at[d]
      BY <1>8, <2>2 DEF Work, TakeId, Reply, ReadRequest, OpenLog, WriteLog, Leave, GoOn, Tell, GoTo
    <3>2. QED
      BY <3>1
  <2>3. QED
    BY <2>1, <2>2
<1>9. CASE UNCHANGED svars
  BY <1>9 DEF svars
<1>10. QED
  BY <1>2, <1>3, <1>4, <1>5, <1>6, <1>7, <1>8, <1>9 DEF ServerNext, ServerStep, Loop

-----------------------------------------------------------------------------
(* A thread writes lines of its own.                                       *)
LEMMA OwnLine ==
  ASSUME Limited, LogTypes, NEW d \in Threads, ThreadInv(d), at[d] = "log", stream[d] = "open"
  PROVE  Head(out[d]) \in LogEntries /\ Head(out[d]).session = d /\ request[d] \in Requests
<1> DEFINE x == Story(d)[Due(d)]
<1>1. Due(d) \in 1 .. Len(Story(d)) /\ (out[d] = <<x>> \/ out[d] = Parts(x)) /\ Proper(d)
  BY DEF ThreadInv, InTime
<1>2. x \in LogEntries /\ x.session = d /\ x.whole
  BY <1>1, StoryEntries
<1> HIDE DEF x
<1>3. \/ out[d] = <<x>>
      \/ \E part \in LogEntries : out[d] = <<part, x>> /\ part.session = d
  BY <1>1, <1>2, PartsOf
<1>4. QED
  BY <1>1, <1>2, <1>3 DEF Proper

(* Every step keeps what is said of every thread.                          *)
LEMMA ThreadStep ==
  ASSUME Limited, LogInv, [ServerNext]_svars, NEW c \in Threads
  PROVE  ThreadInv(c)'
<1>1. LogTypes /\ Queued /\ ThreadInv(c) /\ \A d \in Threads : ThreadInv(d)
  BY DEF LogInv
<1>2. ASSUME files' = files, SameThread(c) PROVE ThreadInv(c)'
  BY <1>1, <1>2, LinesKept, ThreadKept
<1>3. ASSUME ProcessEnds, UNCHANGED heard PROVE ThreadInv(c)'
  BY <1>1, <1>3, EndedThread
<1>4. CASE Start
  BY <1>2, <1>4 DEF Start, SameThread, SameRequest
<1>5. CASE Kill
  BY <1>3, <1>5 DEF Kill
<1>6. CASE CallAccept
  BY <1>2, <1>3, <1>6 DEF CallAccept, SameThread, SameRequest
<1>7. CASE Accept
  <2>1. CASE c = Head(backlog)
    <3>1. at[c] = "none" /\ at'[c] \in {"reading", "lost"}
      BY <1>1, <1>7, <2>1 DEF Accept, Queued, LogTypes
    <3>2. Blank(c)
      BY <1>1, <3>1 DEF ThreadInv, Before
    <3>3. Blank(c)'
      BY <1>7, <3>2, BlankSame, LinesKept DEF Accept
    <3>4. QED
      BY <3>1, <3>3 DEF ThreadInv, Before, Telling, Blank
  <2>2. CASE c # Head(backlog)
    BY <1>1, <1>2, <1>7, <2>2 DEF Accept, SameThread, SameRequest, LogTypes
  <2>3. QED
    BY <2>1, <2>2
<1>8. ASSUME NEW d \in Threads, Connect(d) PROVE ThreadInv(c)'
  <2>1. CASE c = d
    <3>1. at[c] = "none" /\ at'[c] = "none"
      BY <1>1, <1>8, <2>1 DEF Connect, Queued
    <3>2. Blank(c)
      BY <1>1, <3>1 DEF ThreadInv, Before
    <3>3. Blank(c)'
      BY <1>8, <3>2, BlankSame, LinesKept DEF Connect
    <3>4. QED
      BY <3>1, <3>3 DEF ThreadInv, Before, Telling, Blank
  <2>2. CASE c # d
    BY <1>1, <1>2, <1>8, <2>2 DEF Connect, SameThread, SameRequest, LogTypes
  <2>3. QED
    BY <2>1, <2>2
<1>9. ASSUME NEW d \in Threads, HangUp(d) PROVE ThreadInv(c)'
  BY <1>1, <1>2, <1>9 DEF HangUp, SameThread, SameRequest, LogTypes
<1>10. ASSUME NEW d \in Threads, PlayRound(d) PROVE ThreadInv(c)'
  <2>1. CASE c = d
    BY <1>1, <1>10, <2>1, PlayRoundThread
  <2>2. CASE c # d
    BY <1>1, <1>2, <1>10, <2>2 DEF PlayRound, Tell, GoTo, SameThread, SameRequest, LogTypes
  <2>3. QED
    BY <2>1, <2>2
<1>11. ASSUME NEW d \in Threads, ReadRequest(d) PROVE ThreadInv(c)'
  <2>1. CASE c = d
    <3>1. at[c] = "reading" /\ at'[c] = "new_id" /\ Proper(c)
      BY <1>1, <1>11, <2>1 DEF ReadRequest, GoTo, LogTypes
    <3>2. Blank(c)
      BY <1>1, <3>1 DEF ThreadInv, Before
    <3>3. Blank(c)' /\ (Proper(c))'
      BY <1>11, <3>1, <3>2, BlankSame, LinesKept, StorySame DEF ReadRequest, SameRequest
    <3>4. QED
      BY <3>1, <3>3 DEF ThreadInv, Before, Telling, Blank
  <2>2. CASE c # d
    BY <1>1, <1>2, <1>11, <2>2 DEF ReadRequest, GoTo, SameThread, SameRequest, LogTypes
  <2>3. QED
    BY <2>1, <2>2
<1>12. ASSUME NEW d \in Threads, TakeId(d) PROVE ThreadInv(c)'
  <2>1. CASE c = d
    <3>1. at[c] = "new_id" /\ at'[c] \in {"new_id", "open_log"}
      BY <1>1, <1>12, <2>1 DEF TakeId, LogTypes
    <3>2. Blank(c) /\ Proper(c)
      BY <1>1, <3>1 DEF ThreadInv, Before
    <3>3. Blank(c)' /\ (Proper(c))'
      BY <1>12, <3>2, BlankSame, LinesKept, StorySame DEF TakeId, SameRequest
    <3>4. QED
      BY <3>1, <3>3 DEF ThreadInv, Before, Telling, Blank
  <2>2. CASE c # d
    BY <1>1, <1>2, <1>12, <2>2 DEF TakeId, SameThread, SameRequest, LogTypes
  <2>3. QED
    BY <2>1, <2>2
<1>13. ASSUME NEW d \in Threads, Leave(d) PROVE ThreadInv(c)'
  <2>1. CASE c = d
    <3>1. at[c] # "none" /\ at'[c] = "over" /\ heard'[c] = heard[c]
          /\ stream'[c] = IF stream[c] = "open" THEN "closed" ELSE stream[c]
      BY <1>1, <1>13, <2>1 DEF Leave, GoTo, LogTypes
    <3>2. SameLines(c) /\ SameRequest(c)
      BY <1>13, LinesKept DEF Leave, SameRequest
    <3>3. (Proper(c))' = Proper(c) /\ (Proper(c) => (Tells(c))' = Tells(c))
      BY <3>1, <3>2, StorySame, TellsSame
    <3>4. QED
      BY <1>1, <3>1, <3>3 DEF ThreadInv, Before, Telling
  <2>2. CASE c # d
    BY <1>1, <1>2, <1>13, <2>2 DEF Leave, GoTo, SameThread, SameRequest, LogTypes
  <2>3. QED
    BY <2>1, <2>2
<1>14. ASSUME NEW d \in Threads, OpenLog(d) PROVE ThreadInv(c)'
  <2>1. CASE c = d
    BY <1>1, <1>14, <2>1, OpenLogThread
  <2>2. CASE c # d
    BY <1>1, <1>2, <1>14, <2>2 DEF OpenLog, Tell, GoTo, SameThread, SameRequest, LogTypes
  <2>3. QED
    BY <2>1, <2>2
<1>15. ASSUME NEW d \in Threads, WriteLog(d) PROVE ThreadInv(c)'
  <2>1. CASE c = d
    BY <1>1, <1>15, <2>1, WriteLogThread
  <2>2. CASE c # d /\ stream[d] # "open"
    BY <1>1, <1>2, <1>15, <2>2 DEF WriteLog, GoTo, SameThread, SameRequest, LogTypes
  <2>3. CASE c # d /\ stream[d] = "open"
    <3>1. Head(out[d]) \in LogEntries /\ Head(out[d]).session = d /\ request[d] \in Requests
      BY <1>1, <1>15, <2>3, OwnLine DEF WriteLog
    <3>2. SameLines(c)
      BY <1>1, <1>15, <2>3, <3>1, OthersKept DEF WriteLog
    <3>3. SameThread(c)
      BY <1>1, <1>15, <2>3 DEF WriteLog, GoTo, SameThread, SameRequest, LogTypes
    <3>4. QED
      BY <1>1, <3>2, <3>3, ThreadKept
  <2>4. QED
    BY <2>1, <2>2, <2>3
<1>16. ASSUME NEW d \in Threads, Reply(d) PROVE ThreadInv(c)'
  <2>1. CASE ProcessEnds /\ UNCHANGED heard
    BY <1>3, <2>1
  <2>2. CASE ~(ProcessEnds /\ UNCHANGED heard)
    <3>1. /\ at[d] = "reply" /\ GoOn(d)
          /\ heard' = IF client[d] = "open"
                      THEN [heard EXCEPT ![d] = Append(@, Head(out[d]))] ELSE heard
          /\ UNCHANGED <<client, request, round, files>>
      BY <1>16, <2>2 DEF Reply
    <3>2. CASE c = d
      BY <1>1, <3>1, <3>2, ReplyThread
    <3>3. CASE c # d
      <4>1. SameThread(c)
        BY <1>1, <3>1, <3>3 DEF GoOn, Tell, GoTo, SameThread, SameRequest, LogTypes
      <4>2. QED
        BY <1>2, <3>1, <4>1
    <3>4. QED
      BY <3>2, <3>3
  <2>3. QED
    BY <2>1, <2>2
<1>17. CASE UNCHANGED svars
  BY <1>2, <1>17 DEF svars, SameThread, SameRequest
<1>18. QED
  BY <1>4, <1>5, <1>6, <1>7, <1>8, <1>9, <1>10, <1>11, <1>12, <1>13, <1>14, <1>15, <1>16, <1>17
  DEF ServerNext, ServerStep, Loop, Work

(* What the log file of a contestant tells of every session that appends to it
   is its story, in order, and all that its client was told (mdpserver.cc:
   252-280, 406-421), for any number of sessions that share files, any limits,
   however entries are split, if descriptors or threads run out, clients hang
   up, the process is killed anywhere and started again. *)
THEOREM LogsTellAll ==
  ASSUME Limited
  PROVE  ServerSpec => []LogsTell
<1>1. ServerInit => LogInv
  <2> SUFFICES ASSUME ServerInit PROVE LogInv
    OBVIOUS
  <2>1. LogTypes
    <3>1. "none" \in Before
      BY DEF Before
    <3>2. backlog \in Seq(Threads) /\ round \in [Threads -> Nat]
          /\ out \in [Threads -> Seq(LogEntries)] /\ heard \in [Threads -> Seq(LogEntries)]
          /\ files \in [Requests -> Seq(LogEntries)]
      BY DEF ServerInit
    <3>3. QED
      BY <3>1, <3>2 DEF ServerInit, LogTypes
  <2>2. Queued
    <3>1. backlog = <<>> /\ \A c \in Threads : at[c] = "none"
      BY DEF ServerInit
    <3>2. DOMAIN backlog = {}
      BY <3>1
    <3>3. QED
      BY <3>1, <3>2 DEF Queued
  <2>3. ASSUME NEW c \in Threads PROVE ThreadInv(c)
    <3>1. at[c] = "none" /\ stream[c] = "none" /\ heard[c] = <<>> /\ round[c] = 1
      BY DEF ServerInit
    <3>2. \A r \in Requests : DOMAIN files[r] = {}
      BY DEF ServerInit
    <3>3. Blank(c)
      BY <3>1, <3>2 DEF Blank
    <3>4. QED
      BY <3>1, <3>3 DEF ThreadInv, Before, Telling
  <2>4. QED
    BY <2>1, <2>2, <2>3 DEF LogInv
<1>2. LogInv /\ [ServerNext]_svars => LogInv'
  <2> SUFFICES ASSUME LogInv, [ServerNext]_svars PROVE LogInv'
    OBVIOUS
  <2>1. \A c \in Threads : ThreadInv(c)'
    BY ThreadStep
  <2>2. LogTypes' /\ Queued'
    BY LogTypesStep, QueuedStep DEF LogInv
  <2>3. QED
    BY <2>1, <2>2 DEF LogInv
<1>3. LogInv => LogsTell
  BY DEF LogInv, ThreadInv, LogsTell
<1>4. QED
  BY <1>1, <1>2, <1>3, PTL DEF ServerSpec
=============================================================================
