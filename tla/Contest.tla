------------------------------ MODULE Contest ------------------------------
(***************************************************************************)
(* What a planning session promises a contestant, independently of how the *)
(* server keeps its books: the limits are announced once; every round is   *)
(* reported once, in order, within the limits; and, if the session reaches *)
(* its end, the summary is the one anybody can compute from the reports.   *)
(* Module SessionLog shows that the server's log file is such a contest.   *)
(***************************************************************************)
EXTENDS Integers, Sequences, FiniteSets

CONSTANTS
  Offers,   (* the limits the server may announce                           *)
  Metrics   (* the values the problem's metric may have                     *)

VARIABLES
  terms,    (* the announced limits: {} or a singleton                      *)
  results,  (* the reported rounds                                          *)
  verdict   (* the summary of the session: {} or a singleton                *)

contest == <<terms, results, verdict>>

NonNegative(n) == IF n >= 0 THEN n ELSE 0

(* The sum of a sequence of numbers.                                       *)
Total(seq) ==
  LET sum[i \in 0 .. Len(seq)] == IF i = 0 THEN 0 ELSE sum[i - 1] + seq[i]
  IN  sum[Len(seq)]

Times(seq)     == [i \in DOMAIN seq |-> seq[i].time]
GoalTimes(seq) == [i \in DOMAIN seq |-> IF seq[i].goal THEN seq[i].time ELSE 0]
Values(seq)    == [i \in DOMAIN seq |-> seq[i].metric]

Goals(seq) == {i \in DOMAIN seq : seq[i].goal}

Summary(limits, seq) ==
  [rounds    |-> Len(seq),
   failed    |-> limits.round_limit - Cardinality(Goals(seq)),
   successes |-> Cardinality(Goals(seq)),
   time      |-> IF Goals(seq) # {} THEN {Total(GoalTimes(seq))} ELSE {},
   metric    |-> IF limits.round_limit > 0 THEN {Total(Values(seq))} ELSE {}]

Init == terms = {} /\ results = <<>> /\ verdict = {}

Announce ==
  /\ terms = {}
  /\ \E limits \in Offers : terms' = {limits}
  /\ UNCHANGED <<results, verdict>>

(* One more round is reported.  The time reported for all the rounds never *)
(* exceeds the time limit of the session, and when it is used up no turn   *)
(* can be played any more.                                                 *)
Report ==
  \E limits \in terms :
    LET left == NonNegative(limits.time_limit) - Total(Times(results)) IN
    /\ Len(results) < limits.round_limit
    /\ \E goal \in BOOLEAN, time \in 0 .. left, metric \in Metrics :
         \E turns \in IF left = 0 THEN {0} ELSE 0 .. NonNegative(limits.turn_limit) :
           results' = Append(results, [goal |-> goal, time |-> time,
                                       turns |-> turns, metric |-> metric])
    /\ verdict = {}
    /\ UNCHANGED <<terms, verdict>>

Conclude ==
  \E limits \in terms :
    /\ Len(results) = NonNegative(limits.round_limit)
    /\ verdict = {}
    /\ verdict' = {Summary(limits, results)}
    /\ UNCHANGED <<terms, results>>

Next == Announce \/ Report \/ Conclude

Spec == Init /\ [][Next]_contest
=============================================================================
