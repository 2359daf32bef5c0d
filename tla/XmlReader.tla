----------------------------- MODULE XmlReader -----------------------------
(***************************************************************************)
(* The XML reader of strxml.cc: read_node, parse_node, do_node, next_token *)
(* and the stack of open nodes (PSink), as run by several threads, each on *)
(* a socket of its own.                                                    *)
(*                                                                         *)
(* A socket delivers a sequence of symbols: "<", ">" and words, a word     *)
(* standing for the characters between two angle brackets (or a part of    *)
(* them).  The reader takes one symbol per read(2).  The '<' or '>' that   *)
(* ends a run of words is put back into last_char, a static variable of    *)
(* next_token: there is one of it in the process, not one per socket.      *)
(* next_token looks at last_char twice, first to copy it and then to test  *)
(* it; these are two steps here.                                           *)
(***************************************************************************)
EXTENDS Integers, Sequences, SequencesExt

CONSTANTS
  Readers,      (* the threads; each has its socket                         *)
  Scenarios,    (* what may arrive on a socket before it is closed, and how *)
                (* many threads may be reading at the same time             *)
  Closing,      (* the words that make a closing tag                        *)
  SelfClosing,  (* the words that make an empty-element tag, with its name  *)
  Malformed     (* the words do_node rejects                                *)

ASSUME XmlReaderAssumption ==
  /\ IsFiniteSet(Readers)
  /\ \A s \in Scenarios : s.threads \in Nat
  /\ Closing \cap DOMAIN SelfClosing = {}

VARIABLES
  socket,       (* the symbols still to be read                             *)
  last_char,    (* the static variable of next_token; "" is the zero char   *)
  where,        (* where the thread is within next_token                    *)
  mode,         (* which of the three calls in parse_node is running        *)
  res,          (* the token being read, as a sequence of symbols           *)
  stack,        (* PSink::s, the open nodes with their children so far      *)
  top,          (* PSink::top                                               *)
  depth,        (* the local variable of parse_node                         *)
  result,       (* what the calls of read_node have returned so far         *)
  threads       (* the threads that may be reading; it does not change      *)

vars == <<socket, last_char, where, mode, res, stack, top, depth, result, threads>>

Null == [name |-> "null", children |-> <<>>]

Element(name, children) == [name |-> name, children |-> children]

Text(words) == [name |-> "text", children |-> words]

Active == {r \in Readers : where[r] \notin {"idle", "ended"}}

(***************************************************************************)
(* next_token                                                              *)
(***************************************************************************)
(* A thread calls read_node as long as nodes arrive.                       *)
CallReadNode(r) ==
  /\ where[r] = "idle"
  /\ Cardinality(Active) < threads
  /\ where' = [where EXCEPT ![r] = "peek"]
  /\ mode'  = [mode  EXCEPT ![r] = "loop"]
  /\ stack' = [stack EXCEPT ![r] = <<>>]
  /\ top'   = [top   EXCEPT ![r] = Null]
  /\ depth' = [depth EXCEPT ![r] = 0]
  /\ UNCHANGED <<socket, last_char, res, result>>

(* if (last_char) res += last_char;                                        *)
CopyLastChar(r) ==
  /\ where[r] = "peek"
  /\ res' = [res EXCEPT ![r] = IF last_char = "" THEN <<>> ELSE <<last_char>>]
  /\ where' = [where EXCEPT ![r] = "test"]
  /\ UNCHANGED <<socket, last_char, mode, stack, top, depth, result>>

(* The node is complete or read_node fails: its value is returned.  A      *)
(* failed call ends the thread.                                            *)
ReturnNode(r, node) ==
  /\ result' = [result EXCEPT ![r] = Append(@, node)]
  /\ where' = [where EXCEPT ![r] = IF node = Null THEN "ended" ELSE "idle"]

(* parse_node asks for the next token.                                     *)
NextToken(r, m) ==
  /\ where' = [where EXCEPT ![r] = "peek"]
  /\ mode' = [mode EXCEPT ![r] = m]
  /\ UNCHANGED result

(***************************************************************************)
(* do_node and PSink: what a tag does to the open nodes.  The code links a *)
(* node to its parent, or to top, when it is pushed and fills it later;    *)
(* nodes are values here, so they are linked when they are popped.         *)
(***************************************************************************)
Pushed(st, node) == Append(st, node)

PoppedLosingNode(st) == Front(st)                      \* mutant of Popped

Popped(st) ==
  IF Len(st) = 1 THEN <<>>
  ELSE LET parent == st[Len(st) - 1]
       IN  Append(SubSeq(st, 1, Len(st) - 2),
                  [parent EXCEPT !.children = Append(@, Last(st))])

(* What do_node makes of a token.  A token of several symbols can only     *)
(* come from a race on last_char; what the tokenizer makes of the glued    *)
(* characters depends on them.                                             *)
TagKinds(token) ==
  IF token = <<>> THEN {"reject"} ELSE
  CASE Len(token) > 1                  -> {"reject", "empty", "open"}
    [] token[1] \in Malformed          -> {"reject"}
    [] token[1] \in Closing            -> {"closing"}
    [] token[1] \in DOMAIN SelfClosing -> {"empty"}
    [] OTHER                           -> {"open"}

TagName(token) ==
  CASE Len(token) > 1                  -> "garbled"
    [] token[1] \in DOMAIN SelfClosing -> SelfClosing[token[1]]
    [] OTHER                           -> token[1]

RejectTag(r) ==
  /\ ReturnNode(r, Null)
  /\ UNCHANGED <<mode, stack, top, depth>>

(* popNode does not look at the name.                                      *)
CloseTag(r) ==
  /\ stack[r] # <<>>
  /\ top' = [top EXCEPT ![r] = IF Len(stack[r]) = 1 THEN Last(stack[r]) ELSE @]
  /\ stack' = [stack EXCEPT ![r] = Popped(@)]
  /\ depth' = [depth EXCEPT ![r] = @ - 1]
  /\ NextToken(r, "close")

(* std::stack::pop on an empty stack is undefined: the thread is lost.     *)
CloseNothing(r) ==
  /\ stack[r] = <<>>
  /\ where' = [where EXCEPT ![r] = "ended"]
  /\ UNCHANGED <<mode, stack, top, depth, result>>

EmptyTag(r, name) ==
  /\ top' = [top EXCEPT ![r] = IF stack[r] = <<>> THEN Element(name, <<>>) ELSE @]
  /\ stack' = [stack EXCEPT ![r] = Popped(Pushed(@, Element(name, <<>>)))]
  /\ NextToken(r, "close")
  /\ UNCHANGED depth

OpenTag(r, name) ==
  /\ stack' = [stack EXCEPT ![r] = Pushed(@, Element(name, <<>>))]
  /\ depth' = [depth EXCEPT ![r] = @ + 1]
  /\ NextToken(r, "close")
  /\ UNCHANGED top

DoNode(r, token) ==
  \/ "reject" \in TagKinds(token) /\ RejectTag(r)
  \/ "closing" \in TagKinds(token) /\ (CloseTag(r) \/ CloseNothing(r))
  \/ "empty" \in TagKinds(token) /\ EmptyTag(r, TagName(token))
  \/ "open" \in TagKinds(token) /\ OpenTag(r, TagName(token))

PushText(r, token) ==
  IF stack[r] = <<>>
  THEN top' = [top EXCEPT ![r] = Text(token)] /\ UNCHANGED stack
  ELSE /\ stack' = [stack EXCEPT ![r][Len(stack[r])].children = Append(@, Text(token))]
       /\ UNCHANGED top

(* parse_node receives a token; the empty token is the end of the stream.  *)
ParseToken(r, token) ==
  \/ /\ mode[r] = "loop" /\ token = <<>>
     /\ ReturnNode(r, Null)
     /\ UNCHANGED <<mode, stack, top, depth>>
  \/ /\ mode[r] = "loop" /\ token = <<"<">>
     /\ NextToken(r, "name")
     /\ UNCHANGED <<stack, top, depth>>
  \/ /\ mode[r] = "loop" /\ token \notin {<<>>, <<"<">>}
     /\ PushText(r, token)
     /\ NextToken(r, "loop")
     /\ UNCHANGED depth
  \/ /\ mode[r] = "name"
     /\ DoNode(r, token)
  \/ /\ mode[r] = "close" /\ token = <<">">> /\ depth[r] # 0
     /\ NextToken(r, "loop")
     /\ UNCHANGED <<stack, top, depth>>
  \/ /\ mode[r] = "close" /\ token = <<">">> /\ depth[r] = 0
     /\ ReturnNode(r, top[r])
     /\ UNCHANGED <<mode, stack, top, depth>>
  \/ /\ mode[r] = "close" /\ token # <<">">>
     /\ ReturnNode(r, Null)
     /\ UNCHANGED <<mode, stack, top, depth>>

(* if (last_char is '<' or '>') { last_char = 0; return res; }             *)
TestLastChar(r) ==
  /\ where[r] = "test"
  /\ IF last_char \in {"<", ">"}
     THEN last_char' = "" /\ ParseToken(r, res[r])
     ELSE /\ where' = [where EXCEPT ![r] = "read"]
          /\ UNCHANGED <<last_char, mode, stack, top, depth, result>>
  /\ UNCHANGED <<socket, res>>

(* One read(fd, &next_char, 1).                                            *)
PutBackLost(c) == ""                                   \* mutant of PutBack
PutBack(c) == c

ReadSymbol(r) ==
  /\ where[r] = "read" /\ socket[r] # <<>>
  /\ LET c == Head(socket[r]) IN
     IF c \in {"<", ">"}
     THEN IF res[r] = <<>>
          THEN last_char' = "" /\ ParseToken(r, <<c>>)
          ELSE last_char' = PutBack(c) /\ ParseToken(r, res[r])
     ELSE UNCHANGED <<last_char, where, mode, stack, top, depth, result>>
  /\ res' = [res EXCEPT ![r] = IF Head(socket[r]) \in {"<", ">"} THEN @
                               ELSE Append(@, Head(socket[r]))]
  /\ socket' = [socket EXCEPT ![r] = Tail(@)]

ReadEndRetried(r) ==                                   \* mutant of ReadEnd
  /\ where[r] = "read" /\ socket[r] = <<>>
  /\ where' = [where EXCEPT ![r] = "peek"]
  /\ UNCHANGED <<socket, last_char, mode, res, stack, top, depth, result>>

(* The peer closed the connection.                                         *)
ReadEnd(r) ==
  /\ where[r] = "read" /\ socket[r] = <<>>
  /\ ParseToken(r, <<>>)
  /\ UNCHANGED <<socket, last_char, res>>

Init ==
  /\ \E s \in Scenarios :
       socket \in [Readers -> s.inputs] /\ threads = s.threads
  /\ last_char = ""
  /\ where = [r \in Readers |-> "idle"]
  /\ mode = [r \in Readers |-> "loop"]
  /\ res = [r \in Readers |-> <<>>]
  /\ stack = [r \in Readers |-> <<>>]
  /\ top = [r \in Readers |-> Null]
  /\ depth = [r \in Readers |-> 0]
  /\ result = [r \in Readers |-> <<>>]

Step(r) ==
  /\ CallReadNode(r) \/ CopyLastChar(r) \/ TestLastChar(r) \/ ReadSymbol(r) \/ ReadEnd(r)
  /\ UNCHANGED threads

Next == \E r \in Readers : Step(r)
Fairness == \A r \in Readers : WF_vars(Step(r))

Spec == Init /\ [][Next]_vars /\ Fairness

-----------------------------------------------------------------------------
(* The height of the stack of open nodes is what parse_node counts in      *)
(* depth, so that the node is complete exactly when the stack is empty:    *)
(* even when the threads corrupt each other's tokens, a node is never      *)
(* returned with open children.                                            *)
DepthIsHeight ==
  \A r \in Readers : where[r] # "ended" => Len(stack[r]) = depth[r]

(* Every thread comes to an end once its peer has closed the connection,   *)
(* whatever the other threads do to last_char.                             *)
ReadersEnd == <>(\A r \in Readers : where[r] = "ended")
=============================================================================
