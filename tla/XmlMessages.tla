---------------------------- MODULE XmlMessages ----------------------------
(***************************************************************************)
(* Messages as both programs print them (strxml.cc, client.cc,             *)
(* mdpserver.cc) and as the reader of module XmlReader gets them back.     *)
(* Printed says which messages a stream was printed from.                *)
(***************************************************************************)
EXTENDS XmlReader

CONSTANTS
  Words,        (* of texts, and the line feed                              *)
  Nodes,        (* what messages consist of, texts and elements             *)
  height,       (* of each of them: messages are finite trees               *)
  Printed(_)    (* the messages a stream was printed from, all but one that *)
                (* it breaks off in                                         *)

Delimiters == {"<", ">"}
IsText(node) == node.name = "text"

(* The programs print no text twice in a row and no tags of other kinds.   *)
ASSUME NodesAssumption ==
  /\ height \in [Nodes -> Nat]
  /\ \A n \in Nodes :
       /\ n = Element(n.name, n.children)
       /\ n.name \notin Delimiters \cup {"", "null"}
       /\ n.name \notin Closing \cup Malformed \cup DOMAIN SelfClosing
       /\ IF IsText(n) THEN n.children \in Seq(Words) \ {<<>>}
          ELSE /\ n.children \in Seq(Nodes)
               /\ \A i \in DOMAIN n.children :
                    /\ height[n.children[i]] < height[n]
                    /\ i > 1 /\ IsText(n.children[i]) => ~IsText(n.children[i-1])

ASSUME WordsAssumption ==
  /\ (Words \cup Malformed) \cap (Delimiters \cup {""}) = {}
  /\ "\n" \in Words
  /\ "/" \in Closing /\ "done/" \in DOMAIN SelfClosing /\ SelfClosing["done/"] = "done"
  /\ Malformed \cap (Closing \cup DOMAIN SelfClosing) = {}

Messages == {n \in Nodes : ~IsText(n)}
Symbols == Delimiters \cup {"/", "done/"} \cup Words \cup Malformed \cup {n.name : n \in Nodes}

(* XMLParent::print, and the nodes the server prints by hand; the name in  *)
(* the closing tag is left out, the reader does not look at it.            *)
Shown[node \in Nodes] ==
  IF IsText(node) THEN node.children
  ELSE <<"<", node.name, ">">>
         \o FlattenSeq([i \in DOMAIN node.children |-> Shown[node.children[i]]])
         \o <<"<", "/", ">">>

(* sendAction prints the refusal to act as an empty-element tag.           *)
Wire(node) ==
  IF node = Element("done", <<>>) THEN <<"<", "done/", ">">> ELSE Shown[node]

(* The client's messages follow each other directly; the server ends each  *)
(* with a line feed, which is left for the next call of read_node to skip. *)
FromClient(nodes) == FlattenSeq([i \in DOMAIN nodes |-> Wire(nodes[i])])
FromServer(nodes) == FlattenSeq([i \in DOMAIN nodes |-> Shown[nodes[i]] \o <<"\n">>])

(* What may follow the last complete message: nothing, a part of the next   *)
(* one, or something that do_node rejects.                                 *)
Ending(rest) ==
  \/ rest = <<>>
  \/ \E m \in Messages : \E form \in {Shown[m], Wire(m)} : IsStrictPrefix(rest, form)
  \/ \E w \in Malformed : IsPrefix(<<"<", w, ">">>, rest)
Begins(stream, print) ==
  \/ IsPrefix(print, stream) /\ Ending(SubSeq(stream, Len(print) + 1, Len(stream)))
  \/ print = Append(stream, "\n")

ASSUME StreamsAssumption ==
  \A s \in Scenarios : \A stream \in s.inputs :
    /\ stream \in Seq(Symbols) /\ Printed(stream) \in Seq(Messages)
    /\ \/ Begins(stream, FromClient(Printed(stream)))
       \/ Begins(stream, FromServer(Printed(stream)))

VARIABLE sent   \* the streams as they were at the beginning

MessagesInit == Init /\ sent = socket
MessagesNext == Next /\ UNCHANGED sent
MessagesSpec == MessagesInit /\ [][MessagesNext]_<<vars, sent>> /\ Fairness

(* What the calls of read_node returned before one of them failed.         *)
NodesRead(r) ==
  IF result[r] # <<>> /\ Last(result[r]) = Null THEN Front(result[r]) ELSE result[r]

(* Reading gives back the messages that were printed on the thread's own
   socket, in order and unchanged, and nothing else (strxml.cc:256-264). *)
RoundTrip ==
  \A r \in Readers : IsPrefix(NodesRead(r), Printed(sent[r]))

(* So it does as long as no other thread reads at the same time.           *)
RoundTripAlone == threads = 1 => RoundTrip

(* And gives back all that were sent completely, before the end of the
   stream or a format error is reported. *)
AllArrive ==
  threads = 1 =>
    \A r \in Readers : where[r] = "ended" => NodesRead(r) = Printed(sent[r])

(* No message is lost in reading, and none is taken for complete too early
   or too late, even by threads that disturb each other (strxml.cc:158-264). *)
NothingLost == AllArrive /\ DepthIsHeight
=============================================================================
