--------------------------- MODULE MCXmlMessages ---------------------------
(***************************************************************************)
(* Streams for the runs of XmlMessages.                                    *)
(***************************************************************************)
EXTENDS XmlMessages

CONSTANTS r1, r2

Act   == Element("act", <<Element("name", <<Text(<<"go">>)>>),
                          Element("term", <<Text(<<"a">>)>>)>>)
Done  == Element("done", <<>>)
Round == Element("round-init", <<Element("round", <<Text(<<"1">>)>>)>>)
Small == Element("name", <<Text(<<"go">>)>>)
State == Element("state", <<Element("atom", <<Text(<<"p">>)>>)>>)

RECURSIVE NodesOf(_), HeightOf(_)
NodesOf(n) ==
  {n} \cup (IF n.name = "text" THEN {}
            ELSE UNION {NodesOf(n.children[i]) : i \in DOMAIN n.children})
HeightOf(n) ==
  IF n.name = "text" THEN 0
  ELSE 1 + Max({0} \cup {HeightOf(n.children[i]) : i \in DOMAIN n.children})

MCNodes == UNION {NodesOf(n) : n \in {Act, Done, Round, State, Small}}
MCHeight == [n \in MCNodes |-> HeightOf(n)]
MCWords == {"go", "a", "p", "1", "x", "\n"}

Clients == {<<Act, Act, Done>>, <<Done, Act>>, <<Act>>, <<>>}
FewClients == {<<Done>>, <<Small>>}
Servers == {<<Round, State, State>>, <<Round, Done>>}

(* A stream that breaks off inside the second message, and one do_node     *)
(* rejects, which leaves a '>' behind in last_char.                        *)
CutOff == SubSeq(FromClient(<<Act, Act>>), 1, 25)
NotXml == <<"<", "a=b", ">", "x">>

MCInputs == {FromClient(c) : c \in Clients} \cup {FromServer(c) : c \in Servers}
              \cup {CutOff, NotXml}

MCFew    == {FromClient(c) : c \in FewClients} \cup {NotXml}
MCSmall  == {FromClient(<<Small>>)}

(* Many messages for one thread after the other, few for two at once.      *)
MCScenarios == {[inputs |-> MCInputs, threads |-> 1],
                [inputs |-> MCFew, threads |-> 2]}
MCTogether == {[inputs |-> MCSmall, threads |-> 2]}

MCPrinted(stream) ==
  CASE \E c \in Clients \cup FewClients : FromClient(c) = stream ->
         CHOOSE c \in Clients \cup FewClients : FromClient(c) = stream
    [] \E c \in Servers : FromServer(c) = stream ->
         CHOOSE c \in Servers : FromServer(c) = stream
    [] stream = CutOff -> <<Act>>
    [] OTHER -> <<>>

MCClosing     == {"/"}
MCSelfClosing == [w \in {"done/"} |-> "done"]
MCMalformed   == {"a=b"}
=============================================================================
