---------------------------- MODULE ScopesProofs ----------------------------
(***************************************************************************)
(* Theorems about the scopes of the parser (Scopes), for any names, any    *)
(* nesting and any length of the text.                                     *)
(***************************************************************************)
EXTENDS Scopes, WellFoundedInduction, TLAPS

Frame == UNION {[S -> Nat] : S \in SUBSET VariableNames}
OpenScopes == [kind : Quantifiers \cup {"action"}, number : Nat, from : Nat,
               names : Seq(VariableNames), body : BOOLEAN]
ClosedScopes == [number : Nat, parameters : Seq(Nat)]

TypeOK ==
  /\ text \in {"file", "action", "goal"}
  /\ frames \in Seq(Frame)
  /\ quantified \in Seq(Nat) /\ parameters \in Seq(Nat) /\ created \in Nat
  /\ outcome \in {"good", "error", "undefined"}
  /\ open \in Seq(OpenScopes) /\ closed \subseteq ClosedScopes
  /\ count \in [scopes : Nat, uses : Nat]

Depth == Len(open)
Declared(i) == Len(open[i].names)

(* Where the part of scope i in the list quantified ends.                  *)
End(i) == IF i < Depth THEN open[i + 1].from ELSE Len(quantified)

(* The variable that scope i has for the name it declares at place j.      *)
Own(i, j) == IF open[i].kind = "action" THEN parameters[j]
             ELSE quantified[open[i].from + 1 + j]

(***************************************************************************)
(* The two stacks are the open scopes of the text: a frame for each, and   *)
(* for each but the action a marker followed by its variables.             *)
(***************************************************************************)
Part(i) ==
  /\ open[i].from <= Len(quantified)
  /\ i = 1 => open[i].from = 0
  /\ open[i].kind = "action" => End(i) = 0 /\ Len(parameters) = Declared(i)
  /\ open[i].kind # "action" =>
       /\ End(i) = open[i].from + 1 + Declared(i)
       /\ quantified[open[i].from + 1] = Marker
  /\ \A j \in 1 .. Declared(i) : Own(i, j) \in 1 .. created

Nested ==
  /\ Len(frames) = Depth
  /\ text = "file" => open = <<>>
  /\ text = "action" => open # <<>>
  /\ open = <<>> => quantified = <<>>
  /\ \A i \in 1 .. Depth :
       /\ open[i].kind = "action" <=> (i = 1 /\ text = "action")
       /\ Part(i)
       /\ \A j \in i + 1 .. Depth : End(i) <= open[j].from

Numbered ==
  /\ \A i \in 1 .. Depth : open[i].number \in 1 .. count.scopes
  /\ \A i, j \in 1 .. Depth : open[i].number = open[j].number => i = j
  /\ \A s \in closed : /\ s.number \in 1 .. count.scopes
                       /\ \A i \in 1 .. Depth : s.number # open[i].number
  /\ \A s, t \in closed : s.number = t.number => s = t

(* No variable stands for two declarations.                                *)
Apart ==
  /\ \A i, k \in 1 .. Depth : \A j \in 1 .. Declared(i), l \in 1 .. Declared(k) :
       Own(i, j) = Own(k, l) => i = k /\ j = l
  /\ \A s \in closed : \A j \in DOMAIN s.parameters :
       /\ s.parameters[j] \in 1 .. created
       /\ \A k \in 1 .. Depth : \A l \in 1 .. Declared(k) : s.parameters[j] # Own(k, l)
  /\ \A s, t \in closed : \A i \in DOMAIN s.parameters, j \in DOMAIN t.parameters :
       s.parameters[i] = t.parameters[j] => s = t /\ i = j

(* Without an error a frame maps the names of its scope to their variables,
   and a use knows the variable that its scope has at that place. *)
FrameFits(i) ==
  /\ DOMAIN frames[i] = ToSet(open[i].names)
  /\ IsInjective(open[i].names)
  /\ \A j \in 1 .. Declared(i) : frames[i][open[i].names[j]] = Own(i, j)

UseFits(u) ==
  /\ u.number \in 1 .. count.scopes
  /\ \A i \in 1 .. Depth : u.number = open[i].number =>
       u.place \in 1 .. Declared(i) /\ u.variable = Own(i, u.place)
  /\ \A s \in closed : u.number = s.number =>
       u.place \in DOMAIN s.parameters /\ u.variable = s.parameters[u.place]

Fits ==
  outcome = "good" =>
    (\A i \in 1 .. Depth : FrameFits(i)) /\ (\A u \in uses : UseFits(u))

ScopesInv == TypeOK /\ Nested /\ Numbered /\ Apart /\ Fits

(* Scope i is what it was: a step elsewhere in the lists.                  *)
SameHead(i) ==
  /\ open'[i].kind = open[i].kind /\ open'[i].number = open[i].number
  /\ open'[i].from = open[i].from /\ open'[i].names = open[i].names
Stays(i) ==
  /\ SameHead(i)
  /\ \A j \in 1 .. Declared(i) : Own(i, j)' = Own(i, j)

-----------------------------------------------------------------------------
(***************************************************************************)
(* Lists.                                                                  *)
(***************************************************************************)
(* A list is empty if its length says so.                                  *)
LEMMA Empty ==
  ASSUME NEW X, NEW list \in Seq(X)
  PROVE  /\ Len(list) \in Nat
         /\ list = <<>> <=> Len(list) = 0
OBVIOUS

(* The first elements of a list.                                           *)
LEMMA Prefix ==
  ASSUME NEW X, NEW list \in Seq(X), NEW k \in 0 .. Len(list)
  PROVE  /\ SubSeq(list, 1, k) \in Seq(X)
         /\ Len(SubSeq(list, 1, k)) = k
         /\ \A i \in 1 .. k : SubSeq(list, 1, k)[i] = list[i]
OBVIOUS

(* The last elements of a list.                                            *)
LEMMA Suffix ==
  ASSUME NEW X, NEW list \in Seq(X), NEW k \in 0 .. Len(list)
  PROVE  /\ SubSeq(list, k + 1, Len(list)) \in Seq(X)
         /\ Len(SubSeq(list, k + 1, Len(list))) = Len(list) - k
         /\ \A i \in 1 .. Len(list) - k : SubSeq(list, k + 1, Len(list))[i] = list[k + i]
OBVIOUS

(* A list without its last element.                                        *)
LEMMA FrontOf ==
  ASSUME NEW X, NEW list \in Seq(X), list # <<>>
  PROVE  /\ Len(list) \in Nat \ {0}
         /\ Front(list) \in Seq(X)
         /\ Len(Front(list)) = Len(list) - 1
         /\ \A i \in 1 .. Len(list) - 1 : Front(list)[i] = list[i]
<1>1. Len(list) \in Nat \ {0}
  BY Empty
<1>2. PICK m \in 0 .. Len(list) : m = Len(list) - 1
  BY SMTT(20), <1>1
<1>3. Front(list) = SubSeq(list, 1, m)
  BY <1>2 DEF Front
<1>4. /\ Front(list) \in Seq(X) /\ Len(Front(list)) = m
      /\ \A i \in 1 .. m : Front(list)[i] = list[i]
  BY <1>3, Prefix
<1> QED BY <1>1, <1>2, <1>4

(* A list and one more element.                                            *)
LEMMA Appended ==
  ASSUME NEW X, NEW list \in Seq(X), NEW x \in X
  PROVE  /\ Append(list, x) \in Seq(X)
         /\ Len(Append(list, x)) = Len(list) + 1
         /\ \A i \in 1 .. Len(list) : Append(list, x)[i] = list[i]
         /\ Append(list, x)[Len(list) + 1] = x
OBVIOUS

(* Two lists put together.                                                 *)
LEMMA Joined ==
  ASSUME NEW X, NEW a \in Seq(X), NEW b \in Seq(X), NEW c, c = a \o b
  PROVE  /\ c \in Seq(X)
         /\ Len(c) = Len(a) + Len(b)
         /\ \A i \in 1 .. Len(a) : c[i] = a[i]
         /\ \A i \in 1 .. Len(b) : c[Len(a) + i] = b[i]
OBVIOUS

(* The variables for a list of names have the next numbers.                *)
LEMMA NextVariables ==
  ASSUME created \in Nat, NEW ns \in Seq(VariableNames)
  PROVE  /\ Variables(ns) \in Seq(Nat)
         /\ Len(Variables(ns)) = Len(ns)
         /\ \A i \in 1 .. Len(ns) : Variables(ns)[i] = created + i
BY DEF Variables

(* A list with the variables for a list of names added.                    *)
LEMMA Extended ==
  ASSUME created \in Nat, NEW ns \in Seq(VariableNames),
         NEW list \in Seq(Nat), NEW longer, longer = list \o Variables(ns)
  PROVE  /\ longer \in Seq(Nat) /\ Len(longer) = Len(list) + Len(ns)
         /\ \A i \in 1 .. Len(list) : longer[i] = list[i]
         /\ \A i \in 1 .. Len(ns) : longer[Len(list) + i] = created + i
<1>1. PICK v \in Seq(Nat) : /\ v = Variables(ns) /\ Len(v) = Len(ns)
                            /\ \A i \in 1 .. Len(ns) : v[i] = created + i
  BY NextVariables
<1>2. longer = list \o v
  BY <1>1
<1>3. /\ longer \in Seq(Nat) /\ Len(longer) = Len(list) + Len(v)
      /\ \A i \in 1 .. Len(list) : longer[i] = list[i]
      /\ \A i \in 1 .. Len(v) : longer[Len(list) + i] = v[i]
  <2>1. v \in Seq(Nat) /\ list \in Seq(Nat)
    BY <1>1
  <2> QED BY <2>1, <1>2, Joined
<1> QED BY <1>1, <1>3

(* A new frame maps no name.                                               *)
LEMMA EmptyFrame == <<>> \in Frame /\ DOMAIN <<>> = {}
<1>1. DOMAIN <<>> = {}
  OBVIOUS
<1>2. <<>> = [x \in {} |-> 0]
  OBVIOUS
<1>3. [x \in {} |-> 0] \in [{} -> Nat]
  OBVIOUS
<1>4. {} \in SUBSET VariableNames
  OBVIOUS
<1> QED BY <1>1, <1>2, <1>3, <1>4 DEF Frame

(* The place of a name in a list of names.                                 *)
LEMMA Least ==
  ASSUME NEW T, T \subseteq Nat, T # {}
  PROVE  \E x \in T : \A y \in T : x <= y
<1> DEFINE R == OpToRel(<, Nat)
<1>1. IsWellFoundedOn(R, Nat)
  BY NatLessThanWellFounded
<1>2. PICK x \in T : \A y \in T : ~(<<y, x>> \in R)
  BY <1>1, WFMin
<1>3. ASSUME NEW y \in T  PROVE x <= y
  <2>1. ~(<<y, x>> \in R) /\ x \in Nat /\ y \in Nat
    BY <1>2, <1>3
  <2> QED BY <2>1 DEF OpToRel
<1> QED BY <1>3

LEMMA Greatest ==
  ASSUME NEW n \in Nat, NEW T, T \subseteq 1 .. n, T # {}
  PROVE  \E x \in T : \A y \in T : y <= x
<1> DEFINE U == {m \in 0 .. n : \E x \in T : m = n - x}
<1>1. U \subseteq Nat /\ \A x \in T : n - x \in U
  OBVIOUS
<1>2. U # {}
  BY <1>1
<1>3. PICK m \in U : \A y \in U : m <= y
  BY <1>1, <1>2, Least
<1>4. PICK x \in T : m = n - x
  BY <1>3
<1>5. ASSUME NEW y \in T  PROVE y <= x
  <2>1. m <= n - y /\ y \in 1 .. n /\ x \in 1 .. n
    BY <1>1, <1>3, <1>5
  <2> QED BY <2>1, <1>4
<1> QED BY <1>5

LEMMA FirstIsThere ==
  ASSUME NEW ns \in Seq(VariableNames), NEW name \in ToSet(ns)
  PROVE  FirstPlace(ns, name) \in 1 .. Len(ns) /\ ns[FirstPlace(ns, name)] = name
<1> DEFINE T == {i \in 1 .. Len(ns) : ns[i] = name}
<1>1. T # {} /\ T \subseteq Nat
  BY DEF ToSet
<1>2. PICK i \in T : \A j \in T : i <= j
  BY <1>1, Least
<1>3. \A j \in 1 .. i - 1 : ns[j] # name
  <2> SUFFICES ASSUME NEW j \in 1 .. i - 1, ns[j] = name  PROVE FALSE
    OBVIOUS
  <2>1. i \in 1 .. Len(ns) /\ Len(ns) \in Nat
    BY Empty
  <2>2. j \in T
    BY <2>1
  <2> QED BY <2>1, <2>2, <1>2
<1> QED BY <1>2, <1>3 DEF FirstPlace

LEMMA FirstIsOnly ==
  ASSUME NEW ns \in Seq(VariableNames), IsInjective(ns), NEW i \in 1 .. Len(ns)
  PROVE  FirstPlace(ns, ns[i]) = i
<1>1. ns[i] \in ToSet(ns)
  BY DEF ToSet
<1>2. /\ FirstPlace(ns, ns[i]) \in 1 .. Len(ns)
      /\ ns[FirstPlace(ns, ns[i])] = ns[i]
  BY <1>1, FirstIsThere
<1> QED BY <1>2 DEF IsInjective

(* What a frame has for a name, it keeps.                                  *)
LEMMA InsertedIs ==
  ASSUME created \in Nat, NEW frame \in Frame, NEW ns \in Seq(VariableNames)
  PROVE  /\ Inserted(frame, ns) \in Frame
         /\ DOMAIN Inserted(frame, ns) = DOMAIN frame \cup ToSet(ns)
         /\ \A name \in DOMAIN frame : Inserted(frame, ns)[name] = frame[name]
         /\ \A name \in ToSet(ns) \ DOMAIN frame :
              Inserted(frame, ns)[name] = created + FirstPlace(ns, name)
<1>1. PICK S \in SUBSET VariableNames : frame \in [S -> Nat]
  BY DEF Frame
<1>2. ToSet(ns) \in SUBSET VariableNames
  BY DEF ToSet
<1>3. Inserted(frame, ns) = [name \in S \cup ToSet(ns) |->
        IF name \in S THEN frame[name] ELSE created + FirstPlace(ns, name)]
  BY <1>1 DEF Inserted
<1>4. Inserted(frame, ns) \in [S \cup ToSet(ns) -> Nat]
  BY <1>1, <1>3, FirstIsThere
<1> QED BY <1>1, <1>2, <1>3, <1>4 DEF Frame

(***************************************************************************)
(* A scope is opened: the new one is empty, the others are as they were.   *)
(***************************************************************************)
(* What the step that starts a body, a use or an inner scope, does to open.*)
LEMMA BodyStarted ==
  ASSUME TypeOK,
         NEW list, list = IF open = <<>> THEN open
                          ELSE [open EXCEPT ![Len(open)].body = TRUE]
  PROVE  /\ list \in Seq(OpenScopes) /\ Len(list) = Depth
         /\ \A i \in 1 .. Depth :
              /\ list[i].kind = open[i].kind /\ list[i].number = open[i].number
              /\ list[i].from = open[i].from /\ list[i].names = open[i].names
<1>1. CASE open = <<>>
  BY <1>1 DEF TypeOK, Depth
<1>2. CASE open # <<>>
  <2>1. Depth \in 1 .. Len(open)
    BY <1>2, Empty DEF TypeOK, Depth
  <2>2. list = [open EXCEPT ![Depth].body = TRUE]
    BY <1>2 DEF Depth
  <2>3. open \in Seq(OpenScopes) /\ open[Depth] \in OpenScopes
    BY <2>1 DEF TypeOK
  <2>4. [open[Depth] EXCEPT !.body = TRUE] \in OpenScopes
    BY <2>3 DEF OpenScopes
  <2>5. /\ [open[Depth] EXCEPT !.body = TRUE].kind = open[Depth].kind
        /\ [open[Depth] EXCEPT !.body = TRUE].number = open[Depth].number
        /\ [open[Depth] EXCEPT !.body = TRUE].from = open[Depth].from
        /\ [open[Depth] EXCEPT !.body = TRUE].names = open[Depth].names
    BY <2>3 DEF OpenScopes
  <2>6. list = [open EXCEPT ![Depth] = [open[Depth] EXCEPT !.body = TRUE]]
    BY <2>2
  <2>7. PICK x \in OpenScopes : x = [open[Depth] EXCEPT !.body = TRUE]
    BY <2>4
  <2>8. list = [open EXCEPT ![Depth] = x]
    BY <2>6, <2>7
  <2>9. /\ list \in Seq(OpenScopes) /\ Len(list) = Len(open) /\ list[Depth] = x
        /\ \A i \in 1 .. Len(open) : i # Depth => list[i] = open[i]
    <3>1. PICK k \in 1 .. Len(open) : k = Depth
      BY <2>1
    <3>2. /\ [open EXCEPT ![k] = x] \in Seq(OpenScopes)
          /\ Len([open EXCEPT ![k] = x]) = Len(open)
          /\ [open EXCEPT ![k] = x][k] = x
          /\ \A i \in 1 .. Len(open) : i # k => [open EXCEPT ![k] = x][i] = open[i]
      BY <2>3
    <3>3. list = [open EXCEPT ![k] = x]
      BY <2>8, <3>1
    <3> QED BY <3>1, <3>2, <3>3
  <2> QED BY <2>1, <2>5, <2>7, <2>9 DEF Depth
<1> QED BY <1>1, <1>2

LEMMA Opened ==
  ASSUME TypeOK, NEW kind \in Quantifiers \cup {"action"}, OpenScope(kind)
  PROVE  /\ count' \in [scopes : Nat, uses : Nat] /\ count'.scopes = count.scopes + 1
         /\ open' \in Seq(OpenScopes) /\ Depth' = Depth + 1
         /\ \A i \in 1 .. Depth : SameHead(i)
         /\ open'[Depth + 1] = Scope(kind)
<1>1. PICK list : list = IF open = <<>> THEN open
                         ELSE [open EXCEPT ![Len(open)].body = TRUE]
  OBVIOUS
<1>2. /\ list \in Seq(OpenScopes) /\ Len(list) = Depth
      /\ \A i \in 1 .. Depth :
           /\ list[i].kind = open[i].kind /\ list[i].number = open[i].number
           /\ list[i].from = open[i].from /\ list[i].names = open[i].names
  BY <1>1, BodyStarted
<1>3. Scope(kind) \in OpenScopes
  BY DEF Scope, OpenScopes, TypeOK
<1>4. open' = Append(list, Scope(kind))
  BY <1>1 DEF OpenScope
<1>5. /\ open' \in Seq(OpenScopes) /\ Len(open') = Depth + 1
      /\ \A i \in 1 .. Depth : open'[i] = list[i]
      /\ open'[Depth + 1] = Scope(kind)
  BY <1>2, <1>3, <1>4, Appended
<1>6. count' \in [scopes : Nat, uses : Nat] /\ count'.scopes = count.scopes + 1
  <2>1. count' = [count EXCEPT !.scopes = @ + 1]
    BY DEF OpenScope
  <2>2. count \in [scopes : Nat, uses : Nat]
    BY DEF TypeOK
  <2> QED BY <2>1, <2>2
<1> QED BY <1>2, <1>5, <1>6 DEF Depth, SameHead

LEMMA Pushed ==
  ASSUME TypeOK, Numbered, Apart, Fits,
         NEW kind \in Quantifiers \cup {"action"}, OpenScope(kind),
         Len(frames) = Depth, frames' = Append(frames, <<>>),
         \A i \in 1 .. Depth : Stays(i),
         UNCHANGED <<created, outcome, closed, uses>>
  PROVE  frames' \in Seq(Frame) /\ Len(frames') = Depth' /\ Numbered' /\ Apart' /\ Fits'
<1> PICK d : d = Depth + 1
  OBVIOUS
<1>1. /\ count' \in [scopes : Nat, uses : Nat] /\ count'.scopes = count.scopes + 1
      /\ open' \in Seq(OpenScopes) /\ Depth' = d
      /\ open'[d] = Scope(kind)
  BY Opened
<1>2. open'[d].number = count.scopes + 1 /\ open'[d].names = <<>>
  BY <1>1 DEF Scope
<1>3. /\ frames' \in Seq(Frame) /\ Len(frames') = d
      /\ \A i \in 1 .. Depth : frames'[i] = frames[i]
      /\ frames'[d] = <<>>
  BY Appended, EmptyFrame DEF TypeOK
<1>4. /\ Depth \in Nat
      /\ \A i \in 1 .. Depth : /\ open'[i].number = open[i].number
                               /\ open'[i].names = open[i].names
                               /\ Declared(i)' = Declared(i)
                               /\ \A j \in 1 .. Declared(i) : Own(i, j)' = Own(i, j)
  BY Empty DEF TypeOK, Stays, SameHead, Declared, Depth
<1>5. Declared(d)' = 0
  BY <1>2 DEF Declared
<1>6. PICK c \in Nat : c = count.scopes /\ count'.scopes = c + 1
  BY <1>1 DEF TypeOK
<1>7. /\ \A i \in 1 .. Depth : open[i].number \in 1 .. c
      /\ \A i \in 1 .. d : i # d => i \in 1 .. Depth
      /\ c + 1 \notin 1 .. c /\ \A x \in 1 .. c : x \in 1 .. c + 1
      /\ open'[d].number = c + 1 /\ d \notin 1 .. Depth
  BY <1>2, <1>4, <1>6 DEF Numbered
<1>8. Numbered'
  <2>1. ASSUME NEW i \in 1 .. d
        PROVE  open'[i].number \in 1 .. c + 1
    <3>1. CASE i = d
      <4>1. c + 1 \in 1 .. c + 1
        BY <1>6
      <4> QED BY <3>1, <4>1, <1>7
    <3>2. CASE i # d
      <4>1. i \in 1 .. Depth
        BY <2>1, <3>2, <1>7
      <4>2. open'[i].number = open[i].number /\ open[i].number \in 1 .. c
        BY <4>1, <1>4, <1>7
      <4> QED BY <4>2, <1>7
    <3> QED BY <3>1, <3>2
  <2>2. ASSUME NEW i \in 1 .. d, NEW j \in 1 .. d, open'[i].number = open'[j].number
        PROVE  i = j
    BY <2>2, <1>4, <1>7 DEF Numbered
  <2>3. ASSUME NEW t \in closed
        PROVE  /\ t.number \in 1 .. c + 1
               /\ \A i \in 1 .. d : t.number # open'[i].number
    <3>1. t.number \in 1 .. c /\ \A i \in 1 .. Depth : t.number # open[i].number
      BY <2>3, <1>6 DEF Numbered
    <3> QED BY <3>1, <1>4, <1>7
  <2>4. \A x, y \in closed : x.number = y.number => x = y
    BY DEF Numbered
  <2> QED BY <2>1, <2>2, <2>3, <2>4, <1>1, <1>6 DEF Numbered
<1>9. Apart'
  <2>1. ASSUME NEW i \in 1 .. d, NEW j \in 1 .. Declared(i)'
        PROVE  i \in 1 .. Depth /\ j \in 1 .. Declared(i) /\ Own(i, j)' = Own(i, j)
    <3>1. i # d
      BY <2>1, <1>5
    <3> QED BY <2>1, <3>1, <1>4, <1>7
  <2>2. \A i, k \in 1 .. d : \A j \in 1 .. Declared(i)', l \in 1 .. Declared(k)' :
          Own(i, j)' = Own(k, l)' => i = k /\ j = l
    BY <2>1 DEF Apart
  <2>3. \A x \in closed : \A j \in DOMAIN x.parameters :
          /\ x.parameters[j] \in 1 .. created
          /\ \A k \in 1 .. d : \A l \in 1 .. Declared(k)' : x.parameters[j] # Own(k, l)'
    BY <2>1 DEF Apart
  <2> QED BY <2>2, <2>3, <1>1 DEF Apart
<1>10. Fits'
  <2> SUFFICES ASSUME outcome = "good"
               PROVE  (\A i \in 1 .. d : FrameFits(i)') /\ (\A u \in uses : UseFits(u)')
    BY <1>1 DEF Fits
  <2>1. ASSUME NEW i \in 1 .. Depth  PROVE FrameFits(i)'
    BY <2>1, <1>3, <1>4 DEF Fits, FrameFits
  <2>2. FrameFits(d)'
    BY <1>2, <1>3, <1>5, EmptyFrame DEF FrameFits, ToSet, IsInjective
  <2>3. ASSUME NEW u \in uses  PROVE UseFits(u)'
    <3>1. UseFits(u)
      BY <2>3 DEF Fits
    <3>2. u.number \in 1 .. c /\ u.number # c + 1
      BY <3>1, <1>6 DEF UseFits
    <3>3. ASSUME NEW i \in 1 .. d, u.number = open'[i].number
          PROVE  u.place \in 1 .. Declared(i)' /\ u.variable = Own(i, u.place)'
      BY <3>1, <3>2, <3>3, <1>4, <1>7 DEF UseFits
    <3> QED BY <3>1, <3>2, <3>3, <1>1, <1>6, <1>7 DEF UseFits
  <2> QED BY <2>1, <2>2, <2>3, <1>7
<1> QED BY <1>1, <1>3, <1>8, <1>9, <1>10

(***************************************************************************)
(* The innermost scope is closed: its variables move to the closed ones.   *)
(***************************************************************************)
LEMMA Popped ==
  ASSUME TypeOK, Numbered, Apart, Fits, Len(frames) = Depth, open # <<>>,
         NEW params \in Seq(Nat), CloseScope(params),
         Len(params) = Declared(Depth),
         \A j \in 1 .. Len(params) : params[j] \in 1 .. created /\ params[j] = Own(Depth, j),
         frames' = Front(frames),
         \A i \in 1 .. Depth - 1 : \A j \in 1 .. Declared(i) : Own(i, j)' = Own(i, j),
         UNCHANGED <<created, outcome, uses, count>>
  PROVE  /\ open' \in Seq(OpenScopes) /\ Depth' = Depth - 1
         /\ \A i \in 1 .. Depth - 1 : Stays(i)
         /\ closed' \subseteq ClosedScopes
         /\ frames' \in Seq(Frame) /\ Len(frames') = Depth'
         /\ Numbered' /\ Apart' /\ Fits'
<1> PICK d : d = Depth
  OBVIOUS
<1>1. /\ d \in Nat \ {0} /\ open' \in Seq(OpenScopes) /\ Depth' = d - 1
      /\ \A i \in 1 .. d - 1 : open'[i] = open[i]
  BY FrontOf DEF TypeOK, CloseScope, Depth
<1>2. frames # <<>>
  BY <1>1, Empty DEF TypeOK
<1>3. /\ frames' \in Seq(Frame) /\ Len(frames') = d - 1
      /\ \A i \in 1 .. d - 1 : frames'[i] = frames[i]
  BY <1>2, FrontOf DEF TypeOK
<1>4. \A i \in 1 .. d - 1 :
        /\ Stays(i) /\ i \in 1 .. d
        /\ open'[i].number = open[i].number /\ open'[i].names = open[i].names
        /\ Declared(i)' = Declared(i)
        /\ \A j \in 1 .. Declared(i) : Own(i, j)' = Own(i, j)
  BY <1>1 DEF Stays, SameHead, Declared
<1>5. PICK z : z = [number |-> open[d].number, parameters |-> params]
  OBVIOUS
<1>6. /\ closed' = closed \cup {z} /\ z.number = open[d].number /\ z.parameters = params
      /\ d \in 1 .. d /\ \A i \in 1 .. d - 1 : i # d
      /\ DOMAIN params = 1 .. Declared(d)
      /\ \A j \in 1 .. Declared(d) : params[j] \in 1 .. created /\ params[j] = Own(d, j)
  BY <1>1, <1>5 DEF CloseScope, Last, Depth
<1>7. open[d] \in OpenScopes
  BY <1>1 DEF TypeOK, Depth
<1>8. closed' \subseteq ClosedScopes
  BY <1>5, <1>6, <1>7 DEF TypeOK, ClosedScopes, OpenScopes
<1>9. Numbered'
  <2>1. \A i \in 1 .. d - 1 : open'[i].number \in 1 .. count.scopes
    BY <1>4 DEF Numbered
  <2>2. \A i, j \in 1 .. d - 1 : open'[i].number = open'[j].number => i = j
    BY <1>4 DEF Numbered
  <2>3. ASSUME NEW t \in closed'
        PROVE  /\ t.number \in 1 .. count.scopes
               /\ \A i \in 1 .. d - 1 : t.number # open'[i].number
    BY <2>3, <1>4, <1>6 DEF Numbered
  <2>4. \A x, y \in closed' : x.number = y.number => x = y
    BY <1>6 DEF Numbered
  <2> QED BY <2>1, <2>2, <2>3, <2>4, <1>1 DEF Numbered
<1>10. Apart'
  <2>1. ASSUME NEW i \in 1 .. d - 1, NEW j \in 1 .. Declared(i)'
        PROVE  i \in 1 .. d /\ i # d /\ j \in 1 .. Declared(i) /\ Own(i, j)' = Own(i, j)
    BY <2>1, <1>4, <1>6
  <2>2. \A i, k \in 1 .. d - 1 : \A j \in 1 .. Declared(i)', l \in 1 .. Declared(k)' :
          Own(i, j)' = Own(k, l)' => i = k /\ j = l
    BY <2>1 DEF Apart
  <2>3. ASSUME NEW x \in closed', NEW j \in DOMAIN x.parameters
        PROVE  /\ x.parameters[j] \in 1 .. created
               /\ \A k \in 1 .. d - 1 : \A l \in 1 .. Declared(k)' :
                    x.parameters[j] # Own(k, l)'
    <3>1. CASE x \in closed
      BY <2>1, <2>3, <3>1 DEF Apart
    <3>2. CASE x = z
      <4>1. j \in 1 .. Declared(d) /\ x.parameters[j] = Own(d, j)
        BY <2>3, <3>2, <1>6
      <4>2. \A k \in 1 .. d - 1 : \A l \in 1 .. Declared(k)' : Own(d, j) # Own(k, l)
        BY <4>1, <2>1, <1>6 DEF Apart
      <4> QED BY <4>1, <4>2, <2>1, <3>2, <1>6
    <3> QED BY <2>3, <3>1, <3>2, <1>6
  <2>4. ASSUME NEW x \in closed', NEW y \in closed',
               NEW i \in DOMAIN x.parameters, NEW j \in DOMAIN y.parameters,
               x.parameters[i] = y.parameters[j]
        PROVE  x = y /\ i = j
    <3>1. CASE x \in closed /\ y \in closed
      BY <2>4, <3>1 DEF Apart
    <3>2. CASE x \in closed /\ y = z
      <4>1. j \in 1 .. Declared(d) /\ y.parameters[j] = Own(d, j)
        BY <2>4, <3>2, <1>6
      <4> QED BY <4>1, <3>2, <2>4, <1>6 DEF Apart
    <3>3. CASE x = z /\ y \in closed
      <4>1. i \in 1 .. Declared(d) /\ x.parameters[i] = Own(d, i)
        BY <2>4, <3>3, <1>6
      <4> QED BY <4>1, <3>3, <2>4, <1>6 DEF Apart
    <3>4. CASE x = z /\ y = z
      <4>1. /\ i \in 1 .. Declared(d) /\ x.parameters[i] = Own(d, i)
            /\ j \in 1 .. Declared(d) /\ y.parameters[j] = Own(d, j)
        BY <2>4, <3>4, <1>6
      <4> QED BY <4>1, <3>4, <2>4, <1>6 DEF Apart
    <3> QED BY <2>4, <3>1, <3>2, <3>3, <3>4, <1>6
  <2> QED BY <2>2, <2>3, <2>4, <1>1 DEF Apart
<1>11. Fits'
  <2> SUFFICES ASSUME outcome = "good"
               PROVE  (\A i \in 1 .. d - 1 : FrameFits(i)') /\ (\A u \in uses : UseFits(u)')
    BY <1>1 DEF Fits
  <2>1. ASSUME NEW i \in 1 .. d - 1  PROVE FrameFits(i)'
    BY <2>1, <1>3, <1>4 DEF Fits, FrameFits
  <2>2. ASSUME NEW u \in uses  PROVE UseFits(u)'
    <3>1. UseFits(u)
      BY <2>2 DEF Fits
    <3>2. ASSUME NEW i \in 1 .. d - 1, u.number = open'[i].number
          PROVE  u.place \in 1 .. Declared(i)' /\ u.variable = Own(i, u.place)'
      BY <3>1, <3>2, <1>4 DEF UseFits
    <3>3. ASSUME NEW t \in closed', u.number = t.number
          PROVE  u.place \in DOMAIN t.parameters /\ u.variable = t.parameters[u.place]
      BY <3>1, <3>3, <1>6 DEF UseFits
    <3> QED BY <3>1, <3>2, <3>3, <1>1 DEF UseFits
  <2> QED BY <2>1, <2>2
<1> QED BY <1>1, <1>3, <1>4, <1>8, <1>9, <1>10, <1>11

(***************************************************************************)
(* The steps.                                                              *)
(***************************************************************************)
(* What an open scope is, and that its part ends within the list.          *)
LEMMA Bounded ==
  ASSUME TypeOK, Nested, NEW i \in 1 .. Depth
  PROVE  /\ open[i] \in OpenScopes /\ Depth \in Nat /\ Len(quantified) \in Nat
         /\ open[i].from \in Nat /\ open[i].names \in Seq(VariableNames)
         /\ Declared(i) \in Nat
         /\ End(i) \in Nat /\ End(i) <= Len(quantified)
<1>1. Depth \in Nat /\ Len(quantified) \in Nat
  BY Empty DEF TypeOK, Depth
<1>2. \A k \in 1 .. Depth : open[k] \in OpenScopes
  BY DEF TypeOK, Depth
<1>3. \A k \in 1 .. Depth : open[k].from \in Nat /\ open[k].names \in Seq(VariableNames)
  BY <1>2 DEF OpenScopes
<1>4. Declared(i) \in Nat
  BY <1>3, Empty DEF Declared
<1>5. End(i) \in Nat /\ End(i) <= Len(quantified)
  <2>1. CASE i < Depth
    <3>1. i + 1 \in 1 .. Depth
      BY <2>1, <1>1
    <3>2. open[i + 1].from <= Len(quantified)
      BY <3>1 DEF Nested, Part
    <3> QED BY <2>1, <3>1, <3>2, <1>3 DEF End
  <2>2. CASE ~(i < Depth)
    BY <2>2, <1>1 DEF End
  <2> QED BY <2>1, <2>2
<1> QED BY <1>1, <1>2, <1>3, <1>4, <1>5

(* The part of a quantifier lies within the list.                          *)
LEMMA Inside ==
  ASSUME TypeOK, Nested, NEW i \in 1 .. Depth, open[i].kind # "action"
  PROVE  /\ open[i].from + 1 + Declared(i) = End(i)
         /\ open[i].from + 1 \in 1 .. Len(quantified)
         /\ \A j \in 1 .. Declared(i) : open[i].from + 1 + j \in 1 .. Len(quantified)
<1>1. open[i].from + 1 + Declared(i) = End(i)
  BY DEF Nested, Part
<1>2. /\ open[i].from \in Nat /\ Declared(i) \in Nat /\ Len(quantified) \in Nat
      /\ End(i) \in Nat /\ End(i) <= Len(quantified)
  BY Bounded
<1>3. PICK a \in Nat, n \in Nat, e \in Nat, q \in Nat :
         a = open[i].from /\ n = Declared(i) /\ e = End(i) /\ q = Len(quantified)
  BY <1>2
<1>4. a + 1 + n = e /\ e <= q
  BY <1>1, <1>2, <1>3
<1>5. a + 1 \in 1 .. q /\ \A j \in 1 .. n : a + 1 + j \in 1 .. q
  BY SMTT(20), <1>3, <1>4
<1> QED BY <1>1, <1>3, <1>5

LEMMA PrepareQuantifierStep ==
  ASSUME ScopesInv, NEW kind \in Quantifiers, PrepareQuantifier(kind)
  PROVE  ScopesInv'
<1> USE DEF ScopesInv
<1> PICK d : d = Depth
  OBVIOUS
<1> PICK q : q = Len(quantified)
  OBVIOUS
<1>1. /\ d \in Nat /\ q \in Nat /\ OpenScope(kind)
      /\ \A i \in 1 .. d : open[i].kind = "action" => Len(parameters) = Declared(i)
      /\ Len(frames) = Depth /\ frames' = Append(frames, <<>>)
      /\ quantified' = Append(quantified, Marker)
      /\ UNCHANGED <<text, parameters, created, outcome, closed, uses>>
  BY Empty DEF PrepareQuantifier, TypeOK, Nested, Depth, Part
<1>2. /\ count' \in [scopes : Nat, uses : Nat]
      /\ open' \in Seq(OpenScopes) /\ Depth' = d + 1
      /\ \A i \in 1 .. d : SameHead(i)
      /\ open'[d + 1] = Scope(kind)
  BY <1>1, Opened
<1>3. /\ open'[d + 1].kind = kind /\ open'[d + 1].from = q /\ open'[d + 1].names = <<>>
      /\ kind # "action"
  BY <1>2 DEF Scope, Quantifiers
<1>4. /\ quantified' \in Seq(Nat) /\ Len(quantified') = q + 1
      /\ \A i \in 1 .. q : quantified'[i] = quantified[i]
      /\ quantified'[q + 1] = Marker
  BY <1>1, Appended DEF TypeOK, Marker
<1>5. ASSUME NEW i \in 1 .. d
      PROVE  /\ Declared(i)' = Declared(i)
             /\ \A j \in 1 .. Declared(i) : Own(i, j)' = Own(i, j)
             /\ open[i].kind # "action" =>
                  quantified'[open'[i].from + 1] = quantified[open[i].from + 1]
  BY <1>1, <1>2, <1>4, Inside DEF SameHead, Own, Declared
<1>6. frames' \in Seq(Frame) /\ Len(frames') = Depth' /\ Numbered' /\ Apart' /\ Fits'
  BY <1>1, <1>2, <1>5, Pushed DEF Stays
<1>7. TypeOK'
  BY <1>1, <1>2, <1>4, <1>6 DEF TypeOK
<1>8. \A i \in 1 .. d : End(i)' = End(i)
  BY <1>1, <1>2, <1>3 DEF SameHead, End
<1>9. PICK e : e = d + 1
  OBVIOUS
<1>10. End(e)' = q + 1 /\ Declared(e)' = 0
  BY <1>1, <1>2, <1>3, <1>4, <1>9 DEF End, Declared
<1>11. ASSUME NEW i \in 1 .. d
       PROVE  /\ (open[i].kind = "action" <=> (i = 1 /\ text = "action"))'
              /\ Part(i)'
              /\ (\A j \in i + 1 .. Depth : End(i) <= open[j].from)'
  <2>1. (open[i].kind = "action" <=> (i = 1 /\ text = "action"))'
    BY <1>1, <1>2 DEF Nested, SameHead
  <2>2. Part(i)'
    <3>1. /\ open[i].from <= q
          /\ i = 1 => open[i].from = 0
          /\ open[i].kind = "action" => End(i) = 0
          /\ open[i].kind # "action" =>
               /\ End(i) = open[i].from + 1 + Declared(i)
               /\ quantified[open[i].from + 1] = Marker
          /\ \A j \in 1 .. Declared(i) : Own(i, j) \in 1 .. created
      BY DEF Nested, Part
    <3>2. open[i].from \in Nat
      BY Bounded
    <3>3. /\ open'[i].from = open[i].from /\ open'[i].kind = open[i].kind
          /\ Declared(i)' = Declared(i) /\ End(i)' = End(i)
          /\ Len(parameters') = Len(parameters)
      BY <1>1, <1>2, <1>5, <1>8 DEF SameHead
    <3>4. \A j \in 1 .. Declared(i) : Own(i, j)' \in 1 .. created'
      BY <3>1, <1>1, <1>5
    <3>5. open'[i].from <= Len(quantified')
      BY <3>1, <3>2, <3>3, <1>1, <1>4
    <3> QED BY <3>1, <3>3, <3>4, <3>5, <1>1, <1>5 DEF Part
  <2>3. End(i) <= q /\ \A j \in i + 1 .. d : End(i) <= open[j].from
    BY Bounded, <1>1 DEF Nested
  <2>4. ASSUME NEW j \in i + 1 .. d + 1  PROVE End(i) <= open'[j].from
    <3>1. CASE j = d + 1
      BY <3>1, <2>3, <1>3
    <3>2. CASE j # d + 1
      <4>1. j \in i + 1 .. d /\ j \in 1 .. d
        <5>1. i \in Nat /\ i >= 1 /\ d \in Nat /\ j \in Int /\ i + 1 <= j /\ j <= d + 1
          BY <1>11, <2>4, <1>1
        <5> QED BY <5>1, <3>2
      <4> QED BY <4>1, <2>3, <1>2 DEF SameHead
    <3> QED BY <3>1, <3>2
  <2> QED BY <2>1, <2>2, <2>4, <1>2, <1>8
<1>12. /\ (open[e].kind = "action" <=> (e = 1 /\ text = "action"))'
       /\ Part(e)'
       /\ (\A j \in e + 1 .. Depth : End(e) <= open[j].from)'
  <2>1. e = 1 => q = 0 /\ text # "action"
    BY <1>1, <1>9, Empty DEF Nested, Depth, TypeOK
  <2>2. Part(e)'
    BY <2>1, <1>1, <1>3, <1>4, <1>9, <1>10 DEF Part
  <2> QED BY <2>1, <2>2, <1>1, <1>2, <1>3, <1>9
<1>13. Nested'
  <2>1. open' # <<>> /\ text # "file"
    BY <1>1, <1>2, Empty DEF Depth, PrepareQuantifier
  <2>2. \A i \in 1 .. Depth' : i \in 1 .. d \/ i = e
    BY <1>1, <1>2, <1>9
  <2> QED BY <2>1, <2>2, <1>1, <1>6, <1>11, <1>12 DEF Nested
<1> QED BY <1>6, <1>7, <1>13

LEMMA MakeActionStep ==
  ASSUME ScopesInv, MakeAction
  PROVE  ScopesInv'
<1> USE DEF ScopesInv
<1>1. /\ Depth = 0 /\ OpenScope("action") /\ text' = "action"
      /\ Len(frames) = Depth /\ frames' = Append(frames, <<>>)
      /\ quantified = <<>> /\ parameters' = <<>>
      /\ UNCHANGED <<quantified, created, outcome, closed, uses>>
  BY Empty DEF MakeAction, TypeOK, Nested, Depth
<1>2. /\ count' \in [scopes : Nat, uses : Nat]
      /\ open' \in Seq(OpenScopes) /\ Depth' = 1
      /\ open'[1] = Scope("action")
  BY <1>1, Opened
<1>3. /\ open'[1].kind = "action" /\ open'[1].from = 0 /\ open'[1].names = <<>>
      /\ Len(quantified) = 0
  BY <1>1, <1>2 DEF Scope
<1>4. \A i \in 1 .. Depth : Stays(i)
  BY <1>1
<1>5. frames' \in Seq(Frame) /\ Len(frames') = Depth' /\ Numbered' /\ Apart' /\ Fits'
  BY <1>1, <1>4, Pushed
<1>6. TypeOK'
  BY <1>1, <1>2, <1>5 DEF TypeOK
<1>7. End(1)' = 0 /\ Declared(1)' = 0 /\ Len(parameters') = 0
  BY <1>1, <1>2, <1>3 DEF End, Declared
<1>8. Part(1)'
  BY <1>1, <1>3, <1>7 DEF Part
<1>9. open' # <<>>
  <2>1. Len(open') = 1 /\ Len(<<>>) = 0
    BY <1>2 DEF Depth
  <2> QED BY <2>1
<1> QED BY <1>1, <1>2, <1>3, <1>5, <1>6, <1>8, <1>9 DEF Nested

LEMMA AddActionStep ==
  ASSUME ScopesInv, AddAction
  PROVE  ScopesInv'
<1> USE DEF ScopesInv
<1>1. /\ Depth = 1 /\ open # <<>> /\ CloseScope(parameters) /\ text = "action"
      /\ text' = "file" /\ frames' = Front(frames) /\ Len(frames) = Depth
      /\ UNCHANGED <<quantified, parameters, created, outcome, uses, count>>
  BY DEF AddAction, Nested, Depth
<1>2. /\ open[1].kind = "action" /\ Part(1)
  BY <1>1 DEF Nested
<1>3. Len(quantified) = 0 /\ Len(parameters) = Declared(1)
  BY <1>1, <1>2 DEF Part, End
<1>4. \A j \in 1 .. Len(parameters) :
        parameters[j] \in 1 .. created /\ parameters[j] = Own(Depth, j)
  BY <1>1, <1>2, <1>3 DEF Part, Own
<1>5. /\ open' \in Seq(OpenScopes) /\ Depth' = 0 /\ closed' \subseteq ClosedScopes
      /\ frames' \in Seq(Frame) /\ Len(frames') = Depth'
      /\ Numbered' /\ Apart' /\ Fits'
  <2>1. \A i \in 1 .. Depth - 1 : FALSE
    BY <1>1
  <2>2. parameters \in Seq(Nat)
    BY DEF TypeOK
  <2> QED BY <1>1, <1>3, <1>4, <2>1, <2>2, Popped
<1>6. open' = <<>> /\ quantified' = <<>>
  BY <1>1, <1>3, <1>5, Empty DEF TypeOK, Depth
<1>7. TypeOK'
  BY <1>1, <1>5 DEF TypeOK
<1> QED BY <1>1, <1>5, <1>6, <1>7 DEF Nested

LEMMA GoalStep ==
  ASSUME ScopesInv, StartGoal \/ EndGoal
  PROVE  ScopesInv'
<1> USE DEF ScopesInv
<1>1. /\ open = <<>> /\ text' \in {"file", "goal"}
      /\ UNCHANGED <<frames, quantified, parameters, created, outcome, open, closed,
                     uses, count>>
  BY DEF StartGoal, EndGoal, Nested
<1>2. TypeOK' /\ Numbered' /\ Apart' /\ Fits'
  BY <1>1 DEF TypeOK, Numbered, Apart, Fits, FrameFits, UseFits, Depth, Declared, Own
<1>3. Nested'
  BY <1>1 DEF Nested, Depth
<1> QED BY <1>2, <1>3

(* What a quantifier takes from the list is its own part.                  *)
LEMMA AboveIsOwn ==
  ASSUME TypeOK, Nested, open # <<>>, open[Depth].kind # "action"
  PROVE  /\ TopMarker = open[Depth].from + 1
         /\ Above \in Seq(Nat) /\ Len(Above) = Declared(Depth)
         /\ \A j \in 1 .. Len(Above) : Above[j] \in 1 .. created /\ Above[j] = Own(Depth, j)
<1> PICK d : d = Depth
  OBVIOUS
<1> PICK m : m = open[d].from + 1
  OBVIOUS
<1>1. d \in 1 .. d /\ d \in 1 .. Depth
  BY Empty DEF TypeOK, Depth
<1>2. /\ open[d].from \in Nat /\ Declared(d) \in Nat /\ Len(quantified) \in Nat
      /\ End(d) = Len(quantified)
  BY <1>1, Bounded DEF End
<1>3. /\ m + Declared(d) = Len(quantified)
      /\ m \in 1 .. Len(quantified)
      /\ \A j \in 1 .. Declared(d) : m + j \in 1 .. Len(quantified)
  BY <1>1, <1>2, Inside
<1>4. /\ quantified[m] = Marker
      /\ \A j \in 1 .. Declared(d) :
           quantified[m + j] \in 1 .. created /\ quantified[m + j] = Own(d, j)
  BY <1>1 DEF Nested, Part, Own
<1>5. ASSUME NEW i \in m + 1 .. Len(quantified)
      PROVE  i - m \in 1 .. Declared(d) /\ quantified[i] # Marker
  <2>1. i - m \in 1 .. Declared(d) /\ m + (i - m) = i
    BY SMTT(20), <1>2, <1>3
  <2> QED BY <2>1, <1>4 DEF Marker
<1>6. TopMarker = m
  <2>1. \A i \in 1 .. Len(quantified) :
          /\ quantified[i] = Marker
          /\ \A j \in i + 1 .. Len(quantified) : quantified[j] # Marker
          <=> i = m
    <3>1. ASSUME NEW i \in 1 .. Len(quantified), i # m, quantified[i] = Marker,
                 \A j \in i + 1 .. Len(quantified) : quantified[j] # Marker
          PROVE  FALSE
      BY <3>1, <1>2, <1>3, <1>4, <1>5
    <3> QED BY <3>1, <1>3, <1>4, <1>5
  <2> QED BY <2>1, <1>3 DEF TopMarker
<1>7. Above = SubSeq(quantified, m + 1, Len(quantified))
  BY <1>6 DEF Above
<1>8. /\ Above \in Seq(Nat) /\ Len(Above) = Declared(d)
      /\ \A j \in 1 .. Declared(d) : Above[j] = quantified[m + j]
  <2>1. quantified \in Seq(Nat) /\ m \in 0 .. Len(quantified)
    BY <1>3 DEF TypeOK
  <2>2. /\ Above \in Seq(Nat) /\ Len(Above) = Len(quantified) - m
        /\ \A j \in 1 .. Len(quantified) - m : Above[j] = quantified[m + j]
    BY <2>1, <1>7, Suffix
  <2>3. Len(quantified) - m = Declared(d)
    BY <1>2, <1>3
  <2> QED BY <2>2, <2>3
<1> QED BY <1>4, <1>6, <1>8

LEMMA MakeQuantifiedStep ==
  ASSUME ScopesInv, NEW kind \in Quantifiers, MakeQuantified(kind)
  PROVE  ScopesInv'
<1> USE DEF ScopesInv
<1> PICK d : d = Depth
  OBVIOUS
<1> PICK f : f = open[d].from
  OBVIOUS
<1>1. /\ open # <<>> /\ open[d].kind # "action" /\ CloseScope(Above)
      /\ frames' = Front(frames) /\ quantified' = SubSeq(quantified, 1, TopMarker - 1)
      /\ UNCHANGED <<text, parameters, created, outcome, uses, count>>
  BY DEF MakeQuantified, Last, Depth, Quantifiers
<1>2. /\ d \in Nat \ {0} /\ d \in 1 .. d /\ d = Depth
      /\ \A i \in 1 .. d - 1 : i \in 1 .. d /\ d \in i + 1 .. d
  BY <1>1, Empty DEF TypeOK, Depth
<1>3. /\ TopMarker = f + 1
      /\ Above \in Seq(Nat) /\ Len(Above) = Declared(d)
      /\ \A j \in 1 .. Len(Above) : Above[j] \in 1 .. created /\ Above[j] = Own(d, j)
  BY <1>1, AboveIsOwn
<1>4. f \in Nat /\ Len(quantified) \in Nat /\ f \in 0 .. Len(quantified)
  BY <1>2, Bounded DEF Nested, Part
<1>5. /\ quantified' \in Seq(Nat) /\ Len(quantified') = f
      /\ \A i \in 1 .. f : quantified'[i] = quantified[i]
  <2>1. quantified' = SubSeq(quantified, 1, f)
    BY <1>1, <1>3, <1>4
  <2>2. quantified \in Seq(Nat)
    BY DEF TypeOK
  <2>3. /\ SubSeq(quantified, 1, f) \in Seq(Nat)
        /\ Len(SubSeq(quantified, 1, f)) = f
        /\ \A i \in 1 .. f : SubSeq(quantified, 1, f)[i] = quantified[i]
    BY <2>2, <1>4, Prefix, Zenon
  <2> QED BY <2>1, <2>3, Zenon
<1>6. \A i \in 1 .. d - 1 : open'[i] = open[i]
  BY <1>1, FrontOf DEF CloseScope, TypeOK, Depth
<1>7. ASSUME NEW i \in 1 .. d - 1, open[i].kind # "action"
      PROVE  /\ open[i].from + 1 \in 1 .. f
             /\ \A j \in 1 .. Declared(i) : open[i].from + 1 + j \in 1 .. f
  <2>1. End(i) <= f
    BY <1>2 DEF Nested
  <2>2. open[i].from \in Nat /\ Declared(i) \in Nat
    BY <1>2, Bounded
  <2>3. open[i].from + 1 + Declared(i) = End(i)
    BY <1>2, <1>7, Inside
  <2>4. open[i].from + 1 + Declared(i) <= f
    BY <2>1, <2>3
  <2>5. PICK a \in Nat, n \in Nat : a = open[i].from /\ n = Declared(i)
    BY <2>2
  <2>6. a + 1 + n <= f /\ f \in Nat
    BY <2>4, <2>5, <1>4
  <2>7. a + 1 \in 1 .. f /\ \A j \in 1 .. n : a + 1 + j \in 1 .. f
    BY <2>6
  <2> QED BY <2>5, <2>7
<1>8. ASSUME NEW i \in 1 .. d - 1
      PROVE  /\ \A j \in 1 .. Declared(i) : Own(i, j)' = Own(i, j)
             /\ open[i].kind # "action" =>
                  quantified'[open'[i].from + 1] = quantified[open[i].from + 1]
  BY <1>1, <1>5, <1>6, <1>7 DEF Own
<1>9. /\ open' \in Seq(OpenScopes) /\ Depth' = d - 1
      /\ \A i \in 1 .. d - 1 : Stays(i)
      /\ closed' \subseteq ClosedScopes
      /\ frames' \in Seq(Frame) /\ Len(frames') = Depth'
      /\ Numbered' /\ Apart' /\ Fits'
  BY <1>1, <1>3, <1>8, Popped DEF Nested
<1>10. TypeOK'
  BY <1>1, <1>5, <1>9 DEF TypeOK
<1>11. ASSUME NEW i \in 1 .. d - 1  PROVE End(i)' = End(i)
  BY <1>2, <1>5, <1>6, <1>9 DEF End
<1>12. ASSUME NEW i \in 1 .. d - 1
       PROVE  /\ (open[i].kind = "action" <=> (i = 1 /\ text = "action"))'
              /\ Part(i)'
              /\ (\A j \in i + 1 .. Depth : End(i) <= open[j].from)'
  <2>1. (open[i].kind = "action" <=> (i = 1 /\ text = "action"))'
    BY <1>1, <1>2, <1>6 DEF Nested
  <2>2. Part(i)'
    <3>1. /\ i = 1 => open[i].from = 0
          /\ open[i].kind = "action" => End(i) = 0 /\ Len(parameters) = Declared(i)
          /\ open[i].kind # "action" =>
               /\ End(i) = open[i].from + 1 + Declared(i)
               /\ quantified[open[i].from + 1] = Marker
          /\ \A j \in 1 .. Declared(i) : Own(i, j) \in 1 .. created
      BY <1>2 DEF Nested, Part
    <3>2. open'[i] = open[i] /\ Declared(i)' = Declared(i) /\ End(i)' = End(i)
      BY <1>6, <1>11 DEF Declared
    <3>3. \A j \in 1 .. Declared(i) : Own(i, j)' \in 1 .. created'
      BY <3>1, <1>1, <1>8
    <3>4. open'[i].from <= Len(quantified')
      <4>1. CASE open[i].kind = "action"
        <5>1. i = 1
          BY <4>1, <1>2 DEF Nested
        <5> QED BY <5>1, <3>1, <3>2, <1>4, <1>5
      <4>2. CASE open[i].kind # "action"
        <5>1. open[i].from \in Nat
          BY <1>2, Bounded
        <5> QED BY <4>2, <5>1, <3>2, <1>4, <1>5, <1>7
      <4> QED BY <4>1, <4>2
    <3> QED BY <3>1, <3>2, <3>3, <3>4, <1>1, <1>8 DEF Part
  <2>3. \A j \in i + 1 .. d - 1 : j \in i + 1 .. d /\ j \in 1 .. d - 1
    BY <1>2
  <2>4. \A j \in i + 1 .. d : End(i) <= open[j].from
    BY <1>2 DEF Nested
  <2> QED BY <2>1, <2>2, <2>3, <2>4, <1>6, <1>9, <1>11
<1>13. open' = <<>> => quantified' = <<>>
  <2>1. ASSUME open' = <<>>  PROVE quantified' = <<>>
    <3>1. d = 1
      <4>1. Len(open') = d - 1 /\ Len(<<>>) = 0
        BY <1>9 DEF Depth
      <4> QED BY <4>1, <2>1, <1>2
    <3>2. f = 0
      BY <3>1, <1>2 DEF Nested, Part
    <3> QED BY <3>2, <1>5, Empty
  <2> QED BY <2>1
<1>14. text = "action" => open' # <<>>
  <2>1. ASSUME text = "action"  PROVE d - 1 \in Nat \ {0}
    <3>1. d # 1
      BY <2>1, <1>1, <1>2 DEF Nested
    <3> QED BY <3>1, <1>2
  <2> QED BY <2>1, <1>9, Empty DEF Depth
<1>15. text # "file"
  BY <1>1 DEF Nested
<1> QED BY <1>1, <1>9, <1>10, <1>12, <1>13, <1>14, <1>15 DEF Nested

(* Names are added to the innermost scope: its part is at the end of the
   list that they go to. *)
LEMMA NamesAdded ==
  ASSUME TypeOK, Nested, NEW ns \in Seq(VariableNames), AddVariables(ns),
         NEW d, d = Depth, NEW n, n = Declared(d)
  PROVE  /\ d \in Nat \ {0} /\ n \in Nat /\ Len(ns) \in Nat
         /\ open' \in Seq(OpenScopes) /\ Depth' = d
         /\ \A i \in 1 .. d : i # d => open'[i] = open[i]
         /\ open'[d].kind = open[d].kind /\ open'[d].number = open[d].number
         /\ open'[d].from = open[d].from /\ open'[d].names = open[d].names \o ns
         /\ Declared(d)' = n + Len(ns)
<1>1. /\ open # <<>> /\ open' = [open EXCEPT ![d].names = @ \o ns]
  BY DEF AddVariables, Depth
<1>2. d \in Nat \ {0} /\ d \in 1 .. Len(open) /\ d \in 1 .. Depth
  BY <1>1, Empty DEF TypeOK, Depth
<1>3. /\ open[d] \in OpenScopes /\ open \in Seq(OpenScopes)
      /\ open[d].names \in Seq(VariableNames) /\ n \in Nat /\ Len(ns) \in Nat
  BY <1>2, Bounded, Empty DEF TypeOK
<1>4. PICK names : names = open[d].names \o ns
  OBVIOUS
<1>5. names \in Seq(VariableNames) /\ Len(names) = n + Len(ns)
  BY <1>3, <1>4, Joined DEF Declared
<1>6. PICK x : x = [open[d] EXCEPT !.names = names]
  OBVIOUS
<1>7. /\ x \in OpenScopes /\ x.names = names /\ x.kind = open[d].kind
      /\ x.number = open[d].number /\ x.from = open[d].from
  BY <1>3, <1>5, <1>6 DEF OpenScopes
<1>8. open' = [open EXCEPT ![d] = x]
  BY <1>1, <1>2, <1>4, <1>6
<1>9. /\ open' \in Seq(OpenScopes) /\ Len(open') = Len(open) /\ open'[d] = x
      /\ \A i \in 1 .. Len(open) : i # d => open'[i] = open[i]
  BY <1>2, <1>3, <1>7, <1>8
<1>10. Declared(d)' = Len(open'[d].names)
  BY <1>9 DEF Declared, Depth
<1> QED BY <1>2, <1>3, <1>4, <1>5, <1>7, <1>9, <1>10 DEF Depth

LEMMA VariablesAdded ==
  ASSUME TypeOK, Nested, NEW ns \in Seq(VariableNames), AddVariables(ns),
         NEW d, d = Depth, NEW n, n = Declared(d)
  PROVE  /\ quantified' \in Seq(Nat) /\ parameters' \in Seq(Nat)
         /\ Len(quantified) <= Len(quantified')
         /\ \A i \in 1 .. Len(quantified) : quantified'[i] = quantified[i]
         /\ open[d].kind = "action" =>
              UNCHANGED quantified /\ Len(parameters') = n + Len(ns)
         /\ open[d].kind # "action" =>
              UNCHANGED parameters /\ Len(quantified') = Len(quantified) + Len(ns)
         /\ \A i \in 1 .. d : \A j \in 1 .. Declared(i) : Own(i, j)' = Own(i, j)
         /\ \A j \in 1 .. Len(ns) : Own(d, n + j)' = created + j
<1>1. /\ d \in Nat \ {0} /\ n \in Nat /\ Len(ns) \in Nat
      /\ \A i \in 1 .. d : /\ open'[i].kind = open[i].kind
                           /\ open'[i].from = open[i].from
      /\ d \in 1 .. d /\ d \in 1 .. Depth
  BY NamesAdded
<1>2. /\ open[d].from \in Nat /\ Len(quantified) \in Nat
      /\ End(d) = Len(quantified)
      /\ open[d].kind = "action" => End(d) = 0 /\ Len(parameters) = n
      /\ open[d].kind # "action" => open[d].from + 1 + n = End(d)
  BY <1>1, Bounded DEF Nested, Part, End
<1>3. quantified = <<>> <=> open[d].kind = "action"
  <2>1. quantified = <<>> <=> Len(quantified) = 0
    BY Empty DEF TypeOK
  <2>2. CASE open[d].kind = "action"
    BY <2>1, <2>2, <1>2
  <2>3. CASE open[d].kind # "action"
    <3>1. PICK f \in Nat : f = open[d].from
      BY <1>2
    <3>2. f + 1 + n = Len(quantified) /\ n \in Nat
      BY <2>3, <3>1, <1>1, <1>2
    <3>3. Len(quantified) # 0
      BY <3>1, <3>2
    <3> QED BY <2>1, <2>3, <3>3
  <2> QED BY <2>2, <2>3
<1>4. quantified \in Seq(Nat) /\ parameters \in Seq(Nat) /\ created \in Nat
  BY DEF TypeOK
<1>6. IF quantified # <<>>
        THEN quantified' = quantified \o Variables(ns) /\ parameters' = parameters
        ELSE parameters' = parameters \o Variables(ns) /\ quantified' = quantified
  BY DEF AddVariables
<1>7. CASE open[d].kind = "action"
  <2>1. parameters' = parameters \o Variables(ns) /\ quantified' = quantified
    BY <1>3, <1>6, <1>7
  <2>2. /\ parameters' \in Seq(Nat) /\ Len(parameters') = n + Len(ns)
        /\ \A i \in 1 .. n : parameters'[i] = parameters[i]
        /\ \A i \in 1 .. Len(ns) : parameters'[n + i] = created + i
    <3>1. PICK new : new = parameters'
      OBVIOUS
    <3>2. /\ new \in Seq(Nat) /\ Len(new) = Len(parameters) + Len(ns)
          /\ \A i \in 1 .. Len(parameters) : new[i] = parameters[i]
          /\ \A i \in 1 .. Len(ns) : new[Len(parameters) + i] = created + i
      BY <2>1, <3>1, <1>4, Extended
    <3> QED BY <3>1, <3>2, <1>2, <1>7
  <2>3. \A j \in 1 .. Len(ns) : Own(d, n + j)' = created + j
    BY <2>2, <1>1, <1>7 DEF Own
  <2>4. ASSUME NEW i \in 1 .. d, NEW j \in 1 .. Declared(i)  PROVE Own(i, j)' = Own(i, j)
    <3>1. CASE open[i].kind = "action"
      <4>1. i \in 1 .. Depth /\ Len(parameters) = Declared(i)
        BY <2>4, <3>1 DEF Nested, Part
      <4> QED BY <4>1, <2>2, <2>4, <3>1, <1>1, <1>2, <1>7 DEF Own
    <3>2. CASE open[i].kind # "action"
      BY <2>1, <2>4, <3>2, <1>1 DEF Own
    <3> QED BY <3>1, <3>2
  <2> QED BY <2>1, <2>2, <2>3, <2>4, <1>2, <1>4, <1>7
<1>8. CASE open[d].kind # "action"
  <2>1. quantified' = quantified \o Variables(ns) /\ parameters' = parameters
    BY <1>3, <1>6, <1>8
  <2>2. /\ quantified' \in Seq(Nat) /\ Len(quantified') = Len(quantified) + Len(ns)
        /\ \A i \in 1 .. Len(quantified) : quantified'[i] = quantified[i]
        /\ \A i \in 1 .. Len(ns) : quantified'[Len(quantified) + i] = created + i
    <3>1. PICK new : new = quantified'
      OBVIOUS
    <3>2. /\ new \in Seq(Nat) /\ Len(new) = Len(quantified) + Len(ns)
          /\ \A i \in 1 .. Len(quantified) : new[i] = quantified[i]
          /\ \A i \in 1 .. Len(ns) : new[Len(quantified) + i] = created + i
      BY <2>1, <3>1, <1>4, Extended
    <3> QED BY <3>1, <3>2
  <2>3. ASSUME NEW j \in 1 .. Len(ns)  PROVE Own(d, n + j)' = created + j
    <3>1. open[d].from + 1 + (n + j) = Len(quantified) + j
      <4>1. PICK f \in Nat, m \in Nat : f = open[d].from /\ m = Len(quantified)
        BY <1>2
      <4>2. f + 1 + n = m /\ n \in Nat /\ j \in Nat
        BY <4>1, <2>3, <1>1, <1>2, <1>8
      <4>3. f + 1 + (n + j) = m + j
        BY <4>2
      <4> QED BY <4>1, <4>3
    <3>2. Own(d, n + j)' = quantified'[open[d].from + 1 + (n + j)]
      BY <1>1, <1>8 DEF Own
    <3> QED BY <3>1, <3>2, <2>2
  <2>4. ASSUME NEW i \in 1 .. d, NEW j \in 1 .. Declared(i)  PROVE Own(i, j)' = Own(i, j)
    <3>1. CASE open[i].kind = "action"
      BY <2>1, <2>4, <3>1, <1>1 DEF Own
    <3>2. CASE open[i].kind # "action"
      <4>1. open[i].from + 1 + j \in 1 .. Len(quantified)
        BY <2>4, <3>2, Inside
      <4> QED BY <4>1, <2>2, <2>4, <3>2, <1>1 DEF Own
    <3> QED BY <3>1, <3>2
  <2>5. Len(quantified) <= Len(quantified')
    BY <2>2, <1>1, <1>2
  <2> QED BY <2>1, <2>2, <2>3, <2>4, <2>5, <1>4, <1>8
<1> QED BY <1>7, <1>8

(* An error stays an error; without one the new names are new to the scope,
   and the frame has a variable for each. *)
LEMMA FrameExtended ==
  ASSUME TypeOK, Nested, Fits, NEW ns \in Seq(VariableNames), AddVariables(ns),
         NEW d, d = Depth, NEW n, n = Declared(d), outcome' = "good",
         \A j \in 1 .. n : Own(d, j)' = Own(d, j),
         \A j \in 1 .. Len(ns) : Own(d, n + j)' = created + j
  PROVE  /\ outcome = "good"
         /\ FrameFits(d)'
<1>1. /\ d \in Nat \ {0} /\ d \in 1 .. d /\ d \in 1 .. Depth
      /\ n \in Nat /\ Len(ns) \in Nat
      /\ open'[d].names = open[d].names \o ns /\ Declared(d)' = n + Len(ns)
  BY NamesAdded
<1>2. /\ outcome = "good" /\ IsInjective(ns) /\ ToSet(ns) \cap DOMAIN frames[d] = {}
      /\ frames'[d] = Inserted(frames[d], ns)
  <2>1. /\ d = Len(frames) /\ frames[d] \in Frame
    BY <1>1 DEF Nested, TypeOK
  <2>2. /\ outcome = "good" /\ IsInjective(ns) /\ ToSet(ns) \cap DOMAIN Last(frames) = {}
        /\ frames' = [frames EXCEPT ![Len(frames)] = Inserted(@, ns)]
    BY DEF AddVariables
  <2> QED BY <2>1, <2>2, <1>1 DEF Last, TypeOK
<1>3. PICK old \in Seq(VariableNames) : old = open[d].names /\ Len(old) = n
  BY <1>1, Bounded DEF Declared
<1>4. PICK new : new = open'[d].names
  OBVIOUS
<1>5. /\ Len(new) = n + Len(ns) /\ new \in Seq(VariableNames)
      /\ \A j \in 1 .. n : new[j] = old[j]
      /\ \A j \in 1 .. Len(ns) : new[n + j] = ns[j]
  <2>1. new = old \o ns
    BY <1>1, <1>3, <1>4
  <2>2. /\ new \in Seq(VariableNames) /\ Len(new) = Len(old) + Len(ns)
        /\ \A j \in 1 .. Len(old) : new[j] = old[j]
        /\ \A j \in 1 .. Len(ns) : new[Len(old) + j] = ns[j]
    BY <2>1, Joined
  <2> QED BY <2>2, <1>3
<1>6. /\ DOMAIN frames[d] = ToSet(old) /\ IsInjective(old)
      /\ \A j \in 1 .. n : frames[d][old[j]] = Own(d, j)
  BY <1>1, <1>2, <1>3 DEF Fits, FrameFits
<1>7. frames[d] \in Frame /\ created \in Nat
  BY <1>1 DEF Nested, TypeOK
<1>8. /\ DOMAIN frames'[d] = ToSet(old) \cup ToSet(ns)
      /\ \A name \in ToSet(old) : frames'[d][name] = frames[d][name]
      /\ \A name \in ToSet(ns) \ ToSet(old) : frames'[d][name] = created + FirstPlace(ns, name)
  <2>1. PICK frame \in Frame : frame = frames[d]
    BY <1>7
  <2>2. /\ DOMAIN Inserted(frame, ns) = DOMAIN frame \cup ToSet(ns)
        /\ \A name \in DOMAIN frame : Inserted(frame, ns)[name] = frame[name]
        /\ \A name \in ToSet(ns) \ DOMAIN frame :
             Inserted(frame, ns)[name] = created + FirstPlace(ns, name)
    BY <1>7, InsertedIs
  <2> QED BY <2>1, <2>2, <1>2, <1>6
<1>9. /\ \A j \in 1 .. n : old[j] \in ToSet(old)
      /\ \A j \in 1 .. Len(ns) : ns[j] \in ToSet(ns) /\ ns[j] \notin ToSet(old)
  <2>1. \A j \in 1 .. n : old[j] \in ToSet(old)
    BY <1>3 DEF ToSet
  <2>2. \A j \in 1 .. Len(ns) : ns[j] \in ToSet(ns)
    BY DEF ToSet
  <2> QED BY <2>1, <2>2, <1>2, <1>6
<1>10. ASSUME NEW j \in 1 .. Len(new)
       PROVE  j \in 1 .. n \/ \E k \in 1 .. Len(ns) : j = n + k
  <2>1. CASE j > n
    <3>1. j - n \in 1 .. Len(ns) /\ j = n + (j - n)
      BY <2>1, <1>1, <1>5, <1>10
    <3> QED BY <3>1
  <2>2. CASE ~(j > n)
    BY <2>2, <1>1, <1>5, <1>10
  <2> QED BY <2>1, <2>2
<1>11. ToSet(new) = ToSet(old) \cup ToSet(ns)
  <2>1. ASSUME NEW x \in ToSet(new)  PROVE x \in ToSet(old) \cup ToSet(ns)
    <3>1. PICK j \in 1 .. Len(new) : x = new[j]
      BY <2>1, <1>5 DEF ToSet
    <3> QED BY <3>1, <1>5, <1>9, <1>10
  <2>2. ASSUME NEW x \in ToSet(old)  PROVE x \in ToSet(new)
    <3>1. PICK j \in 1 .. n : x = old[j]
      BY <2>2, <1>3 DEF ToSet
    <3>2. j \in 1 .. Len(new)
      BY <1>1, <1>5
    <3> QED BY <3>1, <3>2, <1>5 DEF ToSet
  <2>3. ASSUME NEW x \in ToSet(ns)  PROVE x \in ToSet(new)
    <3>1. PICK j \in 1 .. Len(ns) : x = ns[j]
      BY <2>3 DEF ToSet
    <3>2. n + j \in 1 .. Len(new)
      BY <1>1, <1>5
    <3> QED BY <3>1, <3>2, <1>5 DEF ToSet
  <2> QED BY <2>1, <2>2, <2>3
<1>12. IsInjective(new)
  <2>1. \A i, j \in 1 .. n : old[i] = old[j] => i = j
    BY <1>3, <1>6 DEF IsInjective
  <2>2. \A i, j \in 1 .. Len(ns) : ns[i] = ns[j] => i = j
    BY <1>2 DEF IsInjective
  <2>3. ASSUME NEW i \in 1 .. Len(new), NEW j \in 1 .. Len(new), new[i] = new[j]
        PROVE  i = j
    <3>1. CASE i \in 1 .. n /\ j \in 1 .. n
      BY <2>1, <2>3, <3>1, <1>5
    <3>2. CASE i \in 1 .. n /\ \E k \in 1 .. Len(ns) : j = n + k
      BY <2>3, <3>2, <1>5, <1>9
    <3>3. CASE (\E k \in 1 .. Len(ns) : i = n + k) /\ j \in 1 .. n
      BY <2>3, <3>3, <1>5, <1>9
    <3>4. CASE (\E k \in 1 .. Len(ns) : i = n + k) /\ (\E k \in 1 .. Len(ns) : j = n + k)
      BY <2>2, <2>3, <3>4, <1>5
    <3> QED BY <2>3, <3>1, <3>2, <3>3, <3>4, <1>10
  <2> QED BY <2>3, <1>5 DEF IsInjective
<1>13. ASSUME NEW j \in 1 .. Len(new)  PROVE frames'[d][new[j]] = Own(d, j)'
  <2>1. CASE j \in 1 .. n
    BY <2>1, <1>5, <1>6, <1>8, <1>9
  <2>2. ASSUME NEW k \in 1 .. Len(ns), j = n + k
        PROVE  frames'[d][new[j]] = Own(d, j)'
    <3>1. frames'[d][ns[k]] = created + k
      BY <2>2, <1>2, <1>8, <1>9, FirstIsOnly
    <3>2. Own(d, n + k)' = created + k
      BY <2>2
    <3> QED BY <2>2, <3>1, <3>2, <1>5
  <2> QED BY <2>1, <2>2, <1>10
<1> QED BY <1>1, <1>2, <1>4, <1>5, <1>8, <1>11, <1>12, <1>13 DEF FrameFits

LEMMA AddVariablesStep ==
  ASSUME ScopesInv, NEW ns \in Seq(VariableNames), AddVariables(ns)
  PROVE  ScopesInv'
<1> USE DEF ScopesInv
<1> PICK d : d = Depth
  OBVIOUS
<1> PICK n : n = Declared(d)
  OBVIOUS
<1> PICK m : m = Len(ns)
  OBVIOUS
<1>1. /\ d \in Nat \ {0} /\ n \in Nat /\ m \in Nat
      /\ open' \in Seq(OpenScopes) /\ Depth' = d
      /\ \A i \in 1 .. d : i # d => open'[i] = open[i]
      /\ open'[d].kind = open[d].kind /\ open'[d].number = open[d].number
      /\ open'[d].from = open[d].from /\ open'[d].names = open[d].names \o ns
      /\ Declared(d)' = n + m
  BY NamesAdded
<1>2. /\ quantified' \in Seq(Nat) /\ parameters' \in Seq(Nat)
      /\ Len(quantified) <= Len(quantified')
      /\ \A i \in 1 .. Len(quantified) : quantified'[i] = quantified[i]
      /\ open[d].kind = "action" => UNCHANGED quantified /\ Len(parameters') = n + m
      /\ open[d].kind # "action" =>
           UNCHANGED parameters /\ Len(quantified') = Len(quantified) + m
      /\ \A i \in 1 .. d : \A j \in 1 .. Declared(i) : Own(i, j)' = Own(i, j)
      /\ \A j \in 1 .. m : Own(d, n + j)' = created + j
  BY VariablesAdded
<1>3. /\ created \in Nat /\ created' = created + m /\ d \in 1 .. d /\ d \in 1 .. Depth
      /\ Len(frames) = d /\ frames' = [frames EXCEPT ![d] = Inserted(@, ns)]
      /\ UNCHANGED <<text, closed, uses, count>>
  BY <1>1 DEF AddVariables, TypeOK, Nested
<1>4. /\ frames' \in Seq(Frame) /\ Len(frames') = d
      /\ \A i \in 1 .. d : i # d => frames'[i] = frames[i]
  <2>1. frames[d] \in Frame /\ frames \in Seq(Frame)
    BY <1>3 DEF TypeOK
  <2>2. Inserted(frames[d], ns) \in Frame
    BY <2>1, <1>3, InsertedIs
  <2> QED BY <2>1, <2>2, <1>3
<1>5. \A i \in 1 .. d :
        /\ open'[i].kind = open[i].kind /\ open'[i].number = open[i].number
        /\ open'[i].from = open[i].from
  BY <1>1
<1>6. \A i \in 1 .. d : i # d => open'[i].names = open[i].names /\ Declared(i)' = Declared(i)
  BY <1>1 DEF Declared
<1>7. TypeOK'
  <2>1. outcome' \in {"good", "error", "undefined"}
    BY DEF AddVariables, TypeOK
  <2> QED BY <2>1, <1>1, <1>2, <1>3, <1>4 DEF TypeOK
<1>8. Numbered'
  <2>1. \A i \in 1 .. d : open'[i].number \in 1 .. count.scopes
    BY <1>5 DEF Numbered
  <2>2. \A i, j \in 1 .. d : open'[i].number = open'[j].number => i = j
    BY <1>5 DEF Numbered
  <2>3. \A x \in closed : /\ x.number \in 1 .. count.scopes
                          /\ \A i \in 1 .. d : x.number # open'[i].number
    BY <1>5 DEF Numbered
  <2>4. \A x, y \in closed : x.number = y.number => x = y
    BY DEF Numbered
  <2>5. closed' = closed /\ count' = count /\ Depth' = d
    BY <1>1, <1>3
  <2> QED BY <2>1, <2>2, <2>3, <2>4, <2>5 DEF Numbered
(* A declaration is an old one, or one of the new names'.                  *)
<1>9. ASSUME NEW i \in 1 .. d, NEW j \in 1 .. Declared(i)'
      PROVE  \/ j \in 1 .. Declared(i) /\ Own(i, j)' = Own(i, j) /\ Own(i, j) \in 1 .. created
             \/ i = d /\ \E k \in 1 .. m : j = n + k /\ Own(i, j)' = created + k
  <2>1. CASE j \in 1 .. Declared(i)
    BY <2>1, <1>2, <1>9 DEF Nested, Part
  <2>2. CASE j \notin 1 .. Declared(i)
    <3>1. i = d
      BY <2>2, <1>6, <1>9
    <3>2. j \in 1 .. n + m /\ j \notin 1 .. n
      BY <2>2, <3>1, <1>1, <1>9
    <3>3. j - n \in 1 .. m /\ j = n + (j - n)
      BY <3>2, <1>1
    <3> QED BY <3>1, <3>3, <1>2
  <2> QED BY <2>1, <2>2
<1>10. Apart'
  <2>1. ASSUME NEW i \in 1 .. d, NEW k \in 1 .. d,
               NEW j \in 1 .. Declared(i)', NEW l \in 1 .. Declared(k)',
               Own(i, j)' = Own(k, l)'
        PROVE  i = k /\ j = l
    <3>1. CASE /\ j \in 1 .. Declared(i) /\ Own(i, j)' = Own(i, j) /\ Own(i, j) \in 1 .. created
               /\ l \in 1 .. Declared(k) /\ Own(k, l)' = Own(k, l)
      <4>1. Own(i, j) = Own(k, l)
        BY <2>1, <3>1
      <4>2. \A y \in 1 .. Declared(k) : Own(i, j) = Own(k, y) => i = k /\ j = y
        BY <3>1 DEF Apart
      <4> QED BY <3>1, <4>1, <4>2
    <3>2. CASE /\ j \in 1 .. Declared(i) /\ Own(i, j)' = Own(i, j) /\ Own(i, j) \in 1 .. created
               /\ \E x \in 1 .. m : Own(k, l)' = created + x
      <4>1. PICK x \in 1 .. m : Own(k, l)' = created + x
        BY <3>2
      <4>2. created + x \in 1 .. created
        BY <2>1, <3>2, <4>1
      <4> QED BY <4>2, <1>1, <1>3
    <3>3. CASE /\ l \in 1 .. Declared(k) /\ Own(k, l)' = Own(k, l) /\ Own(k, l) \in 1 .. created
               /\ \E x \in 1 .. m : Own(i, j)' = created + x
      <4>1. PICK x \in 1 .. m : Own(i, j)' = created + x
        BY <3>3
      <4>2. created + x \in 1 .. created
        BY <2>1, <3>3, <4>1
      <4> QED BY <4>2, <1>1, <1>3
    <3>4. CASE /\ i = d /\ \E x \in 1 .. m : j = n + x /\ Own(i, j)' = created + x
               /\ k = d /\ \E x \in 1 .. m : l = n + x /\ Own(k, l)' = created + x
      <4>1. PICK x \in 1 .. m : j = n + x /\ Own(i, j)' = created + x
        BY <3>4
      <4>2. PICK y \in 1 .. m : l = n + y /\ Own(k, l)' = created + y
        BY <3>4
      <4>3. created + x = created + y
        BY <2>1, <4>1, <4>2
      <4>4. x = y
        BY <4>3, <1>1, <1>3
      <4> QED BY <3>4, <4>1, <4>2, <4>4
    <3> QED BY <2>1, <3>1, <3>2, <3>3, <3>4, <1>9
  <2>2. ASSUME NEW x \in closed, NEW j \in DOMAIN x.parameters
        PROVE  /\ x.parameters[j] \in 1 .. created + m
               /\ \A k \in 1 .. d : \A l \in 1 .. Declared(k)' : x.parameters[j] # Own(k, l)'
    <3>1. /\ x.parameters[j] \in 1 .. created
          /\ \A k \in 1 .. d : \A l \in 1 .. Declared(k) : x.parameters[j] # Own(k, l)
      BY <2>2 DEF Apart
    <3>2. \A k \in 1 .. m : created + k \notin 1 .. created
      BY <1>1, <1>3
    <3>3. x.parameters[j] \in 1 .. created + m
      BY <3>1, <1>1, <1>3
    <3> QED BY <3>1, <3>2, <3>3, <1>9
  <2> QED BY <2>1, <2>2, <1>1, <1>3 DEF Apart
<1>11. Fits'
  <2> SUFFICES ASSUME outcome' = "good"
               PROVE  (\A i \in 1 .. d : FrameFits(i)') /\ (\A u \in uses : UseFits(u)')
    BY <1>1, <1>3 DEF Fits
  <2>1. outcome = "good" /\ FrameFits(d)'
    BY <1>2, <1>3, FrameExtended
  <2>2. ASSUME NEW i \in 1 .. d, i # d  PROVE FrameFits(i)'
    <3>1. /\ frames'[i] = frames[i] /\ open'[i].names = open[i].names
          /\ Declared(i)' = Declared(i)
          /\ \A j \in 1 .. Declared(i) : Own(i, j)' = Own(i, j)
      BY <2>2, <1>2, <1>4, <1>6
    <3>2. FrameFits(i)
      BY <2>1, <2>2 DEF Fits
    <3> QED BY <3>1, <3>2 DEF FrameFits
  <2>3. ASSUME NEW u \in uses  PROVE UseFits(u)'
    <3>1. UseFits(u)
      BY <2>1, <2>3 DEF Fits
    <3>2. ASSUME NEW i \in 1 .. d, u.number = open'[i].number
          PROVE  u.place \in 1 .. Declared(i)' /\ u.variable = Own(i, u.place)'
      <4>1. u.place \in 1 .. Declared(i) /\ u.variable = Own(i, u.place)
        BY <3>1, <3>2, <1>5 DEF UseFits
      <4>2. u.place \in 1 .. Declared(i)'
        BY <4>1, <1>1, <1>6
      <4> QED BY <4>1, <4>2, <1>2
    <3> QED BY <3>1, <3>2, <1>1, <1>3 DEF UseFits
  <2> QED BY <2>1, <2>2, <2>3
<1>12. ASSUME NEW i \in 1 .. d  PROVE i # d => End(i)' = End(i)
  BY <1>1, <1>5 DEF End
<1>13. Len(quantified) \in Nat /\ Len(quantified') \in Nat
  BY <1>7, Empty DEF TypeOK
<1>14. ASSUME NEW i \in 1 .. d  PROVE Part(i)'
  <2>1. /\ open[i].from \in Nat /\ open[i].from <= Len(quantified)
        /\ i = 1 => open[i].from = 0
        /\ open[i].kind = "action" => End(i) = 0 /\ Len(parameters) = Declared(i)
        /\ open[i].kind # "action" =>
             /\ End(i) = open[i].from + 1 + Declared(i)
             /\ quantified[open[i].from + 1] = Marker
    BY Bounded DEF Nested, Part
  <2>2. open'[i].from <= Len(quantified')
    BY <2>1, <1>2, <1>5, <1>13
  <2>3. ASSUME NEW j \in 1 .. Declared(i)'  PROVE Own(i, j)' \in 1 .. created'
    <3>1. \A x \in 1 .. created : x \in 1 .. created + m
      BY <1>1, <1>3
    <3>2. \A k \in 1 .. m : created + k \in 1 .. created + m
      BY <1>1, <1>3
    <3>3. Own(i, j)' \in 1 .. created + m
      BY <2>3, <3>1, <3>2, <1>9
    <3> QED BY <3>3, <1>3
  <2>4. open[i].kind # "action" => quantified'[open[i].from + 1] = Marker
    BY <2>1, <1>2, Inside
  <2>5. CASE i # d
    <3>1. End(i)' = End(i) /\ Declared(i)' = Declared(i)
      BY <2>5, <1>6, <1>12
    <3>2. open[i].kind = "action" => UNCHANGED parameters
      <4>1. open[i].kind = "action" => i = 1 /\ open[d].kind # "action"
        BY <2>5, <1>3 DEF Nested
      <4> QED BY <4>1, <1>2
    <3> QED BY <2>1, <2>2, <2>3, <2>4, <3>1, <3>2, <1>5 DEF Part
  <2>6. CASE i = d
    <3>1. End(d) = Len(quantified) /\ End(d)' = Len(quantified')
      BY <1>1, <1>3 DEF End
    <3>2. open[d].kind = "action" => End(d)' = 0 /\ Len(parameters') = Declared(d)'
      BY <2>1, <2>6, <3>1, <1>1, <1>2
    <3>3. open[d].kind # "action" => End(d)' = open[d].from + 1 + Declared(d)'
      <4>1. ASSUME open[d].kind # "action"
            PROVE  End(d)' = open[d].from + 1 + Declared(d)'
        <5>1. PICK f \in Nat : f = open[d].from
          BY <2>1, <2>6
        <5>2. End(d)' = f + 1 + n + m
          BY <4>1, <5>1, <2>1, <2>6, <3>1, <1>2
        <5>3. f + 1 + n + m = f + 1 + (n + m)
          BY <1>1
        <5> QED BY <5>1, <5>2, <5>3, <1>1
      <4> QED BY <4>1
    <3> QED BY <2>1, <2>2, <2>3, <2>4, <2>6, <3>2, <3>3, <1>5 DEF Part
  <2> QED BY <2>5, <2>6
<1>15. ASSUME NEW i \in 1 .. d
       PROVE  /\ (open[i].kind = "action" <=> (i = 1 /\ text = "action"))'
              /\ (\A j \in i + 1 .. Depth : End(i) <= open[j].from)'
  <2>1. (open[i].kind = "action" <=> (i = 1 /\ text = "action"))'
    BY <1>3, <1>5 DEF Nested
  <2>2. ASSUME NEW j \in i + 1 .. d  PROVE End(i)' <= open'[j].from
    <3>1. i # d /\ j \in 1 .. d
      BY <2>2, <1>1
    <3> QED BY <2>2, <3>1, <1>5, <1>12 DEF Nested
  <2> QED BY <2>1, <2>2, <1>1
<1>16. Nested'
  <2>1. open' # <<>>
    <3>1. Len(open') = d /\ Len(<<>>) = 0
      BY <1>1 DEF Depth
    <3> QED BY <3>1, <1>1
  <2>2. text # "file"
    <3>1. open # <<>>
      BY DEF AddVariables
    <3> QED BY <3>1 DEF Nested
  <2> QED BY <2>1, <2>2, <1>1, <1>3, <1>4, <1>14, <1>15 DEF Nested
<1> QED BY <1>7, <1>8, <1>10, <1>11, <1>16

(* A use leaves all scopes as they are; more variables do no harm.         *)
LEMMA Counted ==
  ASSUME TypeOK, Nested, Numbered, Apart, CountUse,
         UNCHANGED <<text, quantified, parameters, closed>>,
         created' \in Nat, created <= created', Len(frames') = Len(frames),
         NEW d, d = Depth
  PROVE  /\ d \in Nat /\ Depth' = d /\ open' \in Seq(OpenScopes)
         /\ \A i \in 1 .. d : /\ SameHead(i) /\ Declared(i)' = Declared(i)
                              /\ \A j \in 1 .. Declared(i) : Own(i, j)' = Own(i, j)
         /\ count' \in [scopes : Nat, uses : Nat] /\ count'.scopes = count.scopes
         /\ Nested' /\ Numbered' /\ Apart'
<1>1. /\ open' \in Seq(OpenScopes) /\ Len(open') = Depth
      /\ \A i \in 1 .. Depth : SameHead(i)
  <2>1. PICK list : /\ open' = list
                    /\ list = IF open = <<>> THEN open
                              ELSE [open EXCEPT ![Len(open)].body = TRUE]
    BY DEF CountUse
  <2>2. /\ list \in Seq(OpenScopes) /\ Len(list) = Depth
        /\ \A i \in 1 .. Depth :
             /\ list[i].kind = open[i].kind /\ list[i].number = open[i].number
             /\ list[i].from = open[i].from /\ list[i].names = open[i].names
    BY <2>1, BodyStarted
  <2> QED BY <2>1, <2>2 DEF SameHead
<1>2. d \in Nat /\ Depth' = d
  BY <1>1, Empty DEF TypeOK, Depth
<1>3. \A i \in 1 .. d :
        /\ open'[i].kind = open[i].kind /\ open'[i].number = open[i].number
        /\ open'[i].from = open[i].from /\ open'[i].names = open[i].names
        /\ Declared(i)' = Declared(i) /\ End(i)' = End(i)
  BY <1>1, <1>2 DEF SameHead, Declared, End
<1>4. \A i \in 1 .. d : \A j \in 1 .. Declared(i) : Own(i, j)' = Own(i, j)
  BY <1>3 DEF Own
<1>5. count' \in [scopes : Nat, uses : Nat] /\ count'.scopes = count.scopes
  <2>1. count' = [count EXCEPT !.uses = @ + 1] /\ count \in [scopes : Nat, uses : Nat]
    BY DEF CountUse, TypeOK
  <2> QED BY <2>1
<1>6. created \in Nat /\ \A x \in 1 .. created : x \in 1 .. created'
  BY DEF TypeOK
<1>7. Numbered'
  <2>1. \A i \in 1 .. d : open'[i].number \in 1 .. count'.scopes
    BY <1>3, <1>5 DEF Numbered
  <2>2. \A i, j \in 1 .. d : open'[i].number = open'[j].number => i = j
    BY <1>3 DEF Numbered
  <2>3. \A x \in closed : /\ x.number \in 1 .. count'.scopes
                          /\ \A i \in 1 .. d : x.number # open'[i].number
    BY <1>3, <1>5 DEF Numbered
  <2>4. \A x, y \in closed : x.number = y.number => x = y
    BY DEF Numbered
  <2> QED BY <2>1, <2>2, <2>3, <2>4, <1>2 DEF Numbered
<1>8. Apart'
  <2>1. \A i, k \in 1 .. d : \A j \in 1 .. Declared(i)', l \in 1 .. Declared(k)' :
          Own(i, j)' = Own(k, l)' => i = k /\ j = l
    BY <1>3, <1>4 DEF Apart
  <2>2. \A x \in closed : \A j \in DOMAIN x.parameters :
          /\ x.parameters[j] \in 1 .. created'
          /\ \A k \in 1 .. d : \A l \in 1 .. Declared(k)' : x.parameters[j] # Own(k, l)'
    BY <1>3, <1>4, <1>6 DEF Apart
  <2>3. closed' = closed
    OBVIOUS
  <2> QED BY <2>1, <2>2, <2>3, <1>2 DEF Apart
<1>9. ASSUME NEW i \in 1 .. d
      PROVE  /\ (open[i].kind = "action" <=> (i = 1 /\ text = "action"))'
             /\ Part(i)'
             /\ (\A j \in i + 1 .. Depth : End(i) <= open[j].from)'
  <2>1. (open[i].kind = "action" <=> (i = 1 /\ text = "action"))'
    BY <1>3 DEF Nested
  <2>2. Part(i)
    BY DEF Nested
  <2>3. Part(i)'
    <3>1. \A j \in 1 .. Declared(i)' : Own(i, j)' \in 1 .. created'
      BY <2>2, <1>3, <1>4, <1>6 DEF Part
    <3> QED BY <2>2, <3>1, <1>3 DEF Part
  <2>4. \A j \in i + 1 .. d : j \in 1 .. d /\ End(i) <= open[j].from
    BY <1>2 DEF Nested
  <2> QED BY <2>1, <2>3, <2>4, <1>2, <1>3
<1>10. Nested'
  <2>1. open' = <<>> <=> open = <<>>
    BY <1>1, Empty DEF TypeOK, Depth
  <2>2. Len(frames') = d
    BY DEF Nested
  <2>3. text' = text /\ quantified' = quantified
    OBVIOUS
  <2> QED BY <2>1, <2>2, <2>3, <1>2, <1>9 DEF Nested
<1> QED BY <1>1, <1>2, <1>3, <1>4, <1>5, <1>7, <1>8, <1>10

(* Without an error the frame searched and the scope meant are the same.   *)
LEMMA UseIsRight ==
  ASSUME TypeOK, Nested, Numbered, Fits, outcome = "good",
         NEW name \in VariableNames, Declaring(name) # {}
  PROVE  UseFits(Use(name))
<1> PICK d : d = Depth
  OBVIOUS
<1>1. d \in Nat /\ d = Len(open) /\ d = Len(frames) /\ d = Depth
  BY Empty DEF TypeOK, Nested, Depth
<1>2. \A i \in 1 .. d :
        /\ DOMAIN frames[i] = ToSet(open[i].names)
        /\ \A j \in 1 .. Declared(i) : frames[i][open[i].names[j]] = Own(i, j)
  BY DEF Fits, FrameFits
<1>3. Knowing(name) = Declaring(name)
  BY <1>1, <1>2 DEF Knowing, Declaring
<1>4. Declaring(name) \subseteq 1 .. d
  BY <1>1 DEF Declaring
<1>5. PICK t : t = CHOOSE i \in Declaring(name) : \A j \in Declaring(name) : j <= i
  OBVIOUS
<1>6. t \in Declaring(name)
  <2>1. \E i \in Declaring(name) : \A j \in Declaring(name) : j <= i
    BY <1>1, <1>4, Greatest
  <2> QED BY <2>1, <1>5
<1>7. Find(name) = frames[t][name] /\ Innermost(name) = open[t]
  BY <1>3, <1>5 DEF Find, Innermost
<1>8. t \in 1 .. d /\ name \in ToSet(open[t].names)
  BY <1>4, <1>6 DEF Declaring
<1>9. PICK p : p = FirstPlace(open[t].names, name)
  OBVIOUS
<1>10. p \in 1 .. Declared(t) /\ open[t].names[p] = name
  <2>1. open[t].names \in Seq(VariableNames)
    BY <1>8, Bounded
  <2> QED BY <2>1, <1>8, <1>9, FirstIsThere DEF Declared
<1>11. PICK u : u = Use(name)
  OBVIOUS
<1>12. u.number = open[t].number /\ u.place = p /\ u.variable = Own(t, p)
  BY <1>2, <1>7, <1>8, <1>9, <1>10, <1>11 DEF Use
<1>13. u.number \in 1 .. count.scopes
  BY <1>8, <1>12 DEF Numbered
<1>14. ASSUME NEW i \in 1 .. d, u.number = open[i].number  PROVE i = t
  BY <1>8, <1>12, <1>14 DEF Numbered
<1>15. \A x \in closed : u.number # x.number
  BY <1>8, <1>12 DEF Numbered
<1> QED BY <1>10, <1>11, <1>12, <1>13, <1>14, <1>15 DEF UseFits

LEMMA MakeTermBoundStep ==
  ASSUME ScopesInv, NEW name \in VariableNames, MakeTermBound(name)
  PROVE  ScopesInv'
<1> USE DEF ScopesInv
<1> PICK d : d = Depth
  OBVIOUS
<1>1. /\ CountUse
      /\ uses' = IF Declaring(name) = {} THEN uses ELSE uses \cup {Use(name)}
      /\ UNCHANGED <<text, frames, quantified, parameters, created, outcome, closed>>
      /\ created \in Nat /\ created' \in Nat /\ created <= created'
      /\ Len(frames') = Len(frames)
  BY DEF MakeTermBound, TypeOK
<1>2. /\ d \in Nat /\ Depth' = d /\ open' \in Seq(OpenScopes)
      /\ \A i \in 1 .. d : /\ SameHead(i) /\ Declared(i)' = Declared(i)
                           /\ \A j \in 1 .. Declared(i) : Own(i, j)' = Own(i, j)
      /\ count' \in [scopes : Nat, uses : Nat] /\ count'.scopes = count.scopes
      /\ Nested' /\ Numbered' /\ Apart'
  BY <1>1, Counted
<1>3. TypeOK'
  BY <1>1, <1>2 DEF TypeOK
<1>4. Fits'
  <2> SUFFICES ASSUME outcome = "good"
               PROVE  (\A i \in 1 .. d : FrameFits(i)') /\ (\A u \in uses' : UseFits(u)')
    BY <1>1, <1>2 DEF Fits
  <2>1. ASSUME NEW i \in 1 .. d  PROVE FrameFits(i)'
    <3>1. FrameFits(i)
      BY DEF Fits
    <3>2. open'[i].names = open[i].names
      BY <1>2 DEF SameHead
    <3> QED BY <3>1, <3>2, <1>1, <1>2 DEF FrameFits
  <2>2. ASSUME NEW u \in uses'  PROVE UseFits(u)
    <3>1. u \in uses \/ (Declaring(name) # {} /\ u = Use(name))
      BY <2>2, <1>1
    <3> QED BY <3>1, UseIsRight DEF Fits
  <2>3. ASSUME NEW u, UseFits(u)  PROVE UseFits(u)'
    <3>1. ASSUME NEW i \in 1 .. d, u.number = open'[i].number
          PROVE  u.place \in 1 .. Declared(i)' /\ u.variable = Own(i, u.place)'
      <4>1. open'[i].number = open[i].number
        BY <1>2 DEF SameHead
      <4>2. u.place \in 1 .. Declared(i) /\ u.variable = Own(i, u.place)
        BY <2>3, <3>1, <4>1 DEF UseFits
      <4> QED BY <4>2, <1>2
    <3> QED BY <2>3, <3>1, <1>1, <1>2 DEF UseFits
  <2> QED BY <2>1, <2>2, <2>3
<1> QED BY <1>2, <1>3, <1>4

LEMMA MakeTermFreeStep ==
  ASSUME ScopesInv, NEW name \in VariableNames, MakeTermFree(name)
  PROVE  ScopesInv'
<1> USE DEF ScopesInv
<1> PICK d : d = Depth
  OBVIOUS
<1>1. /\ CountUse /\ created \in Nat /\ created' = created + 1
      /\ UNCHANGED <<text, quantified, parameters, closed>>
      /\ outcome' \in {"error", "undefined"}
  BY DEF MakeTermFree, TypeOK
<1>2. frames' \in Seq(Frame) /\ Len(frames') = Len(frames)
  <2>1. CASE frames = <<>>
    BY <2>1 DEF MakeTermFree, TypeOK
  <2>2. CASE frames # <<>>
    <3>1. /\ Len(frames) \in 1 .. Len(frames) /\ frames[Len(frames)] \in Frame
          /\ frames \in Seq(Frame)
      BY <2>2, Empty DEF TypeOK
    <3>2. PICK f : f = Inserted(frames[Len(frames)], <<name>>)
      OBVIOUS
    <3>3. f \in Frame
      <4>1. <<name>> \in Seq(VariableNames)
        OBVIOUS
      <4> QED BY <3>1, <3>2, <4>1, <1>1, InsertedIs
    <3>4. frames' = [frames EXCEPT ![Len(frames)] = f]
      BY <2>2, <3>2 DEF MakeTermFree
    <3> QED BY <3>1, <3>3, <3>4
  <2> QED BY <2>1, <2>2
<1>3. created' \in Nat /\ created <= created'
  BY <1>1
<1>4. /\ open' \in Seq(OpenScopes) /\ count' \in [scopes : Nat, uses : Nat]
      /\ Nested' /\ Numbered' /\ Apart'
  BY <1>1, <1>2, <1>3, Counted
<1>5. TypeOK'
  BY <1>1, <1>2, <1>3, <1>4 DEF TypeOK
<1>6. Fits'
  BY <1>1 DEF Fits
<1> QED BY <1>4, <1>5, <1>6

-----------------------------------------------------------------------------
(* In every reachable state the two stacks are the open scopes of the text,
   no two declarations share a variable, and without an error every name
   leads to the variable of the scope it was written in. *)
THEOREM Inductive == ScopeSpec => []ScopesInv
<1>1. ScopeInit => ScopesInv
  <2> SUFFICES ASSUME ScopeInit PROVE ScopesInv
    OBVIOUS
  <2>1. TypeOK
    BY DEF ScopeInit, TypeOK
  <2>2. Depth = 0 /\ closed = {} /\ uses = {}
    BY DEF ScopeInit, Depth
  <2>3. Nested
    BY <2>2 DEF ScopeInit, Nested
  <2> QED BY <2>1, <2>2, <2>3 DEF ScopesInv, Numbered, Apart, Fits
<1>2. ScopesInv /\ [ScopeNext]_scopeVars => ScopesInv'
  <2> SUFFICES ASSUME ScopesInv, [ScopeNext]_scopeVars PROVE ScopesInv'
    OBVIOUS
  <2>1. CASE MakeAction
    BY <2>1, MakeActionStep
  <2>2. CASE AddAction
    BY <2>2, AddActionStep
  <2>3. CASE StartGoal \/ EndGoal
    BY <2>3, GoalStep
  <2>4. CASE \E kind \in Quantifiers : PrepareQuantifier(kind) \/ MakeQuantified(kind)
    BY <2>4, PrepareQuantifierStep, MakeQuantifiedStep
  <2>5. CASE \E m, n \in VariableNames : AddVariables(<<m>>) \/ AddVariables(<<m, n>>)
    <3>1. \A m, n \in VariableNames :
            <<m>> \in Seq(VariableNames) /\ <<m, n>> \in Seq(VariableNames)
      OBVIOUS
    <3> QED BY <2>5, <3>1, AddVariablesStep
  <2>6. CASE \E name \in VariableNames : MakeTermBound(name) \/ MakeTermFree(name)
    BY <2>6, MakeTermBoundStep, MakeTermFreeStep
  <2>7. CASE UNCHANGED scopeVars
    BY <2>7 DEF scopeVars, ScopesInv, TypeOK, Nested, Numbered, Apart, Fits, FrameFits,
                UseFits, Part, End, Own, Declared, Depth
  <2> QED BY <2>1, <2>2, <2>3, <2>4, <2>5, <2>6, <2>7 DEF ScopeNext
<1> QED BY <1>1, <1>2, PTL DEF ScopeSpec

(* Names are scoped as the text nests (parser.yy:1310-1406), for any names,
   any nesting of quantifiers and effects, and any number of actions and
   goals: every use is bound by the innermost scope that declares the name,
   no two scopes share a parameter, and the stacks are empty outside. *)
THEOREM NamesMeanWhatIsWritten == ScopeSpec => []ScopesAreLexical
<1>1. ScopesInv => ScopesAreLexical
  <2> SUFFICES ASSUME ScopesInv PROVE ScopesAreLexical
    OBVIOUS
  <2>1. BoundWhereWritten
    BY DEF ScopesInv, Fits, UseFits, BoundWhereWritten
  <2>2. ParametersAreOwn
    BY DEF ScopesInv, Apart, ParametersAreOwn
  <2>3. NothingIsLeft
    <3> SUFFICES ASSUME open = <<>> PROVE frames = <<>> /\ quantified = <<>>
      BY DEF NothingIsLeft
    <3>1. Len(frames) = 0 /\ quantified = <<>>
      BY DEF ScopesInv, Nested, Depth
    <3> QED BY <3>1, Empty DEF ScopesInv, TypeOK
  <2> QED BY <2>1, <2>2, <2>3 DEF ScopesAreLexical
<1> QED BY <1>1, Inductive, PTL
=============================================================================
