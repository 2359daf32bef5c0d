------------------------------ MODULE XmlProofs ------------------------------
(***************************************************************************)
(* Theorems about the XML reader (modules XmlReader and XmlMessages), for  *)
(* messages of any shape and streams of any length.                        *)
(***************************************************************************)
EXTENDS XmlMessages, SequenceTheorems, FiniteSetTheorems, WellFoundedInduction, TLAPS

(***************************************************************************)
(* The height of the stack, whatever the threads do to each other.         *)
(***************************************************************************)
IsSequence(s) == \E S : s \in Seq(S)

(* Each reader's stack is a sequence of as many nodes as depth says.       *)
Height(r) ==
  /\ IsSequence(stack[r]) /\ depth[r] \in Nat
  /\ where[r] # "ended" => Len(stack[r]) = depth[r]

Arrays ==
  /\ where = [r \in Readers |-> where[r]]
  /\ mode = [r \in Readers |-> mode[r]]
  /\ res = [r \in Readers |-> res[r]]
  /\ stack = [r \in Readers |-> stack[r]]
  /\ top = [r \in Readers |-> top[r]]
  /\ depth = [r \in Readers |-> depth[r]]
  /\ result = [r \in Readers |-> result[r]]
  /\ socket = [r \in Readers |-> socket[r]]

HeightInv == Arrays /\ \A r \in Readers : Height(r)

LEMMA ArraysKept ==
  ASSUME Arrays, NEW r \in Readers, Step(r)
  PROVE  Arrays'
  BY DEF Arrays, Step, CallReadNode, CopyLastChar, TestLastChar, ReadSymbol, ReadEnd, ParseToken,
         ReturnNode, NextToken, PushText, DoNode, RejectTag, CloseTag, CloseNothing, EmptyTag, OpenTag

LEMMA SequenceLength ==
  ASSUME NEW s, IsSequence(s)
  PROVE  Len(s) \in Nat /\ (s = <<>> <=> Len(s) = 0)
<1>1. PICK S : s \in Seq(S)
  BY DEF IsSequence
<1>2. Len(<<>>) = 0 /\ (s # <<>> => Len(s) \in Nat \ {0})
  BY <1>1, EmptySeq
<1> QED BY <1>1, <1>2

LEMMA SequencePushed ==
  ASSUME NEW s, IsSequence(s), NEW x
  PROVE  IsSequence(Pushed(s, x)) /\ Len(Pushed(s, x)) = Len(s) + 1
<1>1. PICK S : s \in Seq(S)
  BY DEF IsSequence
<1> DEFINE T == S \cup {x}
<1>2. s \in Seq(T)
  BY <1>1, SeqMonotonic
<1>3. x \in T
  OBVIOUS
<1> HIDE DEF T
<1>4. Append(s, x) \in Seq(T) /\ Len(Append(s, x)) = Len(s) + 1
  BY <1>2, <1>3
<1> QED BY <1>4 DEF IsSequence, Pushed

LEMMA SequencePopped ==
  ASSUME NEW s, IsSequence(s), s # <<>>
  PROVE  IsSequence(Popped(s)) /\ Len(Popped(s)) = Len(s) - 1
<1>1. PICK S : s \in Seq(S)
  BY DEF IsSequence
<1>2. Len(s) \in Nat \ {0}
  BY SequenceLength
<1>3. CASE Len(s) = 1
  <2>1. Popped(s) = <<>>
    BY <1>3 DEF Popped
  <2>2. <<>> \in Seq(S) /\ Len(<<>>) = 0
    BY EmptySeq
  <2> QED BY <1>3, <2>1, <2>2 DEF IsSequence
<1>4. CASE Len(s) # 1
  <2>0. Len(s) - 2 \in Int /\ (1 <= Len(s) - 2 \/ Len(s) - 2 = 0)
    <3>1. \A n \in Nat \ {0} : n # 1 => n - 2 \in Int /\ (1 <= n - 2 \/ n - 2 = 0)
      OBVIOUS
    <3> QED BY <1>2, <1>4, <3>1, Zenon
  <2> DEFINE front == SubSeq(s, 1, Len(s) - 2)
             parent == s[Len(s) - 1]
             full == [parent EXCEPT !.children = Append(@, Last(s))]
  <2>1. front \in Seq(S) /\ Len(front) = Len(s) - 2
    <3>1. \A i \in 1 .. Len(s) - 2 : s[i] \in S
      BY <1>1, <1>2
    <3> QED BY <2>0, <3>1, SubSeqProperties
  <2>2. IsSequence(front)
    BY <2>1 DEF IsSequence
  <2>3. Popped(s) = Pushed(front, full)
    BY <1>4 DEF Popped, Pushed
  <2> HIDE DEF front, full
  <2> QED BY <1>2, <2>1, <2>2, <2>3, SequencePushed
<1> QED BY <1>3, <1>4

LEMMA SequenceExcept ==
  ASSUME NEW s, IsSequence(s), s # <<>>, NEW x
  PROVE  IsSequence([s EXCEPT ![Len(s)] = x]) /\ Len([s EXCEPT ![Len(s)] = x]) = Len(s)
<1>1. PICK S : s \in Seq(S)
  BY DEF IsSequence
<1> DEFINE T == S \cup {x}
<1>2. s \in Seq(T) /\ x \in T
  BY <1>1, SeqMonotonic
<1>3. Len(s) \in 1 .. Len(s)
  BY SequenceLength
<1> HIDE DEF T
<1>4. /\ [s EXCEPT ![Len(s)] = x] \in Seq(T)
      /\ Len([s EXCEPT ![Len(s)] = x]) = Len(s)
  BY <1>2, <1>3, ExceptSeq
<1> QED BY <1>4 DEF IsSequence

(* One token: only the reader's own stack changes.                         *)
LEMMA ParseKeepsHeight ==
  ASSUME HeightInv, NEW r \in Readers, NEW token, ParseToken(r, token), where[r] # "ended"
  PROVE  Height(r)' /\ \A q \in Readers \ {r} : UNCHANGED <<stack[q], depth[q], where[q]>>
<1>1. \A q \in Readers \ {r} : UNCHANGED <<stack[q], depth[q], where[q]>>
  BY DEF HeightInv, Arrays, ParseToken, ReturnNode, NextToken, PushText, DoNode, RejectTag,
         CloseTag, CloseNothing, EmptyTag, OpenTag
<1>2. IsSequence(stack[r]) /\ depth[r] \in Nat /\ Len(stack[r]) = depth[r]
  BY DEF HeightInv, Height
<1>3. Len(stack[r]) \in Nat /\ (stack[r] = <<>> <=> Len(stack[r]) = 0)
  BY <1>2, SequenceLength
<1>4. Height(r)'
  <2>1. CASE UNCHANGED <<stack[r], depth[r]>>
    BY <1>2, <2>1 DEF Height
  <2>2. CASE stack[r] # <<>> /\ CloseTag(r)
    <3>1. stack'[r] = Popped(stack[r]) /\ depth'[r] = depth[r] - 1
      BY <2>2 DEF CloseTag, HeightInv, Arrays
    <3>2. IsSequence(Popped(stack[r])) /\ Len(Popped(stack[r])) = Len(stack[r]) - 1
      BY <1>2, <2>2, SequencePopped
    <3> QED BY <1>2, <1>3, <2>2, <3>1, <3>2 DEF Height
  <2>3. ASSUME NEW name, EmptyTag(r, name) PROVE Height(r)'
    <3> DEFINE longer == Pushed(stack[r], Element(name, <<>>))
    <3>1. stack'[r] = Popped(longer) /\ depth'[r] = depth[r]
      BY <2>3 DEF EmptyTag, HeightInv, Arrays
    <3>2. IsSequence(longer) /\ Len(longer) = Len(stack[r]) + 1
      BY <1>2, SequencePushed
    <3> HIDE DEF longer
    <3>3. longer # <<>>
      BY <1>3, <3>2, SequenceLength
    <3>4. IsSequence(Popped(longer)) /\ Len(Popped(longer)) = Len(longer) - 1
      BY <3>2, <3>3, SequencePopped
    <3> QED BY <1>2, <1>3, <3>1, <3>2, <3>4 DEF Height
  <2>4. ASSUME NEW name, OpenTag(r, name) PROVE Height(r)'
    <3> DEFINE longer == Pushed(stack[r], Element(name, <<>>))
    <3>1. stack'[r] = longer /\ depth'[r] = depth[r] + 1
      BY <2>4 DEF OpenTag, HeightInv, Arrays
    <3>2. IsSequence(longer) /\ Len(longer) = Len(stack[r]) + 1
      BY <1>2, SequencePushed
    <3> HIDE DEF longer
    <3> QED BY <1>2, <1>3, <3>1, <3>2 DEF Height
  <2>5. CASE PushText(r, token) /\ UNCHANGED depth
    <3>1. CASE stack[r] = <<>>
      BY <2>1, <2>5, <3>1 DEF PushText
    <3>2. CASE stack[r] # <<>>
      <4> DEFINE s == stack[r]
                 x == [s[Len(s)] EXCEPT !.children = Append(@, Text(token))]
      <4>1. stack'[r] = [s EXCEPT ![Len(s)] = x] /\ depth'[r] = depth[r]
        BY <2>5, <3>2 DEF PushText, HeightInv, Arrays
      <4> HIDE DEF x
      <4>2. IsSequence(stack'[r]) /\ Len(stack'[r]) = Len(s)
        BY <1>2, <3>2, <4>1, SequenceExcept
      <4> QED BY <1>2, <4>1, <4>2 DEF Height
    <3> QED BY <3>1, <3>2
  <2> QED BY <2>1, <2>2, <2>3, <2>4, <2>5
          DEF ParseToken, DoNode, RejectTag, CloseNothing, CloseTag
<1> QED BY <1>1, <1>4

LEMMA StepKeepsHeight ==
  ASSUME HeightInv, NEW r \in Readers, Step(r)
  PROVE  HeightInv'
<1>1. Arrays'
  BY ArraysKept DEF HeightInv
<1>2. CASE UNCHANGED <<stack, depth>> /\ where[r] # "ended"
  <2>1. \A q \in Readers \ {r} : where'[q] = where[q]
    BY DEF HeightInv, Arrays, Step, CallReadNode, CopyLastChar, TestLastChar, ReadSymbol, ReadEnd,
           ParseToken, ReturnNode, NextToken, PushText, DoNode, RejectTag, CloseTag,
           CloseNothing, EmptyTag, OpenTag
  <2> QED BY <1>1, <1>2, <2>1 DEF HeightInv, Height
<1>3. CASE CallReadNode(r)
  <2>1. stack'[r] = <<>> /\ depth'[r] = 0
    BY <1>3 DEF CallReadNode, HeightInv, Arrays
  <2>2. \A q \in Readers \ {r} : UNCHANGED <<stack[q], depth[q], where[q]>>
    BY <1>3 DEF CallReadNode, HeightInv, Arrays
  <2>3. IsSequence(<<>>) /\ Len(<<>>) = 0
    BY EmptySeq DEF IsSequence
  <2> QED BY <1>1, <2>1, <2>2, <2>3 DEF HeightInv, Height
<1>4. ASSUME NEW token, ParseToken(r, token), where[r] # "ended" PROVE HeightInv'
  BY <1>1, <1>4, ParseKeepsHeight DEF HeightInv, Height
<1> QED BY <1>2, <1>3, <1>4 DEF Step, CopyLastChar, TestLastChar, ReadSymbol, ReadEnd

LEMMA InitHeight == Init => HeightInv
<1>1. IsSequence(<<>>) /\ Len(<<>>) = 0
  BY EmptySeq DEF IsSequence
<1>2. ASSUME Init PROVE Arrays
  <2>1. PICK s \in Scenarios : socket \in [Readers -> s.inputs]
    BY <1>2 DEF Init
  <2>2. socket = [r \in Readers |-> socket[r]]
    BY <2>1
  <2> QED BY <1>2, <2>2 DEF Init, Arrays
<1>3. ASSUME Init, NEW r \in Readers PROVE Height(r)
  <2>1. stack[r] = <<>> /\ depth[r] = 0
    BY <1>3 DEF Init
  <2> QED BY <1>1, <2>1 DEF Height
<1> QED BY <1>2, <1>3 DEF HeightInv

(* A node is never taken for complete while elements of it are open, nor
   read past its end: depth in parse_node is the height of PSink's stack in
   every state, for any number of threads that take each other's last_char
   and whatever arrives on the sockets. *)
THEOREM DepthCountsTheStack == Spec => []DepthIsHeight
<1>1. HeightInv /\ [Next]_vars => HeightInv'
  <2>1. HeightInv /\ Next => HeightInv'
    BY StepKeepsHeight DEF Next
  <2>2. HeightInv /\ UNCHANGED vars => HeightInv'
    BY DEF HeightInv, Arrays, Height, vars
  <2> QED BY <2>1, <2>2
<1>2. HeightInv => DepthIsHeight
  BY DEF HeightInv, Height, DepthIsHeight
<1> QED BY <1>1, <1>2, InitHeight, PTL DEF Spec

-----------------------------------------------------------------------------
(***************************************************************************)
(* What a program prints.  First, induction for sets of numbers, and the   *)
(* recursive functions that are used.                                      *)
(***************************************************************************)
LEMMA SetInduction ==
  ASSUME NEW S, 0 \in S, \A n \in Nat : n \in S => n + 1 \in S
  PROVE  \A n \in Nat : n \in S
<1> DEFINE R == OpToRel(<, Nat)
           T == Nat \ S
<1>1. IsWellFoundedOn(R, Nat)
  BY NatLessThanWellFounded
<1>2. SUFFICES ASSUME T # {} PROVE FALSE
  OBVIOUS
<1>3. PICK x \in T : \A y \in T : ~(<<y, x>> \in R)
  BY <1>1, <1>2, WFMin
<1>4. x # 0 /\ x - 1 \in Nat
  OBVIOUS
<1>5. <<x - 1, x>> \in R
  BY <1>4 DEF OpToRel
<1>6. x - 1 \in S
  BY <1>3, <1>4, <1>5
<1> QED BY <1>4, <1>6

(* The sequences q[1], q[1] \o q[2], ...                                   *)
Joins(f, q, n) ==
  \A i \in 1 .. n : f[i] = IF i = 1 THEN q[i] ELSE f[i-1] \o q[i]

LEMMA JoinsExist ==
  ASSUME NEW S, NEW q \in Seq(Seq(S))
  PROVE  \A n \in Nat : n <= Len(q) => \E f \in [1 .. n -> Seq(S)] : Joins(f, q, n)
<1> DEFINE T == {n \in Nat : n <= Len(q) => \E f \in [1 .. n -> Seq(S)] : Joins(f, q, n)}
<1>1. 0 \in T
  <2>1. [i \in 1 .. 0 |-> <<>>] \in [1 .. 0 -> Seq(S)]
    OBVIOUS
  <2>2. Joins([i \in 1 .. 0 |-> <<>>], q, 0)
    BY DEF Joins
  <2> QED BY <2>1, <2>2
<1>2. ASSUME NEW n \in Nat, n \in T PROVE n + 1 \in T
  <2>1. SUFFICES ASSUME n + 1 <= Len(q)
                 PROVE  \E f \in [1 .. n + 1 -> Seq(S)] : Joins(f, q, n + 1)
    BY <1>2
  <2>2. PICK f \in [1 .. n -> Seq(S)] : Joins(f, q, n)
    BY <1>2, <2>1
  <2> DEFINE last == IF n = 0 THEN q[1] ELSE f[n] \o q[n+1]
             g == [i \in 1 .. n + 1 |-> IF i = n + 1 THEN last ELSE f[i]]
  <2>3. last \in Seq(S)
    <3>1. q[n+1] \in Seq(S) /\ (n # 0 => f[n] \in Seq(S))
      BY <2>1, <2>2
    <3> QED BY <3>1
  <2>4. g \in [1 .. n + 1 -> Seq(S)]
    BY <2>2, <2>3
  <2>5. Joins(g, q, n + 1)
    <3>1. SUFFICES ASSUME NEW i \in 1 .. n + 1
                   PROVE  g[i] = IF i = 1 THEN q[i] ELSE g[i-1] \o q[i]
      BY DEF Joins
    <3>2. CASE i = n + 1
      <4>1. g[i] = last /\ (n # 0 => g[n] = f[n])
        BY <3>2
      <4> HIDE DEF g
      <4> QED BY <3>2, <4>1
    <3>3. CASE i # n + 1
      <4>1. i \in 1 .. n /\ (i # 1 => i - 1 \in 1 .. n)
        BY <3>3
      <4>2. g[i] = f[i] /\ (i # 1 => g[i-1] = f[i-1])
        <5> HIDE DEF last
        <5>1. \A j \in 1 .. n : j \in 1 .. n + 1 /\ j # n + 1
          OBVIOUS
        <5>2. \A j \in 1 .. n : g[j] = f[j]
          BY <5>1, Zenon
        <5> HIDE DEF g
        <5> QED BY <4>1, <5>2
      <4> HIDE DEF g
      <4> QED BY <2>2, <4>1, <4>2 DEF Joins
    <3> QED BY <3>2, <3>3
  <2> QED BY <2>4, <2>5
<1> HIDE DEF T
<1>3. \A n \in Nat : n \in T
  BY <1>1, <1>2, SetInduction
<1> QED BY <1>3 DEF T

LEMMA FlattenIsJoin ==
  ASSUME NEW S, NEW q \in Seq(Seq(S)), q # <<>>
  PROVE  \E f \in [1 .. Len(q) -> Seq(S)] : Joins(f, q, Len(q)) /\ FlattenSeq(q) = f[Len(q)]
<1>1. Len(q) \in Nat /\ Len(q) # 0
  BY EmptySeq
<1>2. PICK f \in [1 .. Len(q) -> Seq(S)] : Joins(f, q, Len(q))
  <2>1. Len(q) <= Len(q)
    BY <1>1
  <2>2. \A n \in Nat : n <= Len(q) => \E f \in [1 .. n -> Seq(S)] : Joins(f, q, n)
    BY JoinsExist
  <2> QED BY <1>1, <2>1, <2>2, Zenon
<1> DEFINE Is(h) == h = [i \in 1 .. Len(q) |-> IF i = 1 THEN q[i] ELSE h[i-1] \o q[i]]
           h == CHOOSE g : Is(g)
<1>3. Is(f)
  BY <1>2 DEF Joins
<1>4. Is(h)
  BY <1>3
<1>5. FlattenSeq(q) = h[Len(q)]
  BY <1>1 DEF FlattenSeq
<1> HIDE DEF h
<1>6. \A i \in 1 .. Len(q) : h[i] = IF i = 1 THEN q[i] ELSE h[i-1] \o q[i]
  BY Zenon, <1>4
<1> DEFINE T == {n \in Nat : n + 1 <= Len(q) => h[n+1] = f[n+1]}
<1>7. 0 \in T
  <2>1. 1 \in 1 .. Len(q) /\ 0 + 1 = 1
    BY <1>1
  <2>2. h[1] = q[1] /\ f[1] = q[1]
    BY <1>2, <1>6, <2>1, Zenon DEF Joins
  <2> QED BY <2>1, <2>2
<1>8. ASSUME NEW n \in Nat, n \in T PROVE n + 1 \in T
  <2>1. SUFFICES ASSUME n + 2 <= Len(q) PROVE h[n+2] = f[n+2]
    OBVIOUS
  <2>2. PICK j \in 1 .. Len(q) : j = n + 2 /\ j # 1 /\ j - 1 = n + 1
    BY <1>1, <2>1
  <2>3. h[j-1] = f[j-1]
    BY <1>8, <2>1, <2>2
  <2>4. h[j] = h[j-1] \o q[j] /\ f[j] = f[j-1] \o q[j]
    BY <1>2, <1>6, <2>2, Zenon DEF Joins
  <2> QED BY <2>2, <2>3, <2>4, Zenon
<1> HIDE DEF T
<1>9. \A n \in Nat : n \in T
  BY <1>7, <1>8, SetInduction
<1>10. h[Len(q)] = f[Len(q)]
  <2>1. Len(q) - 1 \in Nat /\ (Len(q) - 1) + 1 = Len(q)
    BY <1>1
  <2>2. Len(q) - 1 \in T
    BY <1>9, <2>1
  <2> QED BY <2>1, <2>2 DEF T
<1> QED BY <1>2, <1>5, <1>10

LEMMA FlattenEmpty == FlattenSeq(<<>>) = <<>>
<1>1. Len(<<>>) = 0
  OBVIOUS
<1> QED BY <1>1 DEF FlattenSeq

LEMMA LengthOf ==
  ASSUME NEW S, NEW s \in Seq(S)
  PROVE  Len(s) \in Nat /\ (s = <<>> <=> Len(s) = 0)
<1>1. IsSequence(s)
  BY DEF IsSequence
<1> QED BY <1>1, SequenceLength

(* A sequence stands in a text, which is a function of positions, after the
   position p. *)
Occurs(w, p, s) == \A i \in 1 .. Len(s) : w[p+i] = s[i]

(* The parts of a sequence stand one after the other in a text; at[j] is   *)
(* where part j ends.                                                      *)
Layout(w, q, at) ==
  /\ at \in [0 .. Len(q) -> Nat]
  /\ \A j \in 1 .. Len(q) : at[j] = at[j-1] + Len(q[j]) /\ Occurs(w, at[j-1], q[j])
  /\ \A j \in 0 .. Len(q) : at[j] <= at[Len(q)]

LEMMA ConcatAt ==
  ASSUME NEW S, NEW a \in Seq(S), NEW b \in Seq(S), NEW c, c = a \o b
  PROVE  /\ c \in Seq(S) /\ Len(c) = Len(a) + Len(b)
         /\ Len(a) \in Nat /\ Len(b) \in Nat
         /\ \A i \in 1 .. Len(a) : c[i] = a[i]
         /\ \A i \in 1 .. Len(b) : c[Len(a) + i] = b[i]
<1>1. Len(a) \in Nat /\ Len(b) \in Nat
  BY LengthOf
<1>2. /\ c \in Seq(S) /\ Len(c) = Len(a) + Len(b)
      /\ \A i \in 1 .. Len(a) + Len(b) : c[i] = IF i <= Len(a) THEN a[i] ELSE b[i - Len(a)]
  BY ConcatProperties
<1>3. ASSUME NEW i \in 1 .. Len(b) PROVE c[Len(a) + i] = b[i]
  <2>1. Len(a) + i \in 1 .. Len(a) + Len(b) /\ ~(Len(a) + i <= Len(a)) /\ (Len(a) + i) - Len(a) = i
    BY <1>1
  <2> QED BY <1>2, <2>1
<1>4. ASSUME NEW i \in 1 .. Len(a) PROVE c[i] = a[i]
  <2>1. i \in 1 .. Len(a) + Len(b) /\ i <= Len(a)
    BY <1>1
  <2> QED BY <1>2, <2>1
<1> QED BY <1>1, <1>2, <1>3, <1>4

Joined(f, q, j) ==
  /\ Len(f[j]) \in Nat /\ Len(q[j]) \in Nat
  /\ j = 1 => f[j] = q[j]
  /\ j > 1 => /\ Len(f[j]) = Len(f[j-1]) + Len(q[j]) /\ Len(f[j-1]) \in Nat
              /\ \A i \in 1 .. Len(f[j-1]) : f[j][i] = f[j-1][i]
              /\ \A i \in 1 .. Len(q[j]) : f[j][Len(f[j-1]) + i] = q[j][i]

LEMMA JoinedParts ==
  ASSUME NEW S, NEW n \in Nat, NEW q \in [1 .. n -> Seq(S)], NEW f \in [1 .. n -> Seq(S)],
         Joins(f, q, n)
  PROVE  \A j \in 1 .. n : Joined(f, q, j)
<1> SUFFICES ASSUME NEW j \in 1 .. n PROVE Joined(f, q, j)
  OBVIOUS
<1>1. Len(f[j]) \in Nat /\ Len(q[j]) \in Nat
  BY LengthOf
<1>2. j = 1 => f[j] = q[j]
  BY DEF Joins
<1>3. CASE j > 1
  <2>1. j - 1 \in 1 .. n /\ j # 1
    BY <1>3
  <2>2. PICK a \in Seq(S), b \in Seq(S), c \in {f[j]} :
          a = f[j-1] /\ b = q[j] /\ c = f[j]
    BY <2>1
  <2>3. c = a \o b
    BY <2>1, <2>2 DEF Joins
  <2>4. /\ Len(c) = Len(a) + Len(b) /\ Len(a) \in Nat
        /\ \A i \in 1 .. Len(a) : c[i] = a[i]
        /\ \A i \in 1 .. Len(b) : c[Len(a) + i] = b[i]
    BY <2>3, ConcatAt
  <2> QED BY <1>1, <1>2, <2>2, <2>4 DEF Joined
<1>4. CASE ~(j > 1)
  BY <1>1, <1>2, <1>4 DEF Joined
<1> QED BY <1>3, <1>4

(* What was joined stays where it is.                                      *)
LEMMA JoinedKeeps ==
  ASSUME NEW S, NEW n \in Nat, NEW q \in [1 .. n -> Seq(S)], NEW f \in [1 .. n -> Seq(S)],
         Joins(f, q, n), NEW j \in 1 .. n
  PROVE  Len(f[j]) <= Len(f[n]) /\ \A i \in 1 .. Len(f[j]) : f[n][i] = f[j][i]
<1> DEFINE Kept(k) == Len(f[j]) <= Len(f[k]) /\ \A i \in 1 .. Len(f[j]) : f[k][i] = f[j][i]
           T == {m \in Nat : j + m <= n => Kept(j + m)}
<1>0. Len(f[j]) \in Nat
  BY LengthOf
<1>1. 0 \in T
  BY <1>0
<1>2. ASSUME NEW m \in Nat, m \in T PROVE m + 1 \in T
  <2>1. SUFFICES ASSUME j + (m + 1) <= n PROVE Kept(j + (m + 1))
    OBVIOUS
  <2>2. PICK k \in 1 .. n : k = j + (m + 1) /\ k > 1 /\ k - 1 = j + m /\ j + m <= n
    BY <2>1
  <2> HIDE DEF Kept
  <2>3. Kept(k - 1)
    BY <1>2, <2>2
  <2>4. /\ Len(f[k]) = Len(f[k-1]) + Len(q[k]) /\ Len(f[k-1]) \in Nat /\ Len(q[k]) \in Nat
        /\ \A i \in 1 .. Len(f[k-1]) : f[k][i] = f[k-1][i]
    <3>1. \A i \in 1 .. n : Joined(f, q, i)
      BY JoinedParts
    <3> QED BY <2>2, <3>1 DEF Joined
  <2>5. Kept(k)
    <3>1. PICK a \in Nat, b \in Nat, c \in Nat, d \in Nat :
            a = Len(f[j]) /\ b = Len(f[k-1]) /\ c = b + d /\ c = Len(f[k])
      BY <1>0, <2>4
    <3>2. a <= b /\ \A i \in 1 .. a : f[k-1][i] = f[j][i]
      BY <2>3, <3>1 DEF Kept
    <3>3. a <= c /\ \A i \in 1 .. a : i \in 1 .. b
      BY <3>1, <3>2
    <3>4. \A i \in 1 .. a : f[k][i] = f[j][i]
      BY <2>4, <3>1, <3>2, <3>3
    <3> QED BY <3>1, <3>3, <3>4 DEF Kept
  <2> QED BY <2>2, <2>5
<1> HIDE DEF T
<1>3. \A m \in Nat : m \in T
  BY <1>1, <1>2, SetInduction
<1>4. n - j \in Nat /\ j + (n - j) = n
  OBVIOUS
<1>5. n - j \in T
  BY <1>3, <1>4
<1> QED BY <1>4, <1>5 DEF T

(* The parts of what is flattened stand in it one after the other.         *)
LEMMA FlattenLaidOut ==
  ASSUME NEW S, NEW q \in Seq(Seq(S))
  PROVE  /\ FlattenSeq(q) \in Seq(S)
         /\ \E at : Layout(FlattenSeq(q), q, at) /\ at[0] = 0 /\ at[Len(q)] = Len(FlattenSeq(q))
<1>1. Len(q) \in Nat
  BY LengthOf
<1>2. CASE q = <<>>
  <2>1. FlattenSeq(q) = <<>> /\ Len(q) = 0 /\ Len(<<>>) = 0 /\ <<>> \in Seq(S)
    BY <1>2, FlattenEmpty, EmptySeq
  <2> DEFINE at == [j \in 0 .. 0 |-> 0]
  <2>2. at \in [0 .. 0 -> Nat] /\ at[0] = 0
    OBVIOUS
  <2> HIDE DEF at
  <2>3. Layout(<<>>, q, at)
    BY <2>1, <2>2 DEF Layout
  <2> QED BY <2>1, <2>2, <2>3
<1>3. CASE q # <<>>
  <2>1. PICK f \in [1 .. Len(q) -> Seq(S)] : Joins(f, q, Len(q)) /\ FlattenSeq(q) = f[Len(q)]
    BY <1>3, FlattenIsJoin
  <2>2. PICK n \in Nat : n = Len(q) /\ n # 0
    BY <1>1, <1>3, LengthOf
  <2>3. q \in [1 .. n -> Seq(S)] /\ f \in [1 .. n -> Seq(S)] /\ Joins(f, q, n)
    BY <2>1, <2>2, LenProperties
  <2> DEFINE at == [j \in 0 .. n |-> IF j = 0 THEN 0 ELSE Len(f[j])]
  <2>4. \A j \in 1 .. n : Len(f[j]) \in Nat
    BY <2>3, LengthOf
  <2>5. at \in [0 .. n -> Nat] /\ at[0] = 0 /\ \A j \in 1 .. n : at[j] = Len(f[j])
    BY <2>4
  <2> HIDE DEF at
  <2>6. n \in 1 .. n /\ n \in 0 .. n
    BY <2>2
  <2>7. ASSUME NEW j \in 1 .. n
        PROVE  at[j] = at[j-1] + Len(q[j]) /\ Occurs(f[n], at[j-1], q[j]) /\ at[j] <= at[n]
    <3>1. Joined(f, q, j)
      BY <2>3, JoinedParts
    <3>2. Len(f[j]) <= Len(f[n]) /\ \A i \in 1 .. Len(f[j]) : f[n][i] = f[j][i]
      BY <2>3, JoinedKeeps
    <3>3. CASE j = 1
      <4>1. at[j-1] = 0 /\ at[j] = Len(q[j]) /\ f[j] = q[j]
        BY <2>5, <3>1, <3>3 DEF Joined
      <4>2. \A i \in 1 .. Len(q[j]) : f[n][0 + i] = q[j][i]
        BY <3>2, <4>1
      <4> QED BY <2>5, <2>6, <3>1, <3>2, <4>1, <4>2 DEF Occurs, Joined
    <3>4. CASE j # 1
      <4>1. j > 1 /\ j - 1 \in 1 .. n
        BY <3>4
      <4>2. at[j-1] = Len(f[j-1]) /\ at[j] = Len(f[j])
        BY <2>5, <4>1
      <4>3. ASSUME NEW i \in 1 .. Len(q[j]) PROVE f[n][at[j-1] + i] = q[j][i]
        <5>0. PICK a \in Nat, b \in Nat :
                a = Len(f[j-1]) /\ b = Len(q[j]) /\ Len(f[j]) = a + b
          BY <3>1, <4>1 DEF Joined
        <5>1. Len(f[j-1]) + i \in 1 .. Len(f[j])
          <6>1. i \in 1 .. b
            BY <5>0
          <6>2. a + i \in 1 .. a + b
            BY <6>1
          <6> QED BY <5>0, <6>2, Zenon
        <5>2. f[j][Len(f[j-1]) + i] = q[j][i]
          BY <3>1, <4>1 DEF Joined
        <5> QED BY <3>2, <4>2, <5>1, <5>2
      <4> QED BY <2>5, <2>6, <3>1, <3>2, <4>1, <4>2, <4>3 DEF Occurs, Joined
    <3> QED BY <3>3, <3>4
  <2>8. \A j \in 0 .. n : at[j] <= at[n]
    <3>1. at[n] \in Nat
      BY <2>5, <2>6
    <3>2. \A j \in 0 .. n : j = 0 \/ j \in 1 .. n
      OBVIOUS
    <3> QED BY <2>5, <2>7, <3>1, <3>2
  <2>9. Layout(f[n], q, at)
    BY <2>2, <2>5, <2>7, <2>8 DEF Layout
  <2>10. f[n] \in Seq(S) /\ FlattenSeq(q) = f[n] /\ at[n] = Len(f[n])
    BY <2>1, <2>2, <2>5, <2>6
  <2> QED BY <2>2, <2>5, <2>9, <2>10
<1> QED BY <1>2, <1>3

-----------------------------------------------------------------------------
(***************************************************************************)
(* How a node is printed.                                                  *)
(***************************************************************************)
Below(h) == {n \in Nodes : height[n] < h}

(* One step of Shown.                                                      *)
Showing(f, n) ==
  IF IsText(n) THEN n.children
  ELSE <<"<", n.name, ">">>
         \o FlattenSeq([i \in DOMAIN n.children |-> f[n.children[i]]])
         \o <<"<", "/", ">">>

PrintsUpTo(f, h) == f \in [Below(h) -> Seq(Symbols)] /\ \A n \in Below(h) : f[n] = Showing(f, n)

LEMMA NodeParts ==
  ASSUME NEW n \in Nodes
  PROVE  /\ height[n] \in Nat
         /\ n = Element(n.name, n.children)
         /\ n.name \in Symbols \ Delimiters /\ n.name # "null" /\ n.name # ""
         /\ n.name \notin Closing \cup Malformed \cup DOMAIN SelfClosing
         /\ IsText(n) => /\ n.children \in Seq(Words) /\ n.children # <<>>
                         /\ n.children \in Seq(Symbols)
         /\ ~IsText(n) => /\ n.children \in Seq(Nodes)
                          /\ Len(n.children) \in Nat
                          /\ DOMAIN n.children = 1 .. Len(n.children)
                          /\ \A i \in 1 .. Len(n.children) :
                               /\ n.children[i] \in Nodes
                               /\ height[n.children[i]] < height[n]
                               /\ height[n.children[i]] \in Nat
                               /\ i > 1 /\ IsText(n.children[i]) => ~IsText(n.children[i-1])
<1>1. /\ height[n] \in Nat
      /\ n = Element(n.name, n.children)
      /\ n.name \notin Delimiters \cup {"", "null"}
      /\ n.name \notin Closing \cup Malformed \cup DOMAIN SelfClosing
      /\ IsText(n) => n.children \in Seq(Words) \ {<<>>}
      /\ ~IsText(n) =>
           /\ n.children \in Seq(Nodes)
           /\ \A i \in DOMAIN n.children :
                /\ height[n.children[i]] < height[n]
                /\ i > 1 /\ IsText(n.children[i]) => ~IsText(n.children[i-1])
  BY NodesAssumption
<1>2. n.name \in Symbols
  BY DEF Symbols
<1>3. Words \subseteq Symbols
  BY DEF Symbols
<1>4. IsText(n) => n.children \in Seq(Symbols)
  BY <1>1, <1>3, SeqMonotonic
<1>5. ASSUME ~IsText(n)
      PROVE  /\ Len(n.children) \in Nat /\ DOMAIN n.children = 1 .. Len(n.children)
             /\ \A i \in 1 .. Len(n.children) :
                  n.children[i] \in Nodes /\ height[n.children[i]] \in Nat
  <2>1. n.children \in Seq(Nodes)
    BY <1>1, <1>5
  <2>2. \A c \in Nodes : height[c] \in Nat
    BY NodesAssumption
  <2> QED BY <2>1, <2>2, LenProperties
<1> QED BY <1>1, <1>2, <1>4, <1>5

LEMMA HeightIsNumber == \A n \in Nodes : height[n] \in Nat
  BY NodesAssumption

LEMMA ChildrenAreLower ==
  ASSUME NEW n \in Nodes, ~IsText(n)
  PROVE  \A i \in 1 .. Len(n.children) :
           n.children[i] \in Nodes /\ height[n.children[i]] < height[n]
  BY NodeParts

LEMMA BelowZero == Below(0) = {}
<1>1. \A x \in Nat : ~(x < 0)
  OBVIOUS
<1> QED BY <1>1, HeightIsNumber DEF Below

LEMMA BelowOwn ==
  \A n \in Nodes : height[n] + 1 \in Nat /\ n \in Below(height[n] + 1)
<1>1. \A x \in Nat : x + 1 \in Nat /\ x < x + 1
  OBVIOUS
<1> QED BY <1>1, HeightIsNumber DEF Below

LEMMA BelowMore ==
  \A h \in Nat, k \in Nat : h <= k => Below(h) \subseteq Below(k)
<1>1. \A x \in Nat, h \in Nat, k \in Nat : h <= k /\ x < h => x < k
  OBVIOUS
<1> QED BY <1>1, HeightIsNumber DEF Below

LEMMA BelowNext ==
  ASSUME NEW h \in Nat, NEW n \in Below(h + 1)
  PROVE  n \in Nodes /\ (~IsText(n) => \A i \in 1 .. Len(n.children) : n.children[i] \in Below(h))
<1>1. n \in Nodes /\ height[n] < h + 1
  BY DEF Below
<1>2. ASSUME ~IsText(n), NEW i \in 1 .. Len(n.children) PROVE n.children[i] \in Below(h)
  <2>1. PICK c \in Nodes : c = n.children[i] /\ height[c] < height[n]
    BY <1>1, <1>2, ChildrenAreLower
  <2>2. PICK x \in Nat, y \in Nat : x = height[c] /\ y = height[n]
    BY <1>1, HeightIsNumber
  <2>3. x < h
    BY <1>1, <2>1, <2>2
  <2> QED BY <2>1, <2>2, <2>3 DEF Below
<1> QED BY <1>1, <1>2

LEMMA MarksAreSymbols ==
  /\ \A n \in Nodes : <<"<", n.name, ">">> \in Seq(Symbols)
  /\ <<"<", "/", ">">> \in Seq(Symbols) /\ <<"<", "done/", ">">> \in Seq(Symbols)
  /\ <<"\n">> \in Seq(Symbols)
<1>1. {"<", ">", "/", "done/", "\n"} \subseteq Symbols
  BY WordsAssumption DEF Symbols, Delimiters
<1>2. ASSUME NEW n \in Nodes PROVE n.name \in Symbols
  BY DEF Symbols
<1>3. \A x \in Symbols, y \in Symbols, z \in Symbols : <<x, y, z>> \in Seq(Symbols)
  OBVIOUS
<1>4. \A x \in Symbols : <<x>> \in Seq(Symbols)
  OBVIOUS
<1> QED BY <1>1, <1>2, <1>3, <1>4, Zenon

LEMMA PrintTyped ==
  ASSUME NEW n \in Nodes, NEW f,
         ~IsText(n) => \A i \in 1 .. Len(n.children) : f[n.children[i]] \in Seq(Symbols)
  PROVE  Showing(f, n) \in Seq(Symbols)
<1>1. CASE IsText(n)
  BY <1>1, NodeParts DEF Showing
<1>2. CASE ~IsText(n)
  <2> DEFINE q == [i \in DOMAIN n.children |-> f[n.children[i]]]
  <2>1. PICK m \in Nat : m = Len(n.children) /\ DOMAIN n.children = 1 .. m
    BY <1>2, NodeParts
  <2>2. q \in [1 .. m -> Seq(Symbols)]
    BY <1>2, <2>1
  <2> HIDE DEF q
  <2>3. q \in Seq(Seq(Symbols))
    BY <2>2, SeqDef
  <2>4. PICK b \in Seq(Symbols) : b = FlattenSeq(q)
    BY <2>3, FlattenLaidOut
  <2>5. PICK a \in Seq(Symbols), c \in Seq(Symbols) : a = <<"<", n.name, ">">> /\ c = <<"<", "/", ">">>
    BY MarksAreSymbols
  <2>6. a \o b \o c \in Seq(Symbols)
    OBVIOUS
  <2>7. Showing(f, n) = a \o b \o c
    BY <1>2, <2>4, <2>5 DEF Showing, q
  <2> QED BY <2>6, <2>7
<1> QED BY <1>1, <1>2

LEMMA PrintSame ==
  ASSUME NEW n \in Nodes, NEW f, NEW g,
         ~IsText(n) => \A i \in 1 .. Len(n.children) : f[n.children[i]] = g[n.children[i]]
  PROVE  Showing(f, n) = Showing(g, n)
<1>1. CASE IsText(n)
  BY <1>1 DEF Showing
<1>2. CASE ~IsText(n)
  <2>1. DOMAIN n.children = 1 .. Len(n.children)
    BY <1>2, NodeParts
  <2>2. [i \in DOMAIN n.children |-> f[n.children[i]]]
          = [i \in DOMAIN n.children |-> g[n.children[i]]]
    BY <1>2, <2>1
  <2> QED BY <1>2, <2>2 DEF Showing
<1> QED BY <1>1, <1>2

LEMMA PrintsExist == \A h \in Nat : \E f : PrintsUpTo(f, h)
<1> DEFINE T == {h \in Nat : \E f : PrintsUpTo(f, h)}
<1>1. 0 \in T
  <2>1. Below(0) = {}
    BY BelowZero
  <2>2. PrintsUpTo([n \in {} |-> <<>>], 0)
    BY <2>1 DEF PrintsUpTo
  <2> QED BY <2>2
<1>2. ASSUME NEW h \in Nat, h \in T PROVE h + 1 \in T
  <2>1. PICK f : PrintsUpTo(f, h)
    BY <1>2
  <2> DEFINE g == [n \in Below(h + 1) |-> IF n \in Below(h) THEN f[n] ELSE Showing(f, n)]
  <2>2. \A n \in Below(h) : n \in Below(h + 1)
    BY BelowMore
  <2>3. ASSUME NEW n \in Below(h + 1)
        PROVE  ~IsText(n) => \A i \in 1 .. Len(n.children) :
                 f[n.children[i]] \in Seq(Symbols) /\ g[n.children[i]] = f[n.children[i]]
    <3>1. ASSUME ~IsText(n), NEW i \in 1 .. Len(n.children)
          PROVE  f[n.children[i]] \in Seq(Symbols) /\ g[n.children[i]] = f[n.children[i]]
      <4>1. PICK c \in Below(h) : c = n.children[i]
        BY <3>1, BelowNext
      <4> QED BY <2>1, <2>2, <4>1 DEF PrintsUpTo
    <3> QED BY <3>1
  <2>4. ASSUME NEW n \in Below(h + 1)
        PROVE  Showing(f, n) \in Seq(Symbols) /\ Showing(g, n) = Showing(f, n)
    <3> HIDE DEF g
    <3>1. n \in Nodes
      BY BelowNext
    <3> QED BY <2>3, <3>1, PrintTyped, PrintSame
  <2>5. g \in [Below(h + 1) -> Seq(Symbols)]
    BY <2>1, <2>4 DEF PrintsUpTo
  <2>6. ASSUME NEW n \in Below(h + 1) PROVE g[n] = Showing(f, n)
    BY <2>1 DEF PrintsUpTo
  <2> HIDE DEF g
  <2>7. PrintsUpTo(g, h + 1)
    BY <2>4, <2>5, <2>6 DEF PrintsUpTo
  <2> QED BY <2>7
<1> HIDE DEF T
<1>3. \A h \in Nat : h \in T
  BY <1>1, <1>2, SetInduction
<1> QED BY <1>3 DEF T

LEMMA PrintsAgree ==
  ASSUME NEW f, NEW g, NEW m \in Nat,
         \A n \in Below(m) : f[n] = Showing(f, n) /\ g[n] = Showing(g, n)
  PROVE  \A n \in Below(m) : f[n] = g[n]
<1> DEFINE T == {h \in Nat : h <= m => \A n \in Below(h) : f[n] = g[n]}
<1>1. 0 \in T
  <2>1. Below(0) = {}
    BY BelowZero
  <2> QED BY <2>1
<1>2. ASSUME NEW h \in Nat, h \in T PROVE h + 1 \in T
  <2>1. SUFFICES ASSUME h + 1 <= m, NEW n \in Below(h + 1) PROVE f[n] = g[n]
    OBVIOUS
  <2>2. \A c \in Below(h) : f[c] = g[c]
    BY <1>2, <2>1
  <2>3. n \in Nodes /\ n \in Below(m)
    BY <2>1, BelowNext, BelowMore
  <2>4. ~IsText(n) => \A i \in 1 .. Len(n.children) : n.children[i] \in Below(h)
    BY <2>1, BelowNext
  <2>5. Showing(f, n) = Showing(g, n)
    BY <2>2, <2>3, <2>4, PrintSame
  <2> QED BY <2>3, <2>5
<1> HIDE DEF T
<1>3. \A h \in Nat : h \in T
  BY <1>1, <1>2, SetInduction
<1>4. m \in T
  BY <1>3
<1> QED BY <1>4 DEF T

(* Shown is what its definition says.                                      *)
LEMMA ShownIs == \A n \in Nodes : Shown[n] = Showing(Shown, n) /\ Shown[n] \in Seq(Symbols)
<1> DEFINE p(n) == CHOOSE f : PrintsUpTo(f, height[n] + 1)
           F == [n \in Nodes |-> p(n)[n]]
           Is(s) == s = [node \in Nodes |-> Showing(s, node)]
<1>1. ASSUME NEW n \in Nodes PROVE PrintsUpTo(p(n), height[n] + 1)
  <2>1. height[n] + 1 \in Nat
    BY BelowOwn
  <2>2. \E f : PrintsUpTo(f, height[n] + 1)
    BY <2>1, PrintsExist
  <2> QED BY <2>2
<1> HIDE DEF p
<1>2. ASSUME NEW n \in Nodes, NEW c \in Nodes, height[c] <= height[n]
      PROVE  p(n)[c] = p(c)[c]
  <2>0. PICK m \in Nat, k \in Nat : m = height[c] + 1 /\ k = height[n] + 1 /\ m <= k
    BY <1>2, HeightIsNumber
  <2>1. PICK f, g : f = p(n) /\ g = p(c)
    OBVIOUS
  <2>2. \A x \in Below(m) : x \in Below(height[n] + 1) /\ x \in Below(height[c] + 1)
    BY <2>0, BelowMore
  <2>3. \A x \in Below(m) : f[x] = Showing(f, x) /\ g[x] = Showing(g, x)
    BY <1>1, <1>2, <2>1, <2>2, Zenon DEF PrintsUpTo
  <2>4. \A x \in Below(m) : f[x] = g[x]
    BY <2>3, PrintsAgree
  <2>5. c \in Below(m)
    BY <2>0, BelowOwn
  <2> QED BY <2>1, <2>4, <2>5
<1>3. ASSUME NEW n \in Nodes PROVE F[n] = Showing(F, n) /\ F[n] \in Seq(Symbols)
  <2>1. n \in Below(height[n] + 1)
    BY BelowOwn
  <2>2. F[n] = Showing(p(n), n) /\ F[n] \in Seq(Symbols)
    BY <1>1, <2>1 DEF PrintsUpTo
  <2>3. ~IsText(n) => \A i \in 1 .. Len(n.children) : F[n.children[i]] = p(n)[n.children[i]]
    <3>1. ASSUME ~IsText(n), NEW i \in 1 .. Len(n.children) PROVE F[n.children[i]] = p(n)[n.children[i]]
      <4>1. n.children[i] \in Nodes /\ height[n.children[i]] <= height[n]
        BY <3>1, ChildrenAreLower, HeightIsNumber
      <4> QED BY <1>2, <4>1
    <3> QED BY <3>1
  <2> HIDE DEF F
  <2>4. Showing(F, n) = Showing(p(n), n)
    BY <2>3, PrintSame
  <2> QED BY <2>2, <2>4
<1>4. Is(F)
  <2>1. F = [n \in Nodes |-> F[n]]
    OBVIOUS
  <2> QED BY <1>3, <2>1
<1>5. Is(Shown)
  <2>1. Shown = CHOOSE s : Is(s)
    BY DEF Shown, Showing
  <2> QED BY <1>4, <2>1
<1>6. ASSUME NEW n \in Nodes PROVE Shown[n] = Showing(Shown, n)
  BY <1>5
<1> HIDE DEF F, Is
<1>7. ASSUME NEW n \in Nodes PROVE Shown[n] = F[n]
  <2>1. PICK m \in Nat : m = height[n] + 1
    BY BelowOwn
  <2>2. \A x \in Below(m) : Shown[x] = Showing(Shown, x) /\ F[x] = Showing(F, x)
    BY <1>3, <1>6 DEF Below
  <2>3. \A x \in Below(m) : Shown[x] = F[x]
    BY <2>2, PrintsAgree
  <2>4. n \in Below(m)
    BY <2>1, BelowOwn
  <2> QED BY <2>3, <2>4
<1> QED BY <1>3, <1>6, <1>7

-----------------------------------------------------------------------------
(***************************************************************************)
(* Where things stand in a text.                                           *)
(***************************************************************************)
LEMMA OccursJoined ==
  ASSUME NEW S, NEW a \in Seq(S), NEW b \in Seq(S), NEW c, c = a \o b,
         NEW w, NEW p \in Nat, Occurs(w, p, c)
  PROVE  Occurs(w, p, a) /\ Occurs(w, p + Len(a), b) /\ Len(c) = Len(a) + Len(b)
<1>1. /\ Len(c) = Len(a) + Len(b)
      /\ Len(a) \in Nat /\ Len(b) \in Nat
      /\ \A i \in 1 .. Len(a) : c[i] = a[i]
      /\ \A i \in 1 .. Len(b) : c[Len(a) + i] = b[i]
  BY ConcatAt
<1>2. PICK k \in Nat, l \in Nat : k = Len(a) /\ l = Len(b) /\ Len(c) = k + l
  BY <1>1
<1>3. \A i \in 1 .. k + l : w[p + i] = c[i]
  BY <1>2 DEF Occurs
<1>4. ASSUME NEW i \in 1 .. k PROVE w[p + i] = a[i]
  <2>1. i \in 1 .. k + l
    BY <1>2
  <2> QED BY <1>1, <1>2, <1>3, <2>1
<1>5. ASSUME NEW i \in 1 .. l PROVE w[(p + k) + i] = b[i]
  <2>1. PICK j \in 1 .. k + l : j = k + i
    BY <1>2
  <2>2. w[p + j] = c[j] /\ c[j] = b[i]
    BY <1>1, <1>2, <1>3, <2>1
  <2>3. p + j = (p + k) + i
    BY <2>1
  <2> QED BY <2>2, <2>3
<1> QED BY <1>1, <1>2, <1>4, <1>5 DEF Occurs

LEMMA OccursTag ==
  ASSUME NEW w, NEW p \in Nat, NEW x, NEW y, NEW z, Occurs(w, p, <<x, y, z>>)
  PROVE  w[p+1] = x /\ w[p+2] = y /\ w[p+3] = z
<1>1. Len(<<x, y, z>>) = 3 /\ 1 \in 1 .. 3 /\ 2 \in 1 .. 3 /\ 3 \in 1 .. 3
  OBVIOUS
<1> QED BY <1>1 DEF Occurs

LEMMA LayoutMoved ==
  ASSUME NEW S, NEW q \in Seq(Seq(S)), NEW v \in Seq(S), NEW at, Layout(v, q, at), at[0] = 0,
         at[Len(q)] = Len(v), NEW w, NEW p \in Nat, Occurs(w, p, v)
  PROVE  \E new : Layout(w, q, new) /\ new[0] = p /\ new[Len(q)] = p + Len(v)
<1>1. PICK n \in Nat, l \in Nat : n = Len(q) /\ l = Len(v) /\ \A j \in 1 .. n : Len(q[j]) \in Nat
  <2>1. Len(q) \in Nat /\ Len(v) \in Nat
    BY LengthOf
  <2>2. \A j \in 1 .. Len(q) : q[j] \in Seq(S)
    BY LenProperties
  <2>3. \A j \in 1 .. Len(q) : Len(q[j]) \in Nat
    BY <2>2, LengthOf
  <2> QED BY <2>1, <2>3
<1>2. /\ at \in [0 .. n -> Nat] /\ at[n] = l
      /\ \A j \in 1 .. n : at[j] = at[j-1] + Len(q[j]) /\ Occurs(v, at[j-1], q[j])
      /\ \A j \in 0 .. n : at[j] <= l
  BY <1>1 DEF Layout
<1> DEFINE new == [j \in 0 .. n |-> at[j] + p]
<1>6. \A j \in 0 .. n : new[j] = at[j] + p
  OBVIOUS
<1>3. /\ new \in [0 .. n -> Nat] /\ new[0] = p /\ new[n] = p + l
      /\ \A j \in 0 .. n : new[j] = at[j] + p /\ new[j] <= p + l
  <2>1. \A j \in 0 .. n : at[j] \in Nat /\ at[j] <= l
    BY <1>2
  <2>2. \A j \in 0 .. n : at[j] + p \in Nat /\ at[j] + p <= p + l
    BY <2>1
  <2>3. \A j \in 0 .. n : new[j] = at[j] + p
    OBVIOUS
  <2>4. new \in [0 .. n -> Nat]
    BY <2>2
  <2>5. 0 \in 0 .. n /\ n \in 0 .. n /\ 0 + p = p /\ l + p = p + l
    BY <1>1
  <2> HIDE DEF new
  <2>6. new[0] = p /\ new[n] = p + l
    BY <1>2, <2>3, <2>5
  <2> QED BY <2>2, <2>3, <2>4, <2>6
<1> HIDE DEF new
<1>4. ASSUME NEW j \in 1 .. n
      PROVE  new[j] = new[j-1] + Len(q[j]) /\ Occurs(w, new[j-1], q[j])
  <2>1. PICK a \in Nat, b \in Nat, k \in Nat :
          a = at[j-1] /\ b = at[j] /\ k = Len(q[j]) /\ b = a + k /\ b <= l
    <3>1. j - 1 \in 0 .. n /\ j \in 0 .. n
      OBVIOUS
    <3>2. at[j-1] \in Nat /\ at[j] \in Nat /\ at[j] <= l
      BY <1>2, <3>1
    <3>3. at[j] = at[j-1] + Len(q[j]) /\ Len(q[j]) \in Nat
      BY <1>1, <1>2
    <3>4. PICK a \in Nat, b \in Nat, k \in Nat : a = at[j-1] /\ b = at[j] /\ k = Len(q[j])
      BY <3>2, <3>3, Zenon
    <3>5. b = a + k /\ b <= l
      BY <3>2, <3>3, <3>4, Zenon
    <3> QED BY <3>4, <3>5, Zenon
  <2>2. new[j-1] = a + p /\ new[j] = b + p
    <3>1. j - 1 \in 0 .. n /\ j \in 0 .. n
      OBVIOUS
    <3>2. new[j-1] = at[j-1] + p /\ new[j] = at[j] + p
      BY <1>6, <3>1, Zenon
    <3> QED BY <2>1, <3>2, Zenon
  <2>3. ASSUME NEW i \in 1 .. k PROVE w[(a + p) + i] = q[j][i]
    <3>1. v[a + i] = q[j][i]
      BY <1>2, <2>1 DEF Occurs
    <3>2. PICK m \in 1 .. l : m = a + i
      <4>1. b = a + k /\ b <= l
        BY <2>1, Zenon
      <4>2. a + i \in 1 .. l
        BY <4>1
      <4> QED BY <4>2
    <3>3. w[p + m] = v[m]
      BY <1>1, <3>2 DEF Occurs
    <3>4. p + m = (a + p) + i
      BY <3>2
    <3> QED BY <3>1, <3>2, <3>3, <3>4
  <2>4. Occurs(w, a + p, q[j])
    BY <2>1, <2>3 DEF Occurs
  <2> QED BY <2>1, <2>2, <2>4
<1>5. Layout(w, q, new)
  BY <1>1, <1>3, <1>4 DEF Layout
<1> QED BY <1>1, <1>3, <1>5

(* The printed children of an element, and where it stands.                *)
Parts(n) == [i \in DOMAIN n.children |-> Shown[n.children[i]]]

EndTag(w, e) == w[e+1] = "<" /\ w[e+2] = "/" /\ w[e+3] = ">"

Children(w, n, at) ==
  Layout(w, Parts(n), at) /\ EndTag(w, at[Len(n.children)])

LEMMA PartsType ==
  ASSUME NEW n \in Nodes, ~IsText(n)
  PROVE  /\ Parts(n) \in Seq(Seq(Symbols)) /\ Len(Parts(n)) = Len(n.children)
         /\ Len(n.children) \in Nat
         /\ \A i \in 1 .. Len(n.children) :
              /\ n.children[i] \in Nodes
              /\ Parts(n)[i] = Shown[n.children[i]]
              /\ Len(Parts(n)[i]) \in Nat
<1>1. PICK m \in Nat : m = Len(n.children) /\ DOMAIN n.children = 1 .. m
  BY NodeParts
<1>2. \A i \in 1 .. m : n.children[i] \in Nodes
  BY <1>1, ChildrenAreLower
<1>3. Parts(n) = [i \in 1 .. m |-> Shown[n.children[i]]]
  BY <1>1 DEF Parts
<1>4. \A i \in 1 .. m : Shown[n.children[i]] \in Seq(Symbols)
  BY <1>2, ShownIs
<1>5. Parts(n) \in [1 .. m -> Seq(Symbols)] /\ \A i \in 1 .. m : Parts(n)[i] = Shown[n.children[i]]
  BY <1>3, <1>4
<1>6. Parts(n) \in Seq(Seq(Symbols)) /\ Len(Parts(n)) = m
  <2>1. PICK q : q = Parts(n)
    OBVIOUS
  <2>2. q \in [1 .. m -> Seq(Symbols)]
    BY <1>5, <2>1
  <2>3. q \in Seq(Seq(Symbols))
    BY <2>2, SeqDef
  <2>4. Len(q) = m
    BY <2>2, <2>3
  <2> QED BY <2>1, <2>3, <2>4
<1>7. \A i \in 1 .. m : Len(Parts(n)[i]) \in Nat
  BY <1>5, LengthOf
<1> QED BY <1>1, <1>2, <1>5, <1>6, <1>7, Zenon

LEMMA JoinExists ==
  ASSUME NEW S, NEW a \in Seq(S), NEW b \in Seq(S)
  PROVE  \E d \in Seq(S) : d = a \o b
<1>1. a \o b \in Seq(S)
  OBVIOUS
<1> QED BY <1>1

LEMMA ElementLaidOut ==
  ASSUME NEW n \in Nodes, ~IsText(n), NEW w, NEW p \in Nat, Occurs(w, p, Shown[n])
  PROVE  /\ w[p+1] = "<" /\ w[p+2] = n.name /\ w[p+3] = ">"
         /\ \E at : /\ Children(w, n, at) /\ at[0] = p + 3
                    /\ p + Len(Shown[n]) = at[Len(n.children)] + 3
<1>1. PICK b \in Seq(Symbols) : b = FlattenSeq(Parts(n))
  BY PartsType, FlattenLaidOut
<1>2. b \in Seq(Symbols)
  OBVIOUS
<1>3. PICK a \in Seq(Symbols), c \in Seq(Symbols) :
        a = <<"<", n.name, ">">> /\ c = <<"<", "/", ">">> /\ Len(a) = 3 /\ Len(c) = 3
  <2>1. \A x, y, z : Len(<<x, y, z>>) = 3
    OBVIOUS
  <2> QED BY <2>1, MarksAreSymbols
<1>4. Shown[n] = (a \o b) \o c
  <2>1. Showing(Shown, n) = (a \o b) \o c
    BY <1>1, <1>3 DEF Showing, Parts
  <2> QED BY <2>1, ShownIs
<1>5. PICK d \in Seq(Symbols) : d = a \o b
  BY JoinExists
<1>6. Occurs(w, p, d) /\ Occurs(w, p + Len(d), c) /\ Len(Shown[n]) = Len(d) + Len(c)
  BY <1>4, <1>5, OccursJoined
<1>7. Occurs(w, p, a) /\ Occurs(w, p + Len(a), b) /\ Len(d) = Len(a) + Len(b)
  <2>1. Occurs(w, p, d)
    BY <1>6
  <2> QED BY <1>2, <1>5, <2>1, OccursJoined
<1>8. w[p+1] = "<" /\ w[p+2] = n.name /\ w[p+3] = ">"
  BY <1>3, <1>7, OccursTag
<1>9. PICK l \in Nat : l = Len(b)
  BY <1>2, LengthOf
<1>10. PICK o : Layout(b, Parts(n), o) /\ o[0] = 0 /\ o[Len(Parts(n))] = Len(b)
  BY <1>1, PartsType, FlattenLaidOut
<1>11. PICK at : Layout(w, Parts(n), at) /\ at[0] = p + 3 /\ at[Len(Parts(n))] = (p + 3) + Len(b)
  <2>1. PICK x \in Nat : x = p + 3
    OBVIOUS
  <2>2. Occurs(w, x, b)
    BY <1>3, <1>7, <2>1
  <2>3. PICK q \in Seq(Seq(Symbols)) : q = Parts(n)
    BY PartsType
  <2>4. Layout(b, q, o) /\ o[0] = 0 /\ o[Len(q)] = Len(b)
    BY <1>10, <2>3
  <2>5. \E at : Layout(w, q, at) /\ at[0] = x /\ at[Len(q)] = x + Len(b)
    BY <2>2, <2>4, LayoutMoved
  <2> QED BY <2>1, <2>3, <2>5
<1>12. PICK e \in Nat : e = at[Len(n.children)] /\ e = p + 3 + l
  BY <1>9, <1>11, PartsType
<1>13. p + Len(d) = e
  BY <1>3, <1>7, <1>9, <1>12
<1>14. EndTag(w, e)
  BY <1>3, <1>6, <1>12, <1>13, OccursTag DEF EndTag
<1>15. p + Len(Shown[n]) = e + 3
  <2>1. Len(d) = 3 + l /\ Len(Shown[n]) = Len(d) + 3
    BY <1>3, <1>6, <1>7, <1>9, Zenon
  <2> QED BY <1>12, <2>1
<1> QED BY <1>8, <1>11, <1>12, <1>14, <1>15 DEF Children

-----------------------------------------------------------------------------
(***************************************************************************)
(* Where a reader can be in a text that consists of messages.              *)
(***************************************************************************)
(* A message in one of its two forms. *)
MessageAt(w, p, m, q) ==
  \/ Occurs(w, p, Shown[m]) /\ q = p + Len(Shown[m])
  \/ /\ m = Element("done", <<>>) /\ q = p + 3
     /\ w[p+1] = "<" /\ w[p+2] = "done/" /\ w[p+3] = ">"

Rejected(w, p) == w[p+1] = "<" /\ w[p+2] \in Malformed /\ w[p+3] = ">"

(* An element that is being read: what it is, how many of its children are *)
(* read or being read, and where they end.                                 *)
Frame(w, f) ==
  /\ f.node \in Nodes /\ ~IsText(f.node)
  /\ f.done \in 0 .. Len(f.node.children)
  /\ Children(w, f.node, f.at)

Cursor(f) == f.at[f.done]
FrameEnd(f) == f.at[Len(f.node.children)] + 3
ReadSoFar(f, c) == Element(f.node.name, SubSeq(f.node.children, 1, c))

(* The stack holds what was read of the elements of a path through the     *)
(* message that is being read.                                             *)
Inner(st, path, i) ==
  /\ path[i].done >= 1
  /\ path[i+1].node = path[i].node.children[path[i].done]
  /\ FrameEnd(path[i+1]) = Cursor(path[i])
  /\ st[i] = ReadSoFar(path[i], path[i].done - 1)

Opened(w, m, e, st, path) ==
  /\ IsSequence(st) /\ st # <<>>
  /\ \A i \in 1 .. Len(st) : Frame(w, path[i]) /\ FrameEnd(path[i]) <= e
  /\ path[1].node = m /\ FrameEnd(path[1]) = e
  /\ \A i \in 1 .. Len(st) - 1 : Inner(st, path, i)
  /\ st[Len(st)] = ReadSoFar(path[Len(st)], path[Len(st)].done)

(* The next token, at position b of a text of which l symbols arrive.      *)
TokenAt(w, l, b, t) ==
  \/ t = <<w[b+1]>> /\ w[b+1] \in Delimiters /\ b + 1 <= l
  \/ /\ t \in Seq(Symbols) /\ t # <<>>
     /\ \A i \in 1 .. Len(t) : t[i] = w[b+i] /\ t[i] \notin Delimiters
     /\ w[b+Len(t)+1] \in Delimiters /\ b + Len(t) + 1 <= l

LEMMA BracketToken ==
  ASSUME NEW w, NEW l \in Nat, NEW b \in Nat, NEW t, TokenAt(w, l, b, t), w[b+1] \in Delimiters
  PROVE  t = <<w[b+1]>> /\ Len(t) = 1 /\ b + 1 <= l
<1>1. CASE t = <<w[b+1]>> /\ b + 1 <= l
  BY <1>1
<1>2. CASE t \in Seq(Symbols) /\ t # <<>> /\ \A i \in 1 .. Len(t) : t[i] = w[b+i] /\ t[i] \notin Delimiters
  <2>1. 1 \in 1 .. Len(t)
    BY <1>2, LengthOf
  <2>2. w[b+1] \notin Delimiters
    BY <1>2, <2>1
  <2> QED BY <2>2
<1> QED BY <1>1, <1>2 DEF TokenAt

(* A word between brackets, or before one.                                 *)
LEMMA WordToken ==
  ASSUME NEW w, NEW l \in Nat, NEW b \in Nat, NEW t, TokenAt(w, l, b, t), w[b+1] \notin Delimiters
  PROVE  /\ t \in Seq(Symbols) /\ Len(t) \in Nat \ {0} /\ t[1] = w[b+1]
         /\ \A i \in 1 .. Len(t) : t[i] = w[b+i] /\ w[b+i] \notin Delimiters
         /\ w[b+Len(t)+1] \in Delimiters /\ b + Len(t) + 1 <= l
         /\ t # <<"<">> /\ t # <<">">> /\ t # <<>>
         /\ w[b+2] \in Delimiters => t = <<w[b+1]>> /\ Len(t) = 1
<1>1. /\ t \in Seq(Symbols) /\ t # <<>>
      /\ \A i \in 1 .. Len(t) : t[i] = w[b+i] /\ t[i] \notin Delimiters
      /\ w[b+Len(t)+1] \in Delimiters /\ b + Len(t) + 1 <= l
  BY DEF TokenAt
<1>2. Len(t) \in Nat \ {0} /\ 1 \in 1 .. Len(t)
  BY <1>1, LengthOf
<1>3. t[1] = w[b+1] /\ t[1] \notin Delimiters
  BY <1>1, <1>2
<1>4. t # <<"<">> /\ t # <<">">>
  BY <1>3 DEF Delimiters
<1>5. ASSUME w[b+2] \in Delimiters PROVE t = <<w[b+1]>> /\ Len(t) = 1
  <2>1. 2 \notin 1 .. Len(t)
    <3>1. ASSUME 2 \in 1 .. Len(t) PROVE FALSE
      BY <1>1, <1>5, <3>1
    <3> QED BY <3>1
  <2>2. Len(t) = 1
    <3>1. \A n \in Nat \ {0} : 2 \notin 1 .. n => n = 1
      OBVIOUS
    <3> QED BY <1>2, <2>1, <3>1, Zenon
  <2>3. t = <<t[1]>>
    BY <1>1, <2>2
  <2> QED BY <1>3, <2>2, <2>3
<1> QED BY <1>1, <1>2, <1>3, <1>4, <1>5

LEMMA NameIsOpening ==
  ASSUME NEW n \in Nodes
  PROVE  TagKinds(<<n.name>>) = {"open"} /\ TagName(<<n.name>>) = n.name
<1>1. PICK a : a = n.name
  OBVIOUS
<1>2. a \notin Closing /\ a \notin Malformed /\ a \notin DOMAIN SelfClosing
  BY <1>1, NodeParts
<1>3. <<a>> # <<>> /\ Len(<<a>>) = 1 /\ <<a>>[1] = a /\ ~(1 > 1)
  OBVIOUS
<1> QED BY <1>1, <1>2, <1>3 DEF TagKinds, TagName

LEMMA SlashIsClosing == TagKinds(<<"/">>) = {"closing"}
<1>1. "/" \in Closing /\ "/" \notin Malformed /\ "/" \notin DOMAIN SelfClosing
  BY WordsAssumption, XmlReaderAssumption
<1>2. <<"/">> # <<>> /\ Len(<<"/">>) = 1 /\ <<"/">>[1] = "/" /\ ~(1 > 1)
  OBVIOUS
<1> QED BY <1>1, <1>2 DEF TagKinds

LEMMA DoneIsEmpty == TagKinds(<<"done/">>) = {"empty"} /\ TagName(<<"done/">>) = "done"
<1>1. /\ "done/" \notin Closing /\ "done/" \notin Malformed /\ "done/" \in DOMAIN SelfClosing
      /\ SelfClosing["done/"] = "done"
  BY WordsAssumption, XmlReaderAssumption
<1>2. <<"done/">> # <<>> /\ Len(<<"done/">>) = 1 /\ <<"done/">>[1] = "done/" /\ ~(1 > 1)
  OBVIOUS
<1> QED BY <1>1, <1>2 DEF TagKinds, TagName

LEMMA MalformedIsRejected ==
  ASSUME NEW a \in Malformed
  PROVE  TagKinds(<<a>>) = {"reject"} /\ a \notin Delimiters
<1>1. a \notin Closing /\ a \notin DOMAIN SelfClosing /\ a \notin Delimiters
  BY WordsAssumption
<1>2. <<a>> # <<>> /\ Len(<<a>>) = 1 /\ <<a>>[1] = a /\ ~(1 > 1)
  OBVIOUS
<1> QED BY <1>1, <1>2 DEF TagKinds

-----------------------------------------------------------------------------
LEMMA MessageIsElement ==
  ASSUME NEW m \in Messages
  PROVE  m \in Nodes /\ ~IsText(m) /\ m # Null
<1>1. m \in Nodes /\ ~IsText(m)
  BY DEF Messages
<1>2. m.name # "null"
  BY <1>1, NodeParts
<1> QED BY <1>1, <1>2 DEF Null

(* Where an element ends.                                                  *)
LEMMA CursorIn ==
  ASSUME NEW w, NEW f, Frame(w, f)
  PROVE  /\ Len(f.node.children) \in Nat /\ f.done \in Nat /\ f.done <= Len(f.node.children)
         /\ Cursor(f) \in Nat /\ FrameEnd(f) \in Nat
         /\ Cursor(f) + 3 <= FrameEnd(f)
         /\ f.at[Len(f.node.children)] \in Nat /\ f.at[0] \in Nat
         /\ f.at[0] <= f.at[Len(f.node.children)]
<1>1. f.node \in Nodes /\ ~IsText(f.node) /\ f.done \in 0 .. Len(f.node.children)
      /\ Layout(w, Parts(f.node), f.at)
  BY DEF Frame, Children
<1>2. PICK n \in Nat : n = Len(f.node.children) /\ n = Len(Parts(f.node))
  BY <1>1, PartsType
<1>3. f.at \in [0 .. n -> Nat] /\ \A j \in 0 .. n : f.at[j] <= f.at[n]
  BY <1>1, <1>2 DEF Layout
<1>4. f.done \in 0 .. n /\ n \in 0 .. n /\ 0 \in 0 .. n
  BY <1>1, <1>2
<1>5. PICK c \in Nat, e \in Nat, z \in Nat :
        c = f.at[f.done] /\ e = f.at[n] /\ z = f.at[0] /\ c <= e /\ z <= e
  <2>1. f.at[f.done] \in Nat /\ f.at[n] \in Nat /\ f.at[0] \in Nat
    BY <1>3, <1>4
  <2>2. f.at[f.done] <= f.at[n] /\ f.at[0] <= f.at[n]
    BY <1>3, <1>4
  <2> QED BY <2>1, <2>2, Zenon
<1>6. e + 3 \in Nat /\ c + 3 <= e + 3
  BY <1>5
<1>7. f.done \in Nat /\ f.done <= n
  BY <1>4
<1> QED BY <1>2, <1>5, <1>6, <1>7, Zenon DEF Cursor, FrameEnd

LEMMA MessageShape ==
  ASSUME NEW w, NEW p \in Nat, NEW m \in Messages, NEW q, MessageAt(w, p, m, q)
  PROVE  q \in Nat /\ p + 3 <= q /\ w[p+1] = "<" /\ w[q] = ">"
<1>1. CASE Occurs(w, p, Shown[m]) /\ q = p + Len(Shown[m])
  <2>1. m \in Nodes /\ ~IsText(m)
    BY MessageIsElement
  <2>2. w[p+1] = "<"
    BY <1>1, <2>1, ElementLaidOut
  <2>3. PICK at : Children(w, m, at) /\ at[0] = p + 3 /\ q = at[Len(m.children)] + 3
    <3>1. \E at : /\ Children(w, m, at) /\ at[0] = p + 3
                  /\ p + Len(Shown[m]) = at[Len(m.children)] + 3
      BY <1>1, <2>1, ElementLaidOut
    <3> QED BY <1>1, <3>1, Zenon
  <2>4. PICK f : f = [node |-> m, done |-> 0, at |-> at]
    OBVIOUS
  <2>5. Frame(w, f)
    <3>1. Len(m.children) \in Nat
      BY <2>1, PartsType
    <3>2. 0 \in 0 .. Len(m.children)
      BY <3>1
    <3> QED BY <2>1, <2>3, <2>4, <3>2 DEF Frame
  <2>6. PICK c \in Nat : c = at[Len(m.children)] /\ p + 3 <= c
    BY <2>3, <2>4, <2>5, CursorIn
  <2>7. w[c+3] = ">"
    BY <2>3, <2>6 DEF Children, EndTag
  <2>8. q = c + 3
    BY <2>3, <2>6
  <2> QED BY <2>2, <2>6, <2>7, <2>8
<1>2. CASE /\ m = Element("done", <<>>) /\ q = p + 3
           /\ w[p+1] = "<" /\ w[p+2] = "done/" /\ w[p+3] = ">"
  <2>1. q = p + 3 /\ w[q] = ">" /\ w[p+1] = "<"
    BY <1>2
  <2> QED BY <2>1
<1> QED BY <1>1, <1>2 DEF MessageAt

(* The next child of an element that is being read.                        *)
NextChild(w, f, child) ==
  /\ child \in Nodes /\ child = f.node.children[f.done+1]
  /\ Occurs(w, Cursor(f), Shown[child])
  /\ f.at[f.done+1] = Cursor(f) + Len(Shown[child])
  /\ f.at[f.done+1] \in Nat /\ f.done + 1 \in 0 .. Len(f.node.children)

LEMMA ChildIsNext ==
  ASSUME NEW w, NEW f, Frame(w, f), f.done # Len(f.node.children)
  PROVE  \E child : NextChild(w, f, child)
<1>1. f.node \in Nodes /\ ~IsText(f.node) /\ f.done \in 0 .. Len(f.node.children)
      /\ Layout(w, Parts(f.node), f.at)
  BY DEF Frame, Children
<1>2. PICK n \in Nat : n = Len(f.node.children) /\ n = Len(Parts(f.node))
  BY <1>1, PartsType
<1>3. PICK d \in Nat, j \in 1 .. n : d = f.done /\ j = d + 1 /\ j - 1 = d /\ j \in 0 .. n
  BY <1>1, <1>2
<1>4. f.at[j] = f.at[j-1] + Len(Parts(f.node)[j]) /\ Occurs(w, f.at[j-1], Parts(f.node)[j])
      /\ f.at \in [0 .. n -> Nat]
  BY <1>1, <1>2 DEF Layout
<1>5. f.node.children[j] \in Nodes /\ Parts(f.node)[j] = Shown[f.node.children[j]]
  BY <1>1, <1>2, PartsType
<1>6. f.at[j] \in Nat
  BY <1>3, <1>4
<1>7. PICK child : child = f.node.children[j]
  OBVIOUS
<1>8. f.at[j] = f.at[d] + Len(Shown[child]) /\ Occurs(w, f.at[d], Shown[child])
  BY <1>3, <1>4, <1>5, <1>7, Zenon
<1>9. NextChild(w, f, child)
  BY <1>2, <1>3, <1>5, <1>6, <1>7, <1>8, Zenon DEF NextChild, Cursor
<1> QED BY <1>9

LEMMA TextShown ==
  ASSUME NEW n \in Nodes, IsText(n)
  PROVE  /\ Shown[n] = n.children /\ n.children \in Seq(Symbols) /\ Len(n.children) \in Nat \ {0}
         /\ \A i \in 1 .. Len(n.children) : n.children[i] \notin Delimiters
         /\ n = Text(n.children)
<1>1. Shown[n] = n.children
  BY ShownIs DEF Showing
<1>2. n.children \in Seq(Words) /\ n.children # <<>> /\ n.children \in Seq(Symbols)
      /\ n = Element(n.name, n.children)
  BY NodeParts
<1>3. Len(n.children) \in Nat \ {0}
  BY <1>2, LengthOf
<1>4. \A i \in 1 .. Len(n.children) : n.children[i] \in Words
  BY <1>2
<1>5. \A a \in Words : a \notin Delimiters
  BY WordsAssumption
<1>6. n = Text(n.children)
  BY <1>2 DEF IsText, Element, Text
<1> QED BY <1>1, <1>2, <1>3, <1>4, <1>5, <1>6

(* After a text comes the tag of an element.                               *)
LEMMA TextIsEnded ==
  ASSUME NEW w, NEW f, Frame(w, f), NEW child, NextChild(w, f, child), IsText(child)
  PROVE  w[f.at[f.done+1] + 1] = "<"
<1> DEFINE n == Len(f.node.children)
           g == [node |-> f.node, done |-> f.done + 1, at |-> f.at]
<1>1. Frame(w, g)
  BY DEF Frame, NextChild
<1>2. CASE f.done + 1 = n
  BY <1>2 DEF Frame, Children, EndTag
<1>3. CASE f.done + 1 # n
  <2>1. PICK next : NextChild(w, g, next)
    <3>1. g.done # Len(g.node.children)
      BY <1>3
    <3> HIDE DEF g
    <3> QED BY <1>1, <3>1, ChildIsNext
  <2>2. next \in Nodes /\ Occurs(w, f.at[f.done+1], Shown[next])
        /\ next = f.node.children[(f.done+1)+1]
        /\ (f.done + 1) + 1 \in 0 .. Len(f.node.children)
    BY <2>1 DEF NextChild, Cursor
  <2>3. ~IsText(next)
    <3>1. PICK d \in Nat : d = f.done /\ d + 2 \in 1 .. n
      BY <2>2 DEF Frame
    <3>2. f.node.children[d+2] = next /\ f.node.children[(d+2)-1] = child
      BY <2>2, <3>1 DEF NextChild
    <3>3. f.node \in Nodes /\ ~IsText(f.node)
      BY DEF Frame
    <3>4. d + 2 > 1 /\ IsText(next) => ~IsText(child)
      BY <3>1, <3>2, <3>3, NodeParts
    <3> QED BY <3>1, <3>4
  <2>4. f.at[f.done+1] \in Nat
    BY DEF NextChild
  <2> QED BY <2>2, <2>3, <2>4, ElementLaidOut
<1> QED BY <1>2, <1>3

-----------------------------------------------------------------------------
(***************************************************************************)
(* The stack of open nodes, element by element.                            *)
(***************************************************************************)
LEMMA PushedAt ==
  ASSUME NEW s, IsSequence(s), NEW x
  PROVE  /\ \A i \in 1 .. Len(s) : Pushed(s, x)[i] = s[i]
         /\ Pushed(s, x)[Len(s) + 1] = x /\ Pushed(s, x) # <<>>
<1>1. PICK S : s \in Seq(S)
  BY DEF IsSequence
<1> DEFINE T == S \cup {x}
<1>2. s \in Seq(T) /\ x \in T
  BY <1>1, SeqMonotonic
<1> HIDE DEF T
<1>3. /\ \A i \in 1 .. Len(s) : Append(s, x)[i] = s[i]
      /\ Append(s, x)[Len(s) + 1] = x /\ Append(s, x) # <<>>
  BY <1>2, AppendProperties
<1> QED BY <1>3 DEF Pushed

LEMMA PoppedAt ==
  ASSUME NEW s, IsSequence(s), NEW n \in Nat, Len(s) = n + 2
  PROVE  /\ \A i \in 1 .. n : Popped(s)[i] = s[i]
         /\ Popped(s)[n + 1] = [s[n + 1] EXCEPT !.children = Append(@, s[n + 2])]
<1>1. PICK S : s \in Seq(S)
  BY DEF IsSequence
<1> DEFINE front == SubSeq(s, 1, n)
           full == [s[n + 1] EXCEPT !.children = Append(@, s[n + 2])]
<1>2. front \in Seq(S) /\ Len(front) = n /\ \A i \in 1 .. n : front[i] = s[i]
  <2>1. \A i \in 1 .. n : s[i] \in S
    BY <1>1
  <2>2. 1 \in Int /\ n \in Int
    OBVIOUS
  <2>3. /\ front \in Seq(S) /\ Len(front) = IF 1 <= n THEN n - 1 + 1 ELSE 0
        /\ \A i \in 1 .. n - 1 + 1 : front[i] = s[1+i-1]
    BY <2>1, <2>2, SubSeqProperties
  <2>4. Len(front) = n
    <3>1. (IF 1 <= n THEN n - 1 + 1 ELSE 0) = n
      OBVIOUS
    <3> QED BY <2>3, <3>1
  <2>5. ASSUME NEW i \in 1 .. n PROVE front[i] = s[i]
    <3>1. i \in 1 .. n - 1 + 1 /\ 1+i-1 = i
      OBVIOUS
    <3> QED BY <2>3, <3>1
  <2> QED BY <2>3, <2>4, <2>5
<1>3. Popped(s) = Pushed(front, full)
  <2>1. Len(s) # 1 /\ Len(s) - 1 = n + 1 /\ Len(s) - 2 = n
    OBVIOUS
  <2>2. Last(s) = s[n + 2]
    BY DEF Last
  <2>3. Popped(s) = Append(SubSeq(s, 1, Len(s) - 2),
                      [s[Len(s) - 1] EXCEPT !.children = Append(@, Last(s))])
    BY <2>1 DEF Popped
  <2> QED BY <2>1, <2>2, <2>3, Zenon DEF Pushed
<1> HIDE DEF front, full
<1>4. IsSequence(front)
  BY <1>2 DEF IsSequence
<1>5. /\ \A i \in 1 .. n : Pushed(front, full)[i] = front[i]
      /\ Pushed(front, full)[n + 1] = full
  BY <1>2, <1>4, PushedAt
<1>6. \A i \in 1 .. n : Popped(s)[i] = s[i]
  BY <1>2, <1>3, <1>5
<1>7. Popped(s)[n + 1] = full
  BY <1>3, <1>5
<1> QED BY <1>6, <1>7 DEF full

LEMMA ExceptAt ==
  ASSUME NEW s, IsSequence(s), s # <<>>, NEW x
  PROVE  /\ \A i \in 1 .. Len(s) - 1 : [s EXCEPT ![Len(s)] = x][i] = s[i]
         /\ [s EXCEPT ![Len(s)] = x][Len(s)] = x
<1>1. PICK S : s \in Seq(S)
  BY DEF IsSequence
<1>2. PICK n \in Nat \ {0} : n = Len(s) /\ DOMAIN s = 1 .. n
  BY <1>1, SequenceLength
<1>3. \A i \in 1 .. n - 1 : i \in 1 .. n /\ i # n
  BY <1>2
<1>4. n \in 1 .. n
  OBVIOUS
<1> QED BY <1>2, <1>3, <1>4

(* One more child of a node.                                               *)
LEMMA OneMore ==
  ASSUME NEW S, NEW s \in Seq(S), NEW c \in Nat, c + 1 <= Len(s)
  PROVE  Append(SubSeq(s, 1, c), s[c+1]) = SubSeq(s, 1, c + 1)
<1>1. PICK n \in Nat : n = Len(s)
  BY LengthOf
<1>2. /\ SubSeq(s, 1, c) \in Seq(S) /\ Len(SubSeq(s, 1, c)) = c
      /\ \A i \in 1 .. c : SubSeq(s, 1, c)[i] = s[i]
  <2>1. \A i \in 1 .. c : s[i] \in S
    BY <1>1
  <2>2. 1 \in Int /\ c \in Int
    OBVIOUS
  <2>3. /\ SubSeq(s, 1, c) \in Seq(S) /\ Len(SubSeq(s, 1, c)) = IF 1 <= c THEN c - 1 + 1 ELSE 0
        /\ \A i \in 1 .. c - 1 + 1 : SubSeq(s, 1, c)[i] = s[1+i-1]
    BY <2>1, <2>2, SubSeqProperties
  <2>4. (IF 1 <= c THEN c - 1 + 1 ELSE 0) = c
    OBVIOUS
  <2>5. \A i \in 1 .. c : i \in 1 .. c - 1 + 1 /\ 1+i-1 = i
    OBVIOUS
  <2> QED BY <2>3, <2>4, <2>5
<1>3. /\ SubSeq(s, 1, c + 1) \in Seq(S) /\ Len(SubSeq(s, 1, c + 1)) = c + 1
      /\ \A i \in 1 .. c + 1 : SubSeq(s, 1, c + 1)[i] = s[i]
  <2>1. \A i \in 1 .. c + 1 : s[i] \in S
    BY <1>1
  <2>2. 1 \in Int /\ c + 1 \in Int
    OBVIOUS
  <2>3. /\ SubSeq(s, 1, c + 1) \in Seq(S)
        /\ Len(SubSeq(s, 1, c + 1)) = IF 1 <= c + 1 THEN c + 1 - 1 + 1 ELSE 0
        /\ \A i \in 1 .. c + 1 - 1 + 1 : SubSeq(s, 1, c + 1)[i] = s[1+i-1]
    BY <2>1, <2>2, SubSeqProperties
  <2>4. (IF 1 <= c + 1 THEN c + 1 - 1 + 1 ELSE 0) = c + 1
    OBVIOUS
  <2>5. \A i \in 1 .. c + 1 : i \in 1 .. c + 1 - 1 + 1 /\ 1+i-1 = i
    OBVIOUS
  <2> QED BY <2>3, <2>4, <2>5
<1>4. PICK a \in Seq(S), b \in Seq(S), x \in S :
        a = SubSeq(s, 1, c) /\ b = SubSeq(s, 1, c + 1) /\ x = s[c+1]
  <2>1. s[c+1] \in S
    <3>1. c + 1 \in 1 .. n
      BY <1>1
    <3> QED BY <1>1, <3>1
  <2> QED BY <1>2, <1>3, <2>1, Zenon
<1>5. Append(a, x) \in Seq(S) /\ Len(Append(a, x)) = c + 1
      /\ (\A i \in 1 .. c : Append(a, x)[i] = a[i]) /\ Append(a, x)[c+1] = x
  BY <1>2, <1>4, AppendProperties
<1>6. \A i \in 1 .. c + 1 : Append(a, x)[i] = b[i]
  <2>1. \A i \in 1 .. c + 1 : i \in 1 .. c \/ i = c + 1
    OBVIOUS
  <2>2. \A i \in 1 .. c : a[i] = s[i]
    BY <1>2, <1>4
  <2>3. \A i \in 1 .. c + 1 : b[i] = s[i]
    BY <1>3, <1>4
  <2> QED BY <1>4, <1>5, <2>1, <2>2, <2>3
<1>7. Append(a, x) = b
  <2>1. PICK d \in Seq(S) : d = Append(a, x)
    BY <1>5
  <2>2. Len(d) = Len(b) /\ \A i \in 1 .. Len(d) : d[i] = b[i]
    BY <1>3, <1>4, <1>5, <1>6, <2>1
  <2>3. d = b
    BY <2>2, SeqEqual
  <2> QED BY <2>1, <2>3
<1> QED BY <1>4, <1>7

LEMMA ElementFilled ==
  ASSUME NEW a, NEW u, NEW x, NEW n, n = Element(a, u), NEW v, v = Append(u, x)
  PROVE  [n EXCEPT !.children = Append(@, x)] = Element(a, v)
<1>1. n = [name |-> a, children |-> u] /\ n.children = u
  BY DEF Element
<1>2. [n EXCEPT !.children = v] = [name |-> a, children |-> v]
  BY <1>1
<1>3. [n EXCEPT !.children = Append(@, x)] = [n EXCEPT !.children = v]
  BY <1>1
<1> QED BY <1>2, <1>3 DEF Element

LEMMA OneMoreChild ==
  ASSUME NEW w, NEW f, Frame(w, f), NEW c \in Nat, c + 1 <= Len(f.node.children),
         NEW child, child = f.node.children[c+1]
  PROVE  [ReadSoFar(f, c) EXCEPT !.children = Append(@, child)] = ReadSoFar(f, c + 1)
<1>1. f.node.children \in Seq(Nodes)
  BY NodeParts DEF Frame
<1>2. PICK s \in Seq(Nodes) : s = f.node.children
  BY <1>1
<1>3. Append(SubSeq(s, 1, c), s[c+1]) = SubSeq(s, 1, c + 1)
  BY <1>2, OneMore
<1>4. PICK u, v, a : u = SubSeq(s, 1, c) /\ v = SubSeq(s, 1, c + 1) /\ a = f.node.name
  OBVIOUS
<1>5. Append(u, child) = v
  BY <1>2, <1>3, <1>4
<1>6. PICK n : n = Element(a, u)
  OBVIOUS
<1>7. [n EXCEPT !.children = Append(@, child)] = Element(a, v)
  BY <1>5, <1>6, ElementFilled
<1>8. ReadSoFar(f, c) = n /\ ReadSoFar(f, c + 1) = Element(a, v)
  BY <1>2, <1>4, <1>6 DEF ReadSoFar
<1> QED BY <1>7, <1>8

LEMMA AllChildren ==
  ASSUME NEW w, NEW f, Frame(w, f)
  PROVE  ReadSoFar(f, Len(f.node.children)) = f.node
<1>1. f.node.children \in Seq(Nodes) /\ f.node = Element(f.node.name, f.node.children)
  BY NodeParts DEF Frame
<1>2. SubSeq(f.node.children, 1, Len(f.node.children)) = f.node.children
  BY <1>1, SubSeqFull
<1> QED BY <1>1, <1>2 DEF ReadSoFar

LEMMA NoChildren ==
  ASSUME NEW f
  PROVE  ReadSoFar(f, 0) = Element(f.node.name, <<>>)
<1>1. SubSeq(f.node.children, 1, 0) = <<>>
  BY SubSeqEmpty
<1> QED BY <1>1 DEF ReadSoFar

-----------------------------------------------------------------------------
(***************************************************************************)
(* What can follow where a reader stands in an element of a message.       *)
(***************************************************************************)
Standing(w, m, e, st, c) ==
  \E path : Opened(w, m, e, st, path) /\ Cursor(path[Len(st)]) = c

(* The closing tag of the innermost element,                               *)
EndHere(w, m, e, st, c) ==
  /\ EndTag(w, c)
  /\ Len(st) = 1 => Last(st) = m /\ c + 3 = e
  /\ Len(st) # 1 => Standing(w, m, e, Popped(st), c + 3)

(* a child,                                                                *)
ChildHere(w, m, e, st, c, n) ==
  /\ w[c+1] = "<" /\ w[c+2] = n.name /\ w[c+3] = ">"
  /\ Standing(w, m, e, Pushed(st, Element(n.name, <<>>)), c + 3)

(* or a text.                                                              *)
TextHere(w, m, e, st, c, t) ==
  /\ t \in Seq(Symbols) /\ Len(t) \in Nat \ {0}
  /\ \A i \in 1 .. Len(t) : w[c+i] = t[i] /\ t[i] \notin Delimiters
  /\ w[c+Len(t)+1] = "<"
  /\ Standing(w, m, e, [st EXCEPT ![Len(st)].children = Append(@, Text(t))], c + Len(t))

LEMMA StandingIn ==
  ASSUME NEW w, NEW m, NEW e, NEW st, NEW c, Standing(w, m, e, st, c)
  PROVE  /\ IsSequence(st) /\ st # <<>> /\ Len(st) \in Nat \ {0} /\ c \in Nat
         /\ \E z \in Nat : c + 3 <= z /\ z <= e
<1>1. PICK path : Opened(w, m, e, st, path) /\ Cursor(path[Len(st)]) = c
  BY DEF Standing
<1>2. IsSequence(st) /\ st # <<>> /\ \A i \in 1 .. Len(st) : Frame(w, path[i]) /\ FrameEnd(path[i]) <= e
  BY <1>1 DEF Opened
<1>3. PICK d \in Nat \ {0} : d = Len(st)
  BY <1>2, SequenceLength
<1>4. d \in 1 .. d
  BY <1>3
<1>5. Frame(w, path[d]) /\ FrameEnd(path[d]) <= e
  BY <1>2, <1>3, <1>4
<1>6. FrameEnd(path[d]) \in Nat /\ c \in Nat /\ c + 3 <= FrameEnd(path[d])
  <2>1. FrameEnd(path[d]) \in Nat /\ Cursor(path[d]) \in Nat /\ Cursor(path[d]) + 3 <= FrameEnd(path[d])
    BY <1>5, CursorIn
  <2> QED BY <1>1, <1>3, <2>1, Zenon
<1> QED BY <1>2, <1>3, <1>5, <1>6, Zenon

(* The innermost element.                                                  *)
Innermost(w, e, st, path, f, c) ==
  /\ f = path[Len(st)] /\ Frame(w, f) /\ FrameEnd(f) <= e /\ Cursor(f) = c
  /\ st[Len(st)] = ReadSoFar(f, f.done)
  /\ Len(st) \in Nat \ {0} /\ IsSequence(st) /\ st # <<>>

LEMMA InnermostIs ==
  ASSUME NEW w, NEW m, NEW e, NEW st, NEW path, Opened(w, m, e, st, path)
  PROVE  Innermost(w, e, st, path, path[Len(st)], Cursor(path[Len(st)]))
<1>1. IsSequence(st) /\ st # <<>> /\ \A i \in 1 .. Len(st) : Frame(w, path[i]) /\ FrameEnd(path[i]) <= e
  BY DEF Opened
<1>2. Len(st) \in Nat \ {0} /\ Len(st) \in 1 .. Len(st)
  BY <1>1, SequenceLength
<1> QED BY <1>1, <1>2 DEF Innermost, Opened

(* A text is added to the innermost element.                               *)
LEMMA TextAdded ==
  ASSUME NEW w, NEW m, NEW e, NEW st, NEW path, Opened(w, m, e, st, path),
         NEW f, NEW c, Innermost(w, e, st, path, f, c),
         NEW n, NextChild(w, f, n)
  PROVE  Standing(w, m, e, [st EXCEPT ![Len(st)].children = Append(@, n)], f.at[f.done+1])
<1>1. PICK d \in Nat \ {0} : d = Len(st)
  BY DEF Innermost
<1> DEFINE g == [node |-> f.node, done |-> f.done + 1, at |-> f.at]
           new == [i \in 1 .. d |-> IF i = d THEN g ELSE path[i]]
           x == [st[Len(st)] EXCEPT !.children = Append(@, n)]
           s == [st EXCEPT ![Len(st)] = x]
<1>2. g.node = f.node /\ g.done = f.done + 1 /\ g.at = f.at
  OBVIOUS
<1>3. new[d] = g /\ \A i \in 1 .. d - 1 : new[i] = path[i]
  BY <1>1
<1>4. [st EXCEPT ![Len(st)].children = Append(@, n)] = s
  OBVIOUS
<1>5. x = ReadSoFar(g, g.done)
  <2>1. st[Len(st)] = ReadSoFar(f, f.done) /\ Frame(w, f)
    BY DEF Innermost
  <2>2. PICK k \in Nat : k = f.done /\ k + 1 <= Len(f.node.children)
    <3>1. f.done + 1 \in 0 .. Len(f.node.children) /\ Len(f.node.children) \in Nat /\ f.done \in Nat
      BY <2>1, CursorIn DEF NextChild
    <3> QED BY <3>1
  <2>3. n = f.node.children[k+1]
    BY <2>2 DEF NextChild
  <2>4. [ReadSoFar(f, k) EXCEPT !.children = Append(@, n)] = ReadSoFar(f, k + 1)
    BY <2>1, <2>2, <2>3, OneMoreChild
  <2>5. x = ReadSoFar(f, k + 1)
    BY <2>1, <2>2, <2>4
  <2> QED BY <1>2, <2>2, <2>5 DEF ReadSoFar
<1> HIDE DEF g, new, x
<1>6. IsSequence(st) /\ st # <<>>
  BY DEF Innermost
<1>7. /\ IsSequence(s) /\ Len(s) = d /\ s # <<>>
      /\ s[d] = x /\ \A i \in 1 .. d - 1 : s[i] = st[i]
  <2>1. IsSequence(s) /\ Len(s) = d
    BY <1>1, <1>6, SequenceExcept
  <2>2. s[d] = x /\ \A i \in 1 .. d - 1 : s[i] = st[i]
    BY <1>1, <1>6, ExceptAt
  <2>3. s # <<>>
    <3>1. d # 0
      OBVIOUS
    <3> HIDE DEF s
    <3> QED BY <2>1, <3>1, SequenceLength
  <2> QED BY <2>1, <2>2, <2>3
<1> HIDE DEF s
<1>8. Frame(w, g) /\ FrameEnd(g) = FrameEnd(f) /\ g.node = f.node
  BY <1>2 DEF Innermost, Frame, NextChild, FrameEnd
<1>9. /\ \A i \in 1 .. d : Frame(w, new[i]) /\ FrameEnd(new[i]) = FrameEnd(path[i])
                           /\ new[i].node = path[i].node
      /\ \A i \in 1 .. d : FrameEnd(new[i]) <= e
  <2>1. \A i \in 1 .. d : i = d \/ i \in 1 .. d - 1
    OBVIOUS
  <2>2. \A i \in 1 .. d : Frame(w, path[i]) /\ FrameEnd(path[i]) <= e
    BY <1>1 DEF Opened
  <2>3. f = path[d]
    BY <1>1 DEF Innermost
  <2>4. ASSUME NEW i \in 1 .. d
        PROVE  Frame(w, new[i]) /\ FrameEnd(new[i]) = FrameEnd(path[i]) /\ new[i].node = path[i].node
    <3>1. CASE i = d
      BY <1>3, <1>8, <2>3, <3>1
    <3>2. CASE i \in 1 .. d - 1
      BY <1>3, <2>2, <3>2
    <3> QED BY <2>1, <3>1, <3>2
  <2>5. ASSUME NEW i \in 1 .. d PROVE FrameEnd(new[i]) <= e
    <3>1. FrameEnd(new[i]) = FrameEnd(path[i]) /\ FrameEnd(path[i]) <= e
      BY <2>2, <2>4
    <3> QED BY <3>1
  <2> QED BY <2>4, <2>5
<1>10. ASSUME NEW i \in 1 .. d - 1 PROVE Inner(s, new, i)
  <2>1. Inner(st, path, i)
    BY <1>1 DEF Opened
  <2>2. i + 1 \in 1 .. d /\ i \in 1 .. d
    BY <1>1
  <2>3. new[i] = path[i] /\ s[i] = st[i]
    BY <1>3, <1>7
  <2>4. new[i+1].node = path[i+1].node /\ FrameEnd(new[i+1]) = FrameEnd(path[i+1])
    BY <1>9, <2>2
  <2> QED BY <2>1, <2>3, <2>4 DEF Inner
<1>11. new[1].node = m /\ FrameEnd(new[1]) = e
  <2>1. path[1].node = m /\ FrameEnd(path[1]) = e
    BY DEF Opened
  <2>2. 1 \in 1 .. d
    BY <1>1
  <2> QED BY <1>9, <2>1, <2>2
<1>12. Opened(w, m, e, s, new)
  <2>1. s[d] = ReadSoFar(new[d], new[d].done)
    BY <1>3, <1>5, <1>7
  <2> QED BY <1>7, <1>9, <1>10, <1>11, <2>1 DEF Opened
<1>13. Cursor(new[d]) = f.at[f.done+1]
  BY <1>2, <1>3 DEF Cursor
<1> QED BY <1>4, <1>7, <1>12, <1>13 DEF Standing

-----------------------------------------------------------------------------
(* The frame of an element of which nothing has been read.                 *)
Fresh(w, n, p, g) ==
  /\ Frame(w, g) /\ g.node = n /\ g.done = 0
  /\ Cursor(g) = p + 3 /\ FrameEnd(g) = p + Len(Shown[n])

LEMMA FreshFrame ==
  ASSUME NEW n \in Nodes, ~IsText(n), NEW w, NEW p \in Nat, Occurs(w, p, Shown[n])
  PROVE  \E g : Fresh(w, n, p, g)
<1>1. PICK at : /\ Children(w, n, at) /\ at[0] = p + 3
                /\ p + Len(Shown[n]) = at[Len(n.children)] + 3
  BY ElementLaidOut
<1>2. PICK g : g = [node |-> n, done |-> 0, at |-> at]
  OBVIOUS
<1>3. g.node = n /\ g.done = 0 /\ g.at = at
  BY <1>2
<1>4. 0 \in 0 .. Len(n.children)
  <2>1. Len(n.children) \in Nat
    BY PartsType
  <2> QED BY <2>1
<1>5. Frame(w, g)
  BY <1>1, <1>3, <1>4 DEF Frame
<1>6. Cursor(g) = p + 3 /\ FrameEnd(g) = p + Len(Shown[n])
  BY <1>1, <1>3 DEF Cursor, FrameEnd
<1>7. Fresh(w, n, p, g)
  BY <1>3, <1>5, <1>6 DEF Fresh
<1> QED BY <1>7

LEMMA FirstOpened ==
  ASSUME NEW m \in Messages, NEW w, NEW p \in Nat, Occurs(w, p, Shown[m])
  PROVE  Standing(w, m, p + Len(Shown[m]), Pushed(<<>>, Element(m.name, <<>>)), p + 3)
<1>1. m \in Nodes /\ ~IsText(m)
  BY MessageIsElement
<1>2. PICK g : Fresh(w, m, p, g)
  BY <1>1, FreshFrame
<1>3. PICK e \in Nat : e = p + Len(Shown[m])
  <2>1. Len(Shown[m]) \in Nat
    BY <1>1, ShownIs, LengthOf
  <2> QED BY <2>1
<1>4. PICK x, s, path : x = Element(m.name, <<>>) /\ s = Pushed(<<>>, x) /\ path = <<g>>
  OBVIOUS
<1>5. IsSequence(<<>>) /\ Len(<<>>) = 0
  <2>1. <<>> \in Seq({}) /\ Len(<<>>) = 0
    OBVIOUS
  <2> QED BY <2>1 DEF IsSequence
<1>6. IsSequence(s) /\ Len(s) = 1 /\ s # <<>> /\ s[1] = x
  <2>1. IsSequence(s) /\ Len(s) = Len(<<>>) + 1
    BY <1>4, <1>5, SequencePushed
  <2>2. s # <<>> /\ s[Len(<<>>) + 1] = x
    BY <1>4, <1>5, PushedAt
  <2>3. 0 + 1 = 1
    OBVIOUS
  <2> QED BY <1>5, <2>1, <2>2, <2>3, Zenon
<1>7. path[1] = g
  BY <1>4
<1>8. x = ReadSoFar(g, g.done)
  <2>1. ReadSoFar(g, 0) = Element(g.node.name, <<>>)
    BY NoChildren
  <2> QED BY <1>2, <1>4, <2>1 DEF Fresh
<1>9. Opened(w, m, e, s, path)
  <2>1. Frame(w, g) /\ FrameEnd(g) = e /\ e <= e /\ g.node = m
    BY <1>2, <1>3 DEF Fresh
  <2>2. \A i \in 1 .. 1 : i = 1
    OBVIOUS
  <2>3. \A i \in 1 .. 1 - 1 : FALSE
    OBVIOUS
  <2> QED BY <1>6, <1>7, <1>8, <2>1, <2>2, <2>3 DEF Opened
<1>10. Cursor(path[1]) = p + 3
  BY <1>2, <1>7 DEF Fresh
<1>11. Standing(w, m, e, s, p + 3)
  BY <1>6, <1>9, <1>10 DEF Standing
<1> QED BY <1>3, <1>4, <1>11

LEMMA ChildOpened ==
  ASSUME NEW w, NEW m, NEW e, NEW st, NEW path, Opened(w, m, e, st, path),
         NEW f, NEW c, Innermost(w, e, st, path, f, c),
         NEW n, NextChild(w, f, n), ~IsText(n)
  PROVE  Standing(w, m, e, Pushed(st, Element(n.name, <<>>)), c + 3)
<1>1. PICK d \in Nat \ {0} : d = Len(st)
  BY DEF Innermost
<1>2. n \in Nodes /\ c \in Nat /\ Occurs(w, c, Shown[n])
  BY CursorIn DEF NextChild, Innermost
<1>3. PICK h : Fresh(w, n, c, h)
  BY <1>2, FreshFrame
<1> DEFINE g == [node |-> f.node, done |-> f.done + 1, at |-> f.at]
           new == [i \in 1 .. d + 1 |-> IF i = d + 1 THEN h ELSE IF i = d THEN g ELSE path[i]]
           x == Element(n.name, <<>>)
           s == Pushed(st, x)
<1>4. g.node = f.node /\ g.done = f.done + 1 /\ g.at = f.at
  OBVIOUS
<1>5. new[d + 1] = h /\ new[d] = g /\ \A i \in 1 .. d - 1 : new[i] = path[i]
  <2>1. d + 1 \in 1 .. d + 1 /\ d \in 1 .. d + 1 /\ d # d + 1
    OBVIOUS
  <2>2. \A i \in 1 .. d - 1 : i \in 1 .. d + 1 /\ i # d + 1 /\ i # d
    OBVIOUS
  <2> QED BY <2>1, <2>2
<1> HIDE DEF g, new
<1>6. IsSequence(st) /\ st # <<>>
  BY DEF Innermost
<1>7. /\ IsSequence(s) /\ Len(s) = d + 1 /\ s # <<>>
      /\ s[d + 1] = x /\ \A i \in 1 .. d : s[i] = st[i]
  <2>1. IsSequence(s) /\ Len(s) = d + 1
    BY <1>1, <1>6, SequencePushed
  <2>2. s # <<>> /\ s[d + 1] = x /\ \A i \in 1 .. d : s[i] = st[i]
    BY <1>1, <1>6, PushedAt
  <2> QED BY <2>1, <2>2
<1>8. x = ReadSoFar(h, h.done)
  <2>1. ReadSoFar(h, 0) = Element(h.node.name, <<>>)
    BY NoChildren
  <2> QED BY <1>3, <2>1 DEF Fresh
<1> HIDE DEF s, x
<1>9. Frame(w, g) /\ FrameEnd(g) = FrameEnd(f) /\ g.node = f.node
  BY <1>4 DEF Innermost, Frame, NextChild, FrameEnd
<1>10. Frame(w, h) /\ FrameEnd(h) = Cursor(g) /\ Cursor(h) = c + 3 /\ h.node = n
  <2>1. FrameEnd(h) = c + Len(Shown[n]) /\ Frame(w, h) /\ Cursor(h) = c + 3 /\ h.node = n
    BY <1>3 DEF Fresh
  <2>2. Cursor(g) = c + Len(Shown[n])
    BY <1>4 DEF Innermost, Cursor, NextChild
  <2> QED BY <2>1, <2>2
<1>11. FrameEnd(h) <= e
  <2>1. Cursor(g) \in Nat /\ Cursor(g) + 3 <= FrameEnd(g) /\ FrameEnd(g) \in Nat
    BY <1>9, CursorIn
  <2>2. PICK a \in Nat, b \in Nat : a = Cursor(g) /\ b = FrameEnd(g) /\ a + 3 <= b
    BY <2>1
  <2>3. e - 0 = e \/ TRUE
    OBVIOUS
  <2>4. b <= e
    BY <1>9, <2>2 DEF Innermost
  <2>5. path[1].node = m /\ FrameEnd(path[1]) = e /\ Frame(w, path[1])
    <3>1. 1 \in 1 .. d
      BY <1>1
    <3> QED BY <1>1, <3>1 DEF Opened
  <2>6. e \in Nat
    BY <2>5, CursorIn
  <2>7. a <= e
    BY <2>2, <2>4, <2>6
  <2> QED BY <1>10, <2>2, <2>7
<1>12. \A i \in 1 .. d : /\ Frame(w, new[i]) /\ FrameEnd(new[i]) = FrameEnd(path[i])
                         /\ new[i].node = path[i].node /\ FrameEnd(new[i]) <= e
  <2>1. \A i \in 1 .. d : i = d \/ i \in 1 .. d - 1
    OBVIOUS
  <2>2. \A i \in 1 .. d : Frame(w, path[i]) /\ FrameEnd(path[i]) <= e
    BY <1>1 DEF Opened
  <2>3. f = path[d]
    BY <1>1 DEF Innermost
  <2>4. ASSUME NEW i \in 1 .. d
        PROVE  /\ Frame(w, new[i]) /\ FrameEnd(new[i]) = FrameEnd(path[i])
               /\ new[i].node = path[i].node /\ FrameEnd(path[i]) <= e
    <3>1. CASE i = d
      BY <1>5, <1>9, <2>2, <2>3, <3>1
    <3>2. CASE i \in 1 .. d - 1
      BY <1>5, <2>2, <3>2
    <3> QED BY <2>1, <3>1, <3>2
  <2> QED BY <2>4
<1>13. \A i \in 1 .. d + 1 : Frame(w, new[i]) /\ FrameEnd(new[i]) <= e
  <2>1. \A i \in 1 .. d + 1 : i = d + 1 \/ i \in 1 .. d
    OBVIOUS
  <2> QED BY <1>5, <1>10, <1>11, <1>12, <2>1
<1>14. ASSUME NEW i \in 1 .. d PROVE Inner(s, new, i)
  <2>1. CASE i = d
    <3>1. st[d] = ReadSoFar(f, f.done) /\ Frame(w, f)
      BY <1>1 DEF Innermost
    <3>2. f.done \in Nat
      BY <3>1, CursorIn
    <3>3. g.done >= 1 /\ g.done - 1 = f.done
      BY <1>4, <3>2
    <3>4. s[d] = ReadSoFar(g, g.done - 1)
      <4>1. s[d] = st[d]
        BY <1>7
      <4> QED BY <1>4, <3>1, <3>3, <4>1 DEF ReadSoFar
    <3>5. h.node = g.node.children[g.done]
      BY <1>4, <1>10 DEF NextChild
    <3> QED BY <1>5, <1>10, <2>1, <3>3, <3>4, <3>5 DEF Inner
  <2>2. CASE i \in 1 .. d - 1
    <3>1. Inner(st, path, i)
      BY <1>1, <2>2 DEF Opened
    <3>2. i + 1 \in 1 .. d /\ i \in 1 .. d
      BY <1>1, <2>2
    <3>3. new[i] = path[i] /\ s[i] = st[i]
      BY <1>5, <1>7, <2>2, <3>2
    <3>4. new[i+1].node = path[i+1].node /\ FrameEnd(new[i+1]) = FrameEnd(path[i+1])
      BY <1>12, <3>2
    <3> QED BY <3>1, <3>3, <3>4 DEF Inner
  <2>3. i = d \/ i \in 1 .. d - 1
    OBVIOUS
  <2> QED BY <2>1, <2>2, <2>3
<1>15. new[1].node = m /\ FrameEnd(new[1]) = e
  <2>1. path[1].node = m /\ FrameEnd(path[1]) = e
    BY DEF Opened
  <2>2. 1 \in 1 .. d
    BY <1>1
  <2> QED BY <1>12, <2>1, <2>2
<1>16. Opened(w, m, e, s, new)
  <2>1. s[d + 1] = ReadSoFar(new[d + 1], new[d + 1].done)
    BY <1>5, <1>7, <1>8
  <2>2. \A i \in 1 .. (d + 1) - 1 : Inner(s, new, i)
    BY <1>14
  <2> QED BY <1>7, <1>13, <1>15, <2>1, <2>2 DEF Opened
<1>17. Cursor(new[d + 1]) = c + 3
  BY <1>5, <1>10
<1>18. Standing(w, m, e, s, c + 3)
  BY <1>7, <1>16, <1>17 DEF Standing
<1> QED BY <1>18 DEF s, x

(* The innermost element is closed: it becomes a child of the next one.    *)
LEMMA ElementClosed ==
  ASSUME NEW w, NEW m, NEW e, NEW st, NEW path, Opened(w, m, e, st, path),
         NEW f, NEW c, Innermost(w, e, st, path, f, c), f.done = Len(f.node.children)
  PROVE  EndHere(w, m, e, st, c)
<1>1. PICK d \in Nat \ {0} : d = Len(st)
  BY DEF Innermost
<1>2. f = path[d] /\ Frame(w, f) /\ Cursor(f) = c /\ FrameEnd(f) = c + 3
  BY <1>1 DEF Innermost, Cursor, FrameEnd
<1>3. EndTag(w, c)
  BY <1>2 DEF Frame, Children, Cursor
<1>4. st[d] = f.node
  <2>1. ReadSoFar(f, Len(f.node.children)) = f.node
    BY <1>2, AllChildren
  <2> QED BY <1>1, <2>1 DEF Innermost
<1>5. ASSUME d = 1 PROVE Last(st) = m /\ c + 3 = e
  <2>1. path[1].node = m /\ FrameEnd(path[1]) = e
    BY DEF Opened
  <2> QED BY <1>1, <1>2, <1>4, <1>5, <2>1 DEF Last
<1>6. ASSUME d # 1 PROVE Standing(w, m, e, Popped(st), c + 3)
  <2>1. PICK n \in Nat : d = n + 2
    <3>1. d - 2 \in Nat /\ d = (d - 2) + 2
      BY <1>6
    <3> QED BY <3>1
  <2>2. PICK s, o : s = Popped(st) /\ o = path[n + 1]
    OBVIOUS
  <2>3. IsSequence(st) /\ st # <<>>
    BY DEF Innermost
  <2>4. IsSequence(s) /\ Len(s) = n + 1 /\ s # <<>>
    <3>1. IsSequence(s) /\ Len(s) = d - 1
      BY <1>1, <2>2, <2>3, SequencePopped
    <3>2. Len(s) = n + 1 /\ n + 1 # 0
      BY <2>1, <3>1
    <3> QED BY <3>1, <3>2, SequenceLength
  <2>5. /\ \A i \in 1 .. n : s[i] = st[i]
        /\ s[n + 1] = [st[n + 1] EXCEPT !.children = Append(@, st[n + 2])]
    <3>1. Len(st) = n + 2
      BY <1>1, <2>1
    <3>2. /\ \A i \in 1 .. n : Popped(st)[i] = st[i]
          /\ Popped(st)[n + 1] = [st[n + 1] EXCEPT !.children = Append(@, st[n + 2])]
      BY <2>3, <3>1, PoppedAt
    <3> QED BY <2>2, <3>2, Zenon
  <2>6. Inner(st, path, n + 1)
    <3>1. n + 1 \in 1 .. d - 1
      BY <2>1
    <3> QED BY <1>1, <3>1 DEF Opened
  <2>7. /\ o.done >= 1 /\ f.node = o.node.children[o.done] /\ FrameEnd(f) = Cursor(o)
        /\ st[n + 1] = ReadSoFar(o, o.done - 1)
    <3>1. (n + 1) + 1 = d
      BY <2>1
    <3> QED BY <1>2, <2>2, <2>6, <3>1 DEF Inner
  <2>8. Frame(w, o)
    <3>1. n + 1 \in 1 .. d
      BY <2>1
    <3> QED BY <1>1, <2>2, <3>1 DEF Opened
  <2>9. s[n + 1] = ReadSoFar(o, o.done)
    <3>1. PICK k \in Nat : k + 1 = o.done /\ k + 1 <= Len(o.node.children) /\ o.done - 1 = k
      <4>1. o.done \in Nat /\ o.done <= Len(o.node.children) /\ o.done >= 1
        BY <2>7, <2>8, CursorIn
      <4>2. \A a \in Nat : a >= 1 => \E k \in Nat : k + 1 = a /\ a - 1 = k
        <5>1. \A a \in Nat : a >= 1 => a - 1 \in Nat /\ (a - 1) + 1 = a
          OBVIOUS
        <5> QED BY <5>1
      <4> QED BY <4>1, <4>2
    <3>2. PICK v, u : v = ReadSoFar(o, k) /\ u = f.node
      OBVIOUS
    <3>3. u = o.node.children[k+1]
      BY <2>7, <3>1, <3>2, Zenon
    <3>4. st[n + 1] = v
      BY <2>7, <3>1, <3>2, Zenon
    <3>5. st[n + 2] = u
      BY <1>4, <2>1, <3>2
    <3>6. s[n + 1] = [v EXCEPT !.children = Append(@, u)]
      BY <2>5, <3>4, <3>5
    <3>7. [v EXCEPT !.children = Append(@, u)] = ReadSoFar(o, k + 1)
      <4>1. [ReadSoFar(o, k) EXCEPT !.children = Append(@, u)] = ReadSoFar(o, k + 1)
        BY <2>8, <3>1, <3>3, OneMoreChild
      <4> QED BY <3>2, <4>1
    <3>8. ReadSoFar(o, k + 1) = ReadSoFar(o, o.done)
      BY <3>1
    <3> QED BY <3>6, <3>7, <3>8
  <2>10. Opened(w, m, e, s, path)
    <3>1. \A i \in 1 .. n + 1 : Frame(w, path[i]) /\ FrameEnd(path[i]) <= e
      <4>1. \A i \in 1 .. n + 1 : i \in 1 .. d
        BY <2>1
      <4> QED BY <1>1, <4>1 DEF Opened
    <3>2. ASSUME NEW i \in 1 .. (n + 1) - 1 PROVE Inner(s, path, i)
      <4>1. i \in 1 .. d - 1 /\ i \in 1 .. n
        BY <2>1
      <4>2. Inner(st, path, i)
        BY <1>1, <4>1 DEF Opened
      <4> QED BY <2>5, <4>1, <4>2 DEF Inner
    <3>3. path[1].node = m /\ FrameEnd(path[1]) = e
      BY DEF Opened
    <3> QED BY <2>2, <2>4, <2>9, <3>1, <3>2, <3>3 DEF Opened
  <2>11. Cursor(path[n + 1]) = c + 3
    BY <1>2, <2>2, <2>7
  <2> QED BY <2>2, <2>4, <2>10, <2>11 DEF Standing
<1> QED BY <1>1, <1>3, <1>5, <1>6 DEF EndHere

-----------------------------------------------------------------------------
LEMMA WhatFollows ==
  ASSUME NEW w, NEW m, NEW e, NEW st, NEW c, Standing(w, m, e, st, c)
  PROVE  \/ EndHere(w, m, e, st, c)
         \/ \E n \in Nodes : ~IsText(n) /\ ChildHere(w, m, e, st, c, n)
         \/ \E t : TextHere(w, m, e, st, c, t)
<1>1. PICK path : Opened(w, m, e, st, path) /\ Cursor(path[Len(st)]) = c
  BY DEF Standing
<1>2. PICK f : f = path[Len(st)]
  OBVIOUS
<1>3. Innermost(w, e, st, path, f, c)
  BY <1>1, <1>2, InnermostIs
<1>4. Frame(w, f) /\ Cursor(f) = c
  BY <1>3 DEF Innermost
<1>5. CASE f.done = Len(f.node.children)
  <2>1. EndHere(w, m, e, st, c)
    BY <1>1, <1>3, <1>5, ElementClosed
  <2> QED BY <2>1
<1>6. CASE f.done # Len(f.node.children)
  <2>1. PICK n : NextChild(w, f, n)
    BY <1>4, <1>6, ChildIsNext
  <2>2. n \in Nodes /\ Occurs(w, c, Shown[n]) /\ f.at[f.done+1] = c + Len(Shown[n])
    BY <1>4, <2>1 DEF NextChild
  <2>3. c \in Nat
    BY <1>4, CursorIn
  <2>4. ASSUME IsText(n) PROVE TextHere(w, m, e, st, c, n.children)
    <3>1. /\ Shown[n] = n.children /\ n.children \in Seq(Symbols) /\ Len(n.children) \in Nat \ {0}
          /\ \A i \in 1 .. Len(n.children) : n.children[i] \notin Delimiters
      BY <2>2, <2>4, TextShown
    <3>2. n = Text(n.children)
      BY <2>2, <2>4, TextShown
    <3>3. w[f.at[f.done+1] + 1] = "<"
      BY <1>4, <2>1, <2>4, TextIsEnded
    <3>4. Standing(w, m, e, [st EXCEPT ![Len(st)].children = Append(@, n)], f.at[f.done+1])
      BY <1>1, <1>3, <2>1, TextAdded
    <3>5. PICK t : t = n.children
      OBVIOUS
    <3>6. Standing(w, m, e, [st EXCEPT ![Len(st)].children = Append(@, Text(t))], c + Len(t))
      BY <2>2, <3>1, <3>2, <3>4, <3>5
    <3>7. \A i \in 1 .. Len(t) : w[c+i] = t[i] /\ t[i] \notin Delimiters
      BY <2>2, <3>1, <3>5 DEF Occurs
    <3>8. w[c+Len(t)+1] = "<"
      BY <2>2, <3>1, <3>3, <3>5
    <3> QED BY <3>1, <3>5, <3>6, <3>7, <3>8 DEF TextHere
  <2>5. ASSUME ~IsText(n) PROVE ChildHere(w, m, e, st, c, n)
    <3>1. w[c+1] = "<" /\ w[c+2] = n.name /\ w[c+3] = ">"
      BY <2>2, <2>3, <2>5, ElementLaidOut
    <3>2. Standing(w, m, e, Pushed(st, Element(n.name, <<>>)), c + 3)
      BY <1>1, <1>3, <2>1, <2>5, ChildOpened
    <3> QED BY <3>1, <3>2 DEF ChildHere
  <2> QED BY <2>2, <2>4, <2>5
<1> QED BY <1>5, <1>6

(* What a stream consists of: the messages that were printed and what      *)
(* follows them.  The text goes on where the stream breaks off; "arrive"   *)
(* symbols of it arrive, with "whole" messages.                            *)
Script(x) ==
  /\ x.count \in Nat /\ x.whole \in Nat /\ x.arrive \in Nat /\ x.whole <= x.count
  /\ x.message \in [1 .. x.count -> Messages]
  /\ x.end \in [0 .. x.count -> Nat] /\ x.end[0] = 0
  /\ x.start \in [1 .. x.count + 1 -> Nat]
  /\ \A k \in 1 .. x.count + 1 :
       \/ x.start[k] = x.end[k-1]
       \/ x.start[k] = x.end[k-1] + 1 /\ x.text[x.start[k]] = "\n"
  /\ \A k \in 1 .. x.count : MessageAt(x.text, x.start[k], x.message[k], x.end[k])
  /\ \A k \in 1 .. x.whole : x.end[k] <= x.arrive
  /\ \/ x.count = x.whole + 1 /\ x.arrive < x.end[x.count]
     \/ /\ x.count = x.whole
        /\ \/ x.arrive <= x.start[x.count + 1]
           \/ Rejected(x.text, x.start[x.count + 1])

(***************************************************************************)
(* Where parse_node is in a script when it asks for the token at b: before *)
(* message k, after the bracket that opens it, before the one that closes  *)
(* it, or within it.                                                       *)
(***************************************************************************)
Before(x, k, m, st, b) ==
  /\ m = "loop" /\ st = <<>>
  /\ b = x.end[k-1] \/ b = x.start[k]

Entering(x, k, m, st, b) ==
  /\ m = "name" /\ st = <<>>
  /\ b = x.start[k] + 1 /\ x.text[b] = "<"

Leaving(x, k, m, st, tp, b) ==
  /\ m = "close" /\ st = <<>> /\ k <= x.count
  /\ tp = x.message[k] /\ b + 1 = x.end[k] /\ x.text[b+1] = ">"

Within(x, k, m, st, b, c) ==
  /\ k <= x.count /\ Standing(x.text, x.message[k], x.end[k], st, c)
  /\ \/ m = "loop" /\ b = c
     \/ m = "name" /\ b = c + 1 /\ x.text[b] = "<"
     \/ m = "close" /\ b + 1 = c /\ x.text[b+1] = ">"

Place(x, k, m, st, tp, b) ==
  \/ Before(x, k, m, st, b)
  \/ Entering(x, k, m, st, b)
  \/ Leaving(x, k, m, st, tp, b)
  \/ \E c \in Nat : Within(x, k, m, st, b, c)

(* What parse_node may do with a token that ends at position d.            *)
GoesOn(x, k, r, d) ==
  /\ where'[r] = "peek" /\ result' = result
  /\ Place(x, k, mode'[r], stack'[r], top'[r], d)

Delivers(x, k, r, d) ==
  /\ where'[r] = "idle" /\ result'[r] = Append(result[r], x.message[k])
  /\ k <= x.count /\ d = x.end[k]

Fails(x, k, r, d) ==
  /\ where'[r] = "ended" /\ result'[r] = Append(result[r], Null)
  /\ k = x.whole + 1 /\ x.text[d+1] = ">"

-----------------------------------------------------------------------------
(***************************************************************************)
(* parse_node, by the place where it asked for the token.                  *)
(***************************************************************************)
LEMMA ParseBracket ==
  ASSUME Arrays, NEW r \in Readers, ParseToken(r, <<"<">>), mode[r] = "loop"
  PROVE  /\ where'[r] = "peek" /\ mode'[r] = "name" /\ result' = result
         /\ stack' = stack /\ top' = top
  BY DEF ParseToken, Arrays, NextToken, ReturnNode, PushText, DoNode

LEMMA ParseText ==
  ASSUME Arrays, NEW r \in Readers, NEW t, ParseToken(r, t), mode[r] = "loop",
         t # <<>>, t # <<"<">>
  PROVE  /\ where'[r] = "peek" /\ mode'[r] = "loop" /\ result' = result
         /\ stack[r] = <<>> => stack'[r] = <<>>
         /\ stack[r] # <<>> =>
              stack'[r] = [stack[r] EXCEPT ![Len(stack[r])].children = Append(@, Text(t))]
<1>1. PushText(r, t) /\ NextToken(r, "loop")
  BY DEF ParseToken, Arrays, NextToken, ReturnNode, DoNode
<1>2. where'[r] = "peek" /\ mode'[r] = "loop" /\ result' = result
  BY <1>1 DEF Arrays, NextToken
<1>3. stack[r] = <<>> => stack'[r] = <<>>
  BY <1>1 DEF Arrays, PushText
<1>4. ASSUME stack[r] # <<>>
      PROVE  stack'[r] = [stack[r] EXCEPT ![Len(stack[r])].children = Append(@, Text(t))]
  <2>1. stack' = [stack EXCEPT ![r][Len(stack[r])].children = Append(@, Text(t))]
    BY <1>1, <1>4 DEF PushText
  <2> QED BY <2>1 DEF Arrays
<1> QED BY <1>2, <1>3, <1>4

LEMMA ParseTag ==
  ASSUME Arrays, NEW r \in Readers, NEW t, ParseToken(r, t), mode[r] = "name"
  PROVE  DoNode(r, t)
  BY DEF ParseToken, Arrays

LEMMA ParseOpening ==
  ASSUME Arrays, NEW r \in Readers, NEW n \in Nodes, ParseToken(r, <<n.name>>), mode[r] = "name"
  PROVE  /\ where'[r] = "peek" /\ mode'[r] = "close" /\ result' = result
         /\ stack'[r] = Pushed(stack[r], Element(n.name, <<>>))
<1>1. OpenTag(r, n.name)
  <2>1. DoNode(r, <<n.name>>)
    BY ParseTag
  <2> QED BY <2>1, NameIsOpening DEF DoNode
<1> QED BY <1>1 DEF OpenTag, NextToken, Arrays

LEMMA ParseDone ==
  ASSUME Arrays, NEW r \in Readers, ParseToken(r, <<"done/">>), mode[r] = "name", stack[r] = <<>>
  PROVE  /\ where'[r] = "peek" /\ mode'[r] = "close" /\ result' = result
         /\ stack'[r] = <<>> /\ top'[r] = Element("done", <<>>)
<1>1. EmptyTag(r, "done")
  <2>1. DoNode(r, <<"done/">>)
    BY ParseTag
  <2> QED BY <2>1, DoneIsEmpty DEF DoNode
<1>2. /\ where'[r] = "peek" /\ mode'[r] = "close" /\ result' = result
      /\ top'[r] = Element("done", <<>>)
  BY <1>1 DEF EmptyTag, NextToken, Arrays
<1>3. stack'[r] = Popped(Pushed(<<>>, Element("done", <<>>)))
  BY <1>1 DEF EmptyTag, Arrays
<1>4. Len(Pushed(<<>>, Element("done", <<>>))) = 1
  <2>1. <<>> \in Seq({}) /\ Len(<<>>) = 0
    OBVIOUS
  <2>2. IsSequence(<<>>)
    BY <2>1 DEF IsSequence
  <2>3. Len(Pushed(<<>>, Element("done", <<>>))) = Len(<<>>) + 1
    BY <2>2, SequencePushed
  <2>4. 0 + 1 = 1
    OBVIOUS
  <2> QED BY <2>1, <2>3, <2>4
<1> QED BY <1>2, <1>3, <1>4 DEF Popped

LEMMA ParseClosing ==
  ASSUME Arrays, NEW r \in Readers, ParseToken(r, <<"/">>), mode[r] = "name", stack[r] # <<>>
  PROVE  /\ where'[r] = "peek" /\ mode'[r] = "close" /\ result' = result
         /\ stack'[r] = Popped(stack[r])
         /\ Len(stack[r]) = 1 => top'[r] = Last(stack[r]) /\ stack'[r] = <<>>
<1>1. CloseTag(r)
  <2>1. DoNode(r, <<"/">>)
    BY ParseTag
  <2>2. CloseTag(r) \/ CloseNothing(r)
    BY <2>1, SlashIsClosing DEF DoNode
  <2> QED BY <2>2 DEF CloseNothing
<1>2. /\ where'[r] = "peek" /\ mode'[r] = "close" /\ result' = result
      /\ stack'[r] = Popped(stack[r])
      /\ Len(stack[r]) = 1 => top'[r] = Last(stack[r])
  BY <1>1 DEF CloseTag, NextToken, Arrays
<1>3. Len(stack[r]) = 1 => Popped(stack[r]) = <<>>
  BY DEF Popped
<1> QED BY <1>2, <1>3

LEMMA ParseMalformed ==
  ASSUME Arrays, NEW r \in Readers, NEW a \in Malformed, ParseToken(r, <<a>>), mode[r] = "name"
  PROVE  where'[r] = "ended" /\ result'[r] = Append(result[r], Null)
<1>1. RejectTag(r)
  <2>1. DoNode(r, <<a>>)
    BY ParseTag
  <2> QED BY <2>1, MalformedIsRejected DEF DoNode
<1> QED BY <1>1 DEF RejectTag, ReturnNode, Arrays

LEMMA ParseEnd ==
  ASSUME Arrays, NEW r \in Readers, ParseToken(r, <<">">>), mode[r] = "close"
  PROVE  /\ depth[r] # 0 => /\ where'[r] = "peek" /\ mode'[r] = "loop" /\ result' = result
                            /\ stack' = stack /\ top' = top
         /\ depth[r] = 0 => /\ result'[r] = Append(result[r], top[r])
                            /\ top[r] # Null => where'[r] = "idle"
  BY DEF ParseToken, Arrays, NextToken, ReturnNode, DoNode

LEMMA ParseNothing ==
  ASSUME Arrays, NEW r \in Readers, ParseToken(r, <<>>),
         mode[r] = "loop" \/ mode[r] = "name" \/ mode[r] = "close"
  PROVE  where'[r] = "ended" /\ result'[r] = Append(result[r], Null)
<1>1. <<>> # <<"<">> /\ <<>> # <<">">>
  OBVIOUS
<1>2. CASE mode[r] = "name"
  <2>1. DoNode(r, <<>>)
    BY <1>2, ParseTag
  <2>2. TagKinds(<<>>) = {"reject"}
    <3>1. PICK t : t = <<>>
      OBVIOUS
    <3>2. TagKinds(t) = {"reject"}
      BY <3>1 DEF TagKinds
    <3> QED BY <3>1, <3>2
  <2>3. RejectTag(r)
    BY <2>1, <2>2 DEF DoNode
  <2> QED BY <2>3 DEF RejectTag, ReturnNode, Arrays
<1>3. CASE mode[r] # "name"
  BY <1>1, <1>3 DEF ParseToken, ReturnNode, Arrays
<1> QED BY <1>2, <1>3

-----------------------------------------------------------------------------
(* The script around message k.                                            *)
ScriptAt(x, k) ==
  /\ x.start[k] \in Nat /\ x.end[k-1] \in Nat
  /\ \/ x.start[k] = x.end[k-1]
     \/ x.start[k] = x.end[k-1] + 1 /\ x.text[x.start[k]] = "\n"
  /\ k <= x.count => /\ MessageAt(x.text, x.start[k], x.message[k], x.end[k])
                     /\ x.message[k] \in Messages
                     /\ x.end[k] \in Nat /\ x.start[k] + 3 <= x.end[k]
                     /\ x.text[x.start[k] + 1] = "<" /\ x.text[x.end[k]] = ">"
  /\ k > x.count => /\ k = x.whole + 1
                    /\ x.arrive <= x.start[k] \/ Rejected(x.text, x.start[k])

LEMMA ScriptIsAt ==
  ASSUME NEW x, Script(x), NEW k \in Nat \ {0}, k <= x.whole + 1
  PROVE  ScriptAt(x, k)
<1>1. /\ x.count \in Nat /\ x.whole \in Nat /\ x.whole <= x.count
      /\ x.message \in [1 .. x.count -> Messages]
      /\ x.end \in [0 .. x.count -> Nat]
      /\ x.start \in [1 .. x.count + 1 -> Nat]
  BY DEF Script
<1>2. k \in 1 .. x.count + 1 /\ k - 1 \in 0 .. x.count
  BY <1>1
<1>3. x.start[k] \in Nat /\ x.end[k-1] \in Nat
  BY <1>1, <1>2
<1>4. \/ x.start[k] = x.end[k-1]
      \/ x.start[k] = x.end[k-1] + 1 /\ x.text[x.start[k]] = "\n"
  BY <1>2 DEF Script
<1>5. ASSUME k <= x.count
      PROVE  /\ MessageAt(x.text, x.start[k], x.message[k], x.end[k])
             /\ x.message[k] \in Messages
             /\ x.end[k] \in Nat /\ x.start[k] + 3 <= x.end[k]
             /\ x.text[x.start[k] + 1] = "<" /\ x.text[x.end[k]] = ">"
  <2>1. k \in 1 .. x.count
    BY <1>2, <1>5
  <2>2. MessageAt(x.text, x.start[k], x.message[k], x.end[k]) /\ x.message[k] \in Messages
    BY <1>1, <2>1 DEF Script
  <2>3. PICK p \in Nat, m \in Messages, q \in {x.end[k]}, w \in {x.text} :
          p = x.start[k] /\ m = x.message[k] /\ q = x.end[k] /\ w = x.text
    BY <1>3, <2>2
  <2>4. MessageAt(w, p, m, q)
    BY <2>2, <2>3
  <2>5. q \in Nat /\ p + 3 <= q /\ w[p+1] = "<" /\ w[q] = ">"
    BY <2>4, MessageShape
  <2> QED BY <2>2, <2>3, <2>5
<1>6. ASSUME k > x.count
      PROVE  k = x.whole + 1 /\ (x.arrive <= x.start[k] \/ Rejected(x.text, x.start[k]))
  <2>1. k = x.whole + 1 /\ x.count = x.whole /\ k = x.count + 1
    BY <1>1, <1>6
  <2>2. x.count # x.whole + 1
    BY <1>1, <2>1
  <2> QED BY <2>1, <2>2 DEF Script
<1> QED BY <1>3, <1>4, <1>5, <1>6 DEF ScriptAt

LEMMA TokenArrives ==
  ASSUME NEW w, NEW l \in Nat, NEW b \in Nat, NEW t, TokenAt(w, l, b, t)
  PROVE  b + 1 <= l /\ t # <<>> /\ Len(t) \in Nat \ {0} /\ b + Len(t) <= l
<1>1. CASE w[b+1] \in Delimiters
  <2>1. t = <<w[b+1]>> /\ Len(t) = 1 /\ b + 1 <= l
    BY <1>1, BracketToken
  <2>2. <<w[b+1]>> # <<>>
    OBVIOUS
  <2> QED BY <2>1, <2>2
<1>2. CASE w[b+1] \notin Delimiters
  <2>1. Len(t) \in Nat \ {0} /\ b + Len(t) + 1 <= l /\ t # <<>>
    BY <1>2, WordToken
  <2>2. b + 1 <= l /\ b + Len(t) <= l
    BY <2>1
  <2> QED BY <2>1, <2>2
<1> QED BY <1>1, <1>2

LEMMA BeforeMoves ==
  ASSUME Arrays, NEW r \in Readers, NEW x, Script(x), NEW k \in Nat \ {0}, k <= x.whole + 1,
         NEW b \in Nat, Before(x, k, mode[r], stack[r], b),
         NEW t, TokenAt(x.text, x.arrive, b, t), ParseToken(r, t)
  PROVE  GoesOn(x, k, r, b + Len(t))
<1>1. ScriptAt(x, k)
  BY ScriptIsAt
<1>2. mode[r] = "loop" /\ stack[r] = <<>> /\ (b = x.end[k-1] \/ b = x.start[k])
  BY DEF Before
<1>3. PICK l \in Nat : l = x.arrive
  BY DEF Script
<1>4. x.text[x.start[k] + 1] = "<" \/ l <= x.start[k]
  <2>1. x.count \in Nat
    BY DEF Script
  <2>2. k <= x.count \/ k > x.count
    BY <2>1
  <2> QED BY <1>1, <1>3, <2>2 DEF ScriptAt, Rejected
<1>5. b + 1 <= l /\ t # <<>> /\ TokenAt(x.text, l, b, t)
  BY <1>3, TokenArrives
<1>6. CASE b = x.start[k]
  <2>1. x.text[b+1] = "<" /\ "<" \in Delimiters
    <3>1. ~(l <= x.start[k])
      BY <1>5, <1>6
    <3> QED BY <1>4, <1>6, <3>1 DEF Delimiters
  <2>2. t = <<"<">> /\ Len(t) = 1
    <3>1. t = <<x.text[b+1]>> /\ Len(t) = 1
      BY <1>5, <2>1, BracketToken
    <3> QED BY <2>1, <3>1
  <2>3. where'[r] = "peek" /\ mode'[r] = "name" /\ result' = result /\ stack'[r] = <<>>
    BY <1>2, <2>2, ParseBracket
  <2>4. Entering(x, k, mode'[r], stack'[r], b + Len(t))
    BY <1>6, <2>1, <2>2, <2>3 DEF Entering
  <2> QED BY <2>3, <2>4 DEF GoesOn, Place
<1>7. CASE b # x.start[k]
  <2>1. x.start[k] = b + 1 /\ x.text[b+1] = "\n" /\ b = x.end[k-1]
    BY <1>1, <1>2, <1>7 DEF ScriptAt
  <2>2. x.text[b+1] \notin Delimiters
    BY <2>1, WordsAssumption
  <2>3. Len(t) \in Nat \ {0} /\ b + Len(t) + 1 <= l
    BY <1>5, <2>2, WordToken
  <2>4. x.text[b+2] = "<" /\ x.text[b+2] \in Delimiters
    <3>1. ~(l <= x.start[k])
      BY <2>1, <2>3
    <3>2. x.start[k] + 1 = b + 2
      BY <2>1
    <3> QED BY <1>4, <3>1, <3>2 DEF Delimiters
  <2>5. t = <<x.text[b+1]>> /\ Len(t) = 1 /\ t # <<"<">>
    BY <1>5, <2>2, <2>4, WordToken
  <2>6. where'[r] = "peek" /\ mode'[r] = "loop" /\ result' = result /\ stack'[r] = <<>>
    BY <1>2, <1>5, <2>5, ParseText
  <2>7. Before(x, k, mode'[r], stack'[r], b + Len(t))
    BY <2>1, <2>5, <2>6 DEF Before
  <2> QED BY <2>6, <2>7 DEF GoesOn, Place
<1> QED BY <1>6, <1>7

LEMMA EnteringMoves ==
  ASSUME Arrays, NEW r \in Readers, NEW x, Script(x), NEW k \in Nat \ {0}, k <= x.whole + 1,
         NEW b \in Nat, Entering(x, k, mode[r], stack[r], b),
         NEW t, TokenAt(x.text, x.arrive, b, t), ParseToken(r, t)
  PROVE  GoesOn(x, k, r, b + Len(t)) \/ Fails(x, k, r, b + Len(t))
<1>1. ScriptAt(x, k)
  BY ScriptIsAt
<1>2. PICK p \in Nat, l \in Nat, w \in {x.text} :
        p = x.start[k] /\ w = x.text /\ l = x.arrive /\ b = p + 1 /\ b + 1 = p + 2 /\ b + 2 = p + 3
  <2>1. x.start[k] \in Nat /\ x.arrive \in Nat /\ b = x.start[k] + 1
    BY <1>1 DEF ScriptAt, Script, Entering
  <2>2. \A p \in Nat : b = p + 1 => b + 1 = p + 2 /\ b + 2 = p + 3
    OBVIOUS
  <2> QED BY <2>1, <2>2
<1>3. mode[r] = "name" /\ stack[r] = <<>> /\ TokenAt(w, l, b, t)
  BY <1>2 DEF Entering
<1>4. CASE k <= x.count
  <2>1. PICK m \in Messages, e \in Nat :
          /\ m = x.message[k] /\ e = x.end[k] /\ MessageAt(w, p, m, e) /\ w[e] = ">"
    BY <1>1, <1>2, <1>4 DEF ScriptAt
  <2>2. m \in Nodes /\ ~IsText(m)
    BY MessageIsElement
  <2>3. CASE Occurs(w, p, Shown[m]) /\ e = p + Len(Shown[m])
    <3>1. w[b+1] = m.name /\ w[b+2] = ">"
      BY <1>2, <2>2, <2>3, ElementLaidOut
    <3>2. w[b+1] \notin Delimiters /\ w[b+2] \in Delimiters
      BY <2>2, <3>1, NodeParts DEF Delimiters
    <3>3. t = <<m.name>> /\ Len(t) = 1
      BY <1>3, <3>1, <3>2, WordToken
    <3>4. /\ where'[r] = "peek" /\ mode'[r] = "close" /\ result' = result
          /\ stack'[r] = Pushed(<<>>, Element(m.name, <<>>))
      BY <1>3, <2>2, <3>3, ParseOpening
    <3>5. Standing(w, m, e, stack'[r], p + 3)
      BY <2>3, <3>4, FirstOpened
    <3>6. Within(x, k, mode'[r], stack'[r], b + Len(t), p + 3)
      <4>1. (b + Len(t)) + 1 = p + 3 /\ p + 3 = b + 2
        BY <1>2, <3>3
      <4> QED BY <1>2, <1>4, <2>1, <3>1, <3>4, <3>5, <4>1 DEF Within
    <3>7. p + 3 \in Nat
      OBVIOUS
    <3> QED BY <3>4, <3>6, <3>7 DEF GoesOn, Place
  <2>4. CASE /\ m = Element("done", <<>>) /\ e = p + 3
             /\ w[p+1] = "<" /\ w[p+2] = "done/" /\ w[p+3] = ">"
    <3>1. w[b+1] = "done/" /\ w[b+2] = ">"
      BY <1>2, <2>4
    <3>2. w[b+1] \notin Delimiters /\ w[b+2] \in Delimiters
      BY <3>1 DEF Delimiters
    <3>3. t = <<"done/">> /\ Len(t) = 1
      BY <1>3, <3>1, <3>2, WordToken
    <3>4. /\ where'[r] = "peek" /\ mode'[r] = "close" /\ result' = result
          /\ stack'[r] = <<>> /\ top'[r] = m
      BY <1>3, <2>4, <3>3, ParseDone
    <3>5. Leaving(x, k, mode'[r], stack'[r], top'[r], b + Len(t))
      <4>1. (b + Len(t)) + 1 = e /\ e = b + 2
        BY <1>2, <2>4, <3>3
      <4> QED BY <1>2, <1>4, <2>1, <3>1, <3>4, <4>1 DEF Leaving
    <3> QED BY <3>4, <3>5 DEF GoesOn, Place
  <2> QED BY <2>1, <2>3, <2>4 DEF MessageAt
<1>5. CASE k > x.count
  <2>1. k = x.whole + 1 /\ (l <= p \/ Rejected(w, p))
    BY <1>1, <1>2, <1>5 DEF ScriptAt
  <2>2. b + 1 <= l
    BY <1>3, TokenArrives
  <2>3. Rejected(w, p)
    BY <1>2, <2>1, <2>2
  <2>4. PICK a \in Malformed : a = w[b+1] /\ w[b+2] = ">"
    BY <1>2, <2>3 DEF Rejected
  <2>5. w[b+1] \notin Delimiters /\ w[b+2] \in Delimiters
    BY <2>4, MalformedIsRejected DEF Delimiters
  <2>6. t = <<a>> /\ Len(t) = 1 /\ w[(b + Len(t)) + 1] = ">"
    <3>1. t = <<a>> /\ Len(t) = 1
      BY <1>3, <2>4, <2>5, WordToken
    <3>2. (b + 1) + 1 = b + 2
      OBVIOUS
    <3> QED BY <2>4, <3>1, <3>2
  <2>7. where'[r] = "ended" /\ result'[r] = Append(result[r], Null)
    BY <1>3, <2>6, ParseMalformed
  <2> QED BY <1>2, <2>1, <2>6, <2>7 DEF Fails
<1>6. k <= x.count \/ k > x.count
  BY DEF Script
<1> QED BY <1>4, <1>5, <1>6

LEMMA LeavingMoves ==
  ASSUME Arrays, NEW r \in Readers, NEW x, Script(x), NEW k \in Nat \ {0}, k <= x.whole + 1,
         NEW b \in Nat, Leaving(x, k, mode[r], stack[r], top[r], b), depth[r] = Len(stack[r]),
         NEW t, TokenAt(x.text, x.arrive, b, t), ParseToken(r, t)
  PROVE  Delivers(x, k, r, b + Len(t))
<1>1. ScriptAt(x, k)
  BY ScriptIsAt
<1>2. /\ mode[r] = "close" /\ stack[r] = <<>> /\ k <= x.count
      /\ top[r] = x.message[k] /\ b + 1 = x.end[k] /\ x.text[b+1] = ">"
  BY DEF Leaving
<1>3. x.arrive \in Nat
  BY DEF Script
<1>4. t = <<">">> /\ Len(t) = 1
  <2>1. x.text[b+1] \in Delimiters
    BY <1>2 DEF Delimiters
  <2>2. t = <<x.text[b+1]>> /\ Len(t) = 1
    BY <1>3, <2>1, BracketToken
  <2> QED BY <1>2, <2>2
<1>5. depth[r] = 0
  BY <1>2
<1>6. top[r] # Null
  <2>1. x.message[k] \in Messages
    BY <1>1, <1>2 DEF ScriptAt
  <2> QED BY <1>2, <2>1, MessageIsElement
<1>7. where'[r] = "idle" /\ result'[r] = Append(result[r], top[r])
  BY <1>2, <1>4, <1>5, <1>6, ParseEnd
<1> QED BY <1>2, <1>4, <1>7 DEF Delivers

LEMMA WithinMoves ==
  ASSUME Arrays, NEW r \in Readers, NEW x, Script(x), NEW k \in Nat \ {0}, k <= x.whole + 1,
         NEW b \in Nat, NEW c \in Nat, Within(x, k, mode[r], stack[r], b, c),
         depth[r] = Len(stack[r]),
         NEW t, TokenAt(x.text, x.arrive, b, t), ParseToken(r, t)
  PROVE  GoesOn(x, k, r, b + Len(t))
<1>1. PICK l \in Nat, w \in {x.text}, m \in {x.message[k]}, e \in {x.end[k]} :
        w = x.text /\ m = x.message[k] /\ e = x.end[k] /\ l = x.arrive
  BY DEF Script
<1>2. k <= x.count /\ Standing(w, m, e, stack[r], c) /\ TokenAt(w, l, b, t) /\ w[e] = ">"
  <2>1. ScriptAt(x, k)
    BY ScriptIsAt
  <2> QED BY <1>1, <2>1 DEF Within, ScriptAt
<1>3. /\ IsSequence(stack[r]) /\ stack[r] # <<>> /\ Len(stack[r]) \in Nat \ {0}
  BY <1>2, StandingIn
<1>4. t # <<>> /\ Len(t) \in Nat \ {0}
  BY <1>2, TokenArrives
<1>5. \/ EndHere(w, m, e, stack[r], c)
      \/ \E n \in Nodes : ~IsText(n) /\ ChildHere(w, m, e, stack[r], c, n)
      \/ \E u : TextHere(w, m, e, stack[r], c, u)
  BY <1>2, WhatFollows
<1>6. ASSUME NEW u, TextHere(w, m, e, stack[r], c, u) PROVE w[c+1] \notin Delimiters
  <2>1. 1 \in 1 .. Len(u)
    BY <1>6 DEF TextHere
  <2> QED BY <1>6, <2>1 DEF TextHere
<1>7. CASE mode[r] = "loop" /\ b = c
  <2>1. CASE w[c+1] = "<"
    <3>1. t = <<"<">> /\ Len(t) = 1
      <4>1. w[b+1] \in Delimiters
        BY <1>7, <2>1 DEF Delimiters
      <4>2. t = <<w[b+1]>> /\ Len(t) = 1
        BY <1>2, <4>1, BracketToken
      <4> QED BY <1>7, <2>1, <4>2
    <3>2. where'[r] = "peek" /\ mode'[r] = "name" /\ result' = result /\ stack'[r] = stack[r]
      BY <1>7, <3>1, ParseBracket
    <3>3. Within(x, k, mode'[r], stack'[r], b + Len(t), c)
      BY <1>1, <1>2, <1>7, <2>1, <3>1, <3>2 DEF Within
    <3> QED BY <3>2, <3>3 DEF GoesOn, Place
  <2>2. CASE w[c+1] # "<"
    <3>1. PICK u : TextHere(w, m, e, stack[r], c, u)
      BY <1>5, <2>2 DEF EndHere, EndTag, ChildHere
    <3>2. w[b+1] \notin Delimiters
      BY <1>6, <1>7, <3>1
    <3>3. /\ t \in Seq(Symbols) /\ t # <<"<">>
          /\ \A i \in 1 .. Len(t) : t[i] = w[b+i] /\ w[b+i] \notin Delimiters
          /\ w[b+Len(t)+1] \in Delimiters
      BY <1>2, <3>2, WordToken
    <3>4. PICK i \in Nat \ {0}, j \in Nat \ {0} : i = Len(t) /\ j = Len(u)
      BY <1>4, <3>1 DEF TextHere
    <3>5. i = j
      <4>1. ASSUME i < j PROVE FALSE
        <5>1. PICK h \in 1 .. j : h = i + 1 /\ b + h = b + i + 1
          BY <4>1
        <5>2. w[b + h] \notin Delimiters
          BY <1>7, <3>1, <3>4, <5>1 DEF TextHere
        <5> QED BY <3>3, <3>4, <5>1, <5>2
      <4>2. ASSUME j < i PROVE FALSE
        <5>1. PICK h \in 1 .. i : h = j + 1 /\ b + h = b + j + 1
          BY <4>2
        <5>2. w[b + h] \notin Delimiters
          BY <3>3, <3>4, <5>1
        <5>3. w[b + h] = "<"
          BY <1>7, <3>1, <3>4, <5>1 DEF TextHere
        <5> QED BY <5>2, <5>3 DEF Delimiters
      <4> QED BY <4>1, <4>2
    <3>6. t = u
      <4>1. u \in Seq(Symbols) /\ Len(u) = Len(t)
        BY <3>1, <3>4, <3>5 DEF TextHere
      <4>2. \A h \in 1 .. Len(t) : t[h] = u[h]
        BY <1>7, <3>1, <3>3, <4>1 DEF TextHere
      <4> QED BY <3>3, <4>1, <4>2, SeqEqual
    <3>7. /\ where'[r] = "peek" /\ mode'[r] = "loop" /\ result' = result
          /\ stack'[r] = [stack[r] EXCEPT ![Len(stack[r])].children = Append(@, Text(t))]
      BY <1>3, <1>4, <1>7, <3>3, ParseText
    <3>8. Standing(w, m, e, [stack[r] EXCEPT ![Len(stack[r])].children = Append(@, Text(t))], b + Len(t))
      BY <1>7, <3>1, <3>6 DEF TextHere
    <3>9. Within(x, k, mode'[r], stack'[r], b + Len(t), b + Len(t))
      BY <1>1, <1>2, <3>7, <3>8 DEF Within
    <3>10. b + Len(t) \in Nat
      BY <1>4
    <3> QED BY <3>7, <3>9, <3>10 DEF GoesOn, Place
  <2> QED BY <2>1, <2>2
<1>8. CASE mode[r] = "name" /\ b = c + 1 /\ w[b] = "<"
  <2>1. b + 1 = c + 2 /\ b + 2 = c + 3 /\ c + 3 \in Nat
    BY <1>8
  <2>2. ASSUME NEW a, w[b+1] = a, a \notin Delimiters, w[b+2] = ">"
        PROVE  t = <<a>> /\ Len(t) = 1 /\ (b + Len(t)) + 1 = c + 3 /\ w[(b + Len(t)) + 1] = ">"
    <3>1. w[b+2] \in Delimiters
      BY <2>2 DEF Delimiters
    <3>2. t = <<a>> /\ Len(t) = 1
      BY <1>2, <2>2, <3>1, WordToken
    <3>3. (b + Len(t)) + 1 = c + 3 /\ (b + Len(t)) + 1 = b + 2
      BY <2>1, <3>2
    <3> QED BY <2>2, <3>2, <3>3
  <2>3. CASE EndHere(w, m, e, stack[r], c)
    <3>1. w[b+1] = "/" /\ w[b+2] = ">" /\ "/" \notin Delimiters
      BY <2>1, <2>3 DEF EndHere, EndTag, Delimiters
    <3>2. t = <<"/">> /\ Len(t) = 1 /\ (b + Len(t)) + 1 = c + 3 /\ w[(b + Len(t)) + 1] = ">"
      BY <2>2, <3>1
    <3>3. /\ where'[r] = "peek" /\ mode'[r] = "close" /\ result' = result
          /\ stack'[r] = Popped(stack[r])
          /\ Len(stack[r]) = 1 => top'[r] = Last(stack[r]) /\ stack'[r] = <<>>
      BY <1>3, <1>8, <3>2, ParseClosing
    <3>4. CASE Len(stack[r]) = 1
      <4>1. Last(stack[r]) = m /\ c + 3 = e
        BY <2>3, <3>4 DEF EndHere
      <4>2. Leaving(x, k, mode'[r], stack'[r], top'[r], b + Len(t))
        BY <1>1, <1>2, <3>2, <3>3, <3>4, <4>1 DEF Leaving
      <4> QED BY <3>3, <4>2 DEF GoesOn, Place
    <3>5. CASE Len(stack[r]) # 1
      <4>1. Standing(w, m, e, Popped(stack[r]), c + 3)
        BY <2>3, <3>5 DEF EndHere
      <4>2. Within(x, k, mode'[r], stack'[r], b + Len(t), c + 3)
        BY <1>1, <1>2, <3>2, <3>3, <4>1 DEF Within
      <4> QED BY <2>1, <3>3, <4>2 DEF GoesOn, Place
    <3> QED BY <3>4, <3>5
  <2>4. ASSUME NEW n \in Nodes, ChildHere(w, m, e, stack[r], c, n)
        PROVE  GoesOn(x, k, r, b + Len(t))
    <3>1. w[b+1] = n.name /\ w[b+2] = ">" /\ n.name \notin Delimiters
      BY <2>1, <2>4, NodeParts DEF ChildHere
    <3>2. t = <<n.name>> /\ Len(t) = 1 /\ (b + Len(t)) + 1 = c + 3 /\ w[(b + Len(t)) + 1] = ">"
      BY <2>2, <3>1
    <3>3. /\ where'[r] = "peek" /\ mode'[r] = "close" /\ result' = result
          /\ stack'[r] = Pushed(stack[r], Element(n.name, <<>>))
      BY <1>8, <3>2, ParseOpening
    <3>4. Standing(w, m, e, Pushed(stack[r], Element(n.name, <<>>)), c + 3)
      BY <2>4 DEF ChildHere
    <3>5. Within(x, k, mode'[r], stack'[r], b + Len(t), c + 3)
      BY <1>1, <1>2, <3>2, <3>3, <3>4 DEF Within
    <3> QED BY <2>1, <3>3, <3>5 DEF GoesOn, Place
  <2>5. ~(\E u : TextHere(w, m, e, stack[r], c, u))
    <3>1. w[c+1] = "<"
      BY <1>8
    <3> QED BY <1>6, <3>1 DEF Delimiters
  <2> QED BY <1>5, <2>3, <2>4, <2>5
<1>9. CASE mode[r] = "close" /\ b + 1 = c /\ w[b+1] = ">"
  <2>1. t = <<">">> /\ Len(t) = 1
    <3>1. w[b+1] \in Delimiters
      BY <1>9 DEF Delimiters
    <3>2. t = <<w[b+1]>> /\ Len(t) = 1
      BY <1>2, <3>1, BracketToken
    <3> QED BY <1>9, <3>2
  <2>2. depth[r] # 0
    BY <1>3
  <2>3. where'[r] = "peek" /\ mode'[r] = "loop" /\ result' = result /\ stack'[r] = stack[r]
    BY <1>9, <2>1, <2>2, ParseEnd
  <2>4. Within(x, k, mode'[r], stack'[r], b + Len(t), c)
    BY <1>1, <1>2, <1>9, <2>1, <2>3 DEF Within
  <2> QED BY <2>3, <2>4 DEF GoesOn, Place
<1> QED BY <1>1, <1>7, <1>8, <1>9 DEF Within

-----------------------------------------------------------------------------
LEMMA PlaceMoves ==
  ASSUME Arrays, NEW r \in Readers, NEW x, Script(x), NEW k \in Nat \ {0}, k <= x.whole + 1,
         NEW b \in Nat, Place(x, k, mode[r], stack[r], top[r], b), depth[r] = Len(stack[r]),
         NEW t, TokenAt(x.text, x.arrive, b, t), ParseToken(r, t)
  PROVE  GoesOn(x, k, r, b + Len(t)) \/ Delivers(x, k, r, b + Len(t)) \/ Fails(x, k, r, b + Len(t))
<1>1. CASE Before(x, k, mode[r], stack[r], b)
  BY <1>1, BeforeMoves
<1>2. CASE Entering(x, k, mode[r], stack[r], b)
  BY <1>2, EnteringMoves
<1>3. CASE Leaving(x, k, mode[r], stack[r], top[r], b)
  BY <1>3, LeavingMoves
<1>4. ASSUME NEW c \in Nat, Within(x, k, mode[r], stack[r], b, c) PROVE GoesOn(x, k, r, b + Len(t))
  BY <1>4, WithinMoves
<1> QED BY <1>1, <1>2, <1>3, <1>4 DEF Place

(* The message that is being read ends further on.                         *)
LEMMA PlaceIsBefore ==
  ASSUME NEW x, Script(x), NEW k \in Nat \ {0}, k <= x.whole + 1,
         NEW m, NEW st, NEW tp, NEW b \in Nat, Place(x, k, m, st, tp, b)
  PROVE  /\ m = "loop" \/ m = "name" \/ m = "close"
         /\ k <= x.whole => x.end[k] \in Nat /\ b < x.end[k] /\ x.end[k] <= x.arrive
                            /\ x.text[x.end[k]] = ">"
<1>1. m = "loop" \/ m = "name" \/ m = "close"
  BY DEF Place, Before, Entering, Leaving, Within
<1>2. ASSUME k <= x.whole
      PROVE  x.end[k] \in Nat /\ b < x.end[k] /\ x.end[k] <= x.arrive /\ x.text[x.end[k]] = ">"
  <2>1. ScriptAt(x, k) /\ k <= x.count /\ x.end[k] <= x.arrive
    <3>1. k \in 1 .. x.whole /\ x.whole <= x.count /\ x.whole \in Nat /\ x.count \in Nat
      BY <1>2 DEF Script
    <3>2. k <= x.count
      BY <3>1
    <3> QED BY <3>1, <3>2, ScriptIsAt DEF Script
  <2>2. PICK p \in Nat, e \in Nat, z \in Nat :
          /\ p = x.start[k] /\ e = x.end[k] /\ z = x.end[k-1]
          /\ p + 3 <= e /\ (p = z \/ p = z + 1)
    BY <2>1 DEF ScriptAt
  <2>3. x.text[e] = ">"
    BY <2>1, <2>2 DEF ScriptAt
  <2>4. CASE Before(x, k, m, st, b)
    <3>1. b = z \/ b = p
      BY <2>2, <2>4 DEF Before
    <3>2. b < e
      BY <2>2, <3>1
    <3> QED BY <2>1, <2>2, <2>3, <3>2
  <2>5. CASE Entering(x, k, m, st, b)
    <3>1. b = p + 1
      BY <2>2, <2>5 DEF Entering
    <3>2. b < e
      BY <2>2, <3>1
    <3> QED BY <2>1, <2>2, <2>3, <3>2
  <2>6. CASE Leaving(x, k, m, st, tp, b)
    <3>1. b + 1 = e
      BY <2>2, <2>6 DEF Leaving
    <3>2. b < e
      BY <2>2, <3>1
    <3> QED BY <2>1, <2>2, <2>3, <3>2
  <2>7. ASSUME NEW c \in Nat, Within(x, k, m, st, b, c) PROVE b < e
    <3>1. Standing(x.text, x.message[k], e, st, c)
      BY <2>2, <2>7 DEF Within
    <3>2. PICK y \in Nat : c + 3 <= y /\ y <= e
      BY <3>1, StandingIn
    <3>3. b = c \/ b = c + 1 \/ b + 1 = c
      BY <2>7 DEF Within
    <3> QED BY <3>2, <3>3
  <2> QED BY <2>1, <2>2, <2>3, <2>4, <2>5, <2>6, <2>7 DEF Place
<1> QED BY <1>1, <1>2

-----------------------------------------------------------------------------
(***************************************************************************)
(* The symbols that still arrive, after the first h symbols of a script.   *)
(***************************************************************************)
Arriving(x, h, symbols) ==
  /\ symbols \in Seq(Symbols) /\ h + Len(symbols) = x.arrive
  /\ \A i \in 1 .. Len(symbols) : symbols[i] = x.text[h+i]

LEMMA OneArrives ==
  ASSUME NEW x, NEW h \in Nat, NEW s, Arriving(x, h, s), s # <<>>
  PROVE  Head(s) = x.text[h+1] /\ Head(s) \in Symbols /\ h + 1 <= x.arrive /\ Arriving(x, h + 1, Tail(s))
<1>1. s \in Seq(Symbols) /\ h + Len(s) = x.arrive /\ \A i \in 1 .. Len(s) : s[i] = x.text[h+i]
  BY DEF Arriving
<1>2. PICK n \in Nat : n + 1 = Len(s)
  <2>1. Len(s) \in Nat \ {0}
    BY <1>1, LengthOf
  <2>2. \A a \in Nat \ {0} : \E n \in Nat : n + 1 = a
    <3>1. \A a \in Nat \ {0} : a - 1 \in Nat /\ (a - 1) + 1 = a
      OBVIOUS
    <3> QED BY <3>1
  <2> QED BY <2>1, <2>2
<1>3. Head(s) = s[1] /\ Head(s) \in Symbols
  BY <1>1, <1>2
<1>4. Head(s) = x.text[h+1]
  <2>1. 1 \in 1 .. Len(s)
    BY <1>2
  <2> QED BY <1>1, <1>3, <2>1
<1>5. /\ Tail(s) \in Seq(Symbols) /\ Len(Tail(s)) = n
      /\ \A i \in 1 .. n : Tail(s)[i] = s[i+1]
  <2>1. /\ Tail(s) \in Seq(Symbols) /\ Len(Tail(s)) = Len(s) - 1
        /\ \A i \in 1 .. Len(Tail(s)) : Tail(s)[i] = s[i+1]
    BY <1>1, HeadTailProperties
  <2>2. (n + 1) - 1 = n
    OBVIOUS
  <2> QED BY <1>2, <2>1, <2>2
<1>6. ASSUME NEW i \in 1 .. n PROVE Tail(s)[i] = x.text[(h+1)+i]
  <2>1. i + 1 \in 1 .. Len(s) /\ h + (i + 1) = (h + 1) + i
    BY <1>2
  <2>2. s[i+1] = x.text[h+(i+1)]
    BY <1>1, <2>1
  <2> QED BY <1>5, <2>1, <2>2
<1>7. (h + 1) + n = x.arrive /\ h + 1 <= x.arrive
  <2>1. h + (n + 1) = x.arrive
    BY <1>1, <1>2
  <2> QED BY <2>1
<1>8. Arriving(x, h + 1, Tail(s))
  BY <1>5, <1>6, <1>7 DEF Arriving
<1> QED BY <1>3, <1>4, <1>7, <1>8

(***************************************************************************)
(* next_token: what it has of the token that begins at b, h symbols having *)
(* arrived.                                                                *)
(***************************************************************************)
Layer(x, b, h, wh, rs, lc) ==
  \/ /\ wh = "peek" \/ (wh = "test" /\ rs = <<>>)
     /\ lc = "" /\ b = h
  \/ /\ wh = "peek" \/ (wh = "test" /\ rs = <<lc>>)
     /\ lc \in Delimiters /\ b + 1 = h /\ x.text[h] = lc
  \/ /\ wh = "read" /\ lc = ""
     /\ rs \in Seq(Symbols) /\ b + Len(rs) = h
     /\ \A i \in 1 .. Len(rs) : rs[i] = x.text[b+i] /\ rs[i] \notin Delimiters

(* The bracket that a failed call left behind.                             *)
Stray(b, h, wh, rs, lc) ==
  /\ wh = "peek" \/ (wh = "test" /\ rs = <<lc>>)
  /\ lc = ">" /\ b = h

LEMMA BracketArrives ==
  ASSUME NEW x, NEW b \in Nat, b + 1 <= x.arrive, NEW c, c \in Delimiters, x.text[b+1] = c
  PROVE  TokenAt(x.text, x.arrive, b, <<c>>) /\ Len(<<c>>) = 1
  BY DEF TokenAt

LEMMA WordArrives ==
  ASSUME NEW x, NEW b \in Nat, NEW t \in Seq(Symbols), t # <<>>,
         \A i \in 1 .. Len(t) : t[i] = x.text[b+i] /\ t[i] \notin Delimiters,
         x.text[b+Len(t)+1] \in Delimiters, b + Len(t) + 1 <= x.arrive
  PROVE  TokenAt(x.text, x.arrive, b, t)
  BY DEF TokenAt

(* One more symbol of a word.                                              *)
LEMMA WordGrows ==
  ASSUME NEW x, NEW b \in Nat, NEW h \in Nat, NEW rs \in Seq(Symbols), b + Len(rs) = h,
         \A i \in 1 .. Len(rs) : rs[i] = x.text[b+i] /\ rs[i] \notin Delimiters,
         NEW c \in Symbols, c = x.text[h+1], c \notin Delimiters
  PROVE  Layer(x, b, h + 1, "read", Append(rs, c), "")
<1>1. PICK n \in Nat : n = Len(rs)
  BY LengthOf
<1>2. PICK t \in Seq(Symbols) : t = Append(rs, c)
  <2>1. Append(rs, c) \in Seq(Symbols)
    BY AppendProperties
  <2> QED BY <2>1
<1>3. Len(t) = n + 1 /\ t[n + 1] = c /\ \A i \in 1 .. n : t[i] = rs[i]
  BY <1>1, <1>2, AppendProperties
<1>4. ASSUME NEW i \in 1 .. n + 1 PROVE t[i] = x.text[b+i] /\ t[i] \notin Delimiters
  <2>1. CASE i = n + 1
    <3>1. b + i = h + 1
      BY <1>1, <2>1
    <3> QED BY <1>3, <2>1, <3>1
  <2>2. CASE i # n + 1
    <3>1. i \in 1 .. n
      BY <2>2
    <3> QED BY <1>1, <1>3, <3>1
  <2> QED BY <2>1, <2>2
<1>5. b + (n + 1) = h + 1
  BY <1>1
<1>6. Layer(x, b, h + 1, "read", t, "")
  BY <1>3, <1>4, <1>5 DEF Layer
<1> QED BY <1>2, <1>6

-----------------------------------------------------------------------------
(***************************************************************************)
(* A thread that reads alone.                                              *)
(***************************************************************************)
IsScript(s, x) ==
  /\ Script(x) /\ s \in Seq(Symbols) /\ Printed(s) \in Seq(Messages)
  /\ x.arrive = Len(s) /\ \A i \in 1 .. Len(s) : x.text[i] = s[i]
  /\ x.whole = Len(Printed(s)) /\ \A k \in 1 .. x.whole : x.message[k] = Printed(s)[k]

ScriptOf(s) == CHOOSE x : IsScript(s, x)

(* The messages that a thread has read, k being the next.                  *)
Gotten(x, k, r) ==
  /\ result[r] \in Seq(Messages) /\ Len(result[r]) + 1 = k
  /\ \A i \in 1 .. Len(result[r]) : result[r][i] = x.message[i]

Idle(x, k, r) == where[r] = "idle" /\ Arriving(x, x.end[k-1], socket[r])

Reads(x, k, r, b, h) ==
  /\ Arriving(x, h, socket[r])
  /\ \/ /\ Layer(x, b, h, where[r], res[r], last_char)
        /\ Place(x, k, mode[r], stack[r], top[r], b)
     \/ /\ Stray(b, h, where[r], res[r], last_char)
        /\ Before(x, k, mode[r], stack[r], b)

Ended(r) == where[r] = "ended" /\ result[r] = Append(Printed(sent[r]), Null)

ReaderAt(x, k, r) ==
  /\ k <= x.whole + 1 /\ Gotten(x, k, r)
  /\ \/ Idle(x, k, r)
     \/ \E b \in Nat, h \in Nat : Reads(x, k, r, b, h)

Reader(r) ==
  \/ Ended(r)
  \/ \E k \in Nat \ {0} : ReaderAt(ScriptOf(sent[r]), k, r)

Alone == \A q, r \in Active : q = r

AloneInv ==
  /\ HeightInv
  /\ \A r \in Readers : IsScript(sent[r], ScriptOf(sent[r]))
  /\ threads = 1 => /\ Alone
                    /\ Active = {} => last_char = "" \/ last_char = ">"
                    /\ \A r \in Readers : Reader(r)

(* What a step of a reader leaves as it is for the others.                 *)
Kept(r) ==
  \A q \in Readers \ {r} :
    /\ where'[q] = where[q] /\ mode'[q] = mode[q] /\ res'[q] = res[q]
    /\ stack'[q] = stack[q] /\ top'[q] = top[q] /\ result'[q] = result[q]
    /\ socket'[q] = socket[q]

LEMMA StepKeeps ==
  ASSUME Arrays, NEW r \in Readers, Step(r)
  PROVE  Kept(r) /\ threads' = threads
<1>1. CASE CallReadNode(r)
  BY <1>1 DEF Kept, Arrays, CallReadNode, Step
<1>2. CASE CopyLastChar(r)
  BY <1>2 DEF Kept, Arrays, CopyLastChar, Step
<1>3. ASSUME NEW t, ParseToken(r, t)
      PROVE  \A q \in Readers \ {r} :
               /\ where'[q] = where[q] /\ mode'[q] = mode[q]
               /\ stack'[q] = stack[q] /\ top'[q] = top[q] /\ result'[q] = result[q]
  BY <1>3 DEF Arrays, ParseToken, ReturnNode, NextToken, PushText, DoNode, RejectTag, CloseTag,
              CloseNothing, EmptyTag, OpenTag
<1>4. CASE TestLastChar(r)
  <2>1. CASE last_char \in {"<", ">"}
    BY <1>3, <1>4, <2>1 DEF Kept, TestLastChar, Step
  <2>2. CASE last_char \notin {"<", ">"}
    BY <1>4, <2>2 DEF Kept, Arrays, TestLastChar, Step
  <2> QED BY <2>1, <2>2
<1>5. CASE ReadSymbol(r)
  <2>1. \A q \in Readers \ {r} : res'[q] = res[q] /\ socket'[q] = socket[q]
    BY <1>5 DEF Arrays, ReadSymbol
  <2>2. CASE Head(socket[r]) \in {"<", ">"}
    <3>1. \E t : ParseToken(r, t)
      BY <1>5, <2>2 DEF ReadSymbol
    <3> QED BY <1>3, <2>1, <3>1 DEF Kept, Step
  <2>3. CASE Head(socket[r]) \notin {"<", ">"}
    BY <1>5, <2>1, <2>3 DEF Kept, Arrays, ReadSymbol, Step
  <2> QED BY <2>2, <2>3
<1>6. CASE ReadEnd(r)
  BY <1>3, <1>6 DEF Kept, Arrays, ReadEnd, Step
<1> QED BY <1>1, <1>2, <1>4, <1>5, <1>6 DEF Step

(* A thread that is not reading is left alone by one that is.              *)
LEMMA OthersStay ==
  ASSUME NEW r \in Readers, Kept(r), NEW q \in Readers \ {r}, Reader(q), q \notin Active, sent' = sent
  PROVE  Reader(q)' /\ q \notin Active'
<1>1. /\ where'[q] = where[q] /\ result'[q] = result[q] /\ socket'[q] = socket[q]
      /\ sent'[q] = sent[q]
  BY DEF Kept
<1>2. where[q] = "idle" \/ where[q] = "ended"
  BY DEF Active
<1>3. q \notin Active'
  BY <1>1, <1>2 DEF Active
<1>4. ASSUME Ended(q) PROVE Reader(q)'
  BY <1>1, <1>4 DEF Reader, Ended
<1>5. ASSUME NEW k \in Nat \ {0}, ReaderAt(ScriptOf(sent[q]), k, q)
      PROVE  Reader(q)'
  <2>1. PICK x : x = ScriptOf(sent[q]) /\ x = ScriptOf(sent'[q])
    BY <1>1
  <2>2. k <= x.whole + 1 /\ Gotten(x, k, q)
    BY <1>5, <2>1 DEF ReaderAt
  <2>3. Gotten(x, k, q)'
    BY <1>1, <2>2 DEF Gotten
  <2>4. CASE where[q] = "idle"
    <3>1. Idle(x, k, q)
      BY <1>5, <2>1, <2>4 DEF ReaderAt, Reads, Layer, Stray, Idle
    <3>2. Idle(x, k, q)'
      BY <1>1, <3>1 DEF Idle
    <3>3. ReaderAt(x, k, q)'
      BY <2>2, <2>3, <3>2 DEF ReaderAt
    <3> QED BY <2>1, <3>3 DEF Reader
  <2>5. CASE where[q] = "ended"
    <3>1. FALSE
      BY <1>5, <2>1, <2>5 DEF ReaderAt, Reads, Layer, Stray, Idle
    <3> QED BY <3>1
  <2> QED BY <1>2, <2>4, <2>5
<1>6. Ended(q) \/ \E k \in Nat \ {0} : ReaderAt(ScriptOf(sent[q]), k, q)
  BY DEF Reader
<1>7. Reader(q)'
  BY <1>4, <1>5, <1>6, Zenon
<1> QED BY <1>3, <1>7

(***************************************************************************)
(* Reading a token to position d, h symbols of the stream having arrived.  *)
(***************************************************************************)
Parsed(x, k, r, d) ==
  \/ where'[r] = "peek" /\ Gotten(x, k, r)' /\ Place(x, k, mode'[r], stack'[r], top'[r], d)
  \/ /\ where'[r] = "idle" /\ Gotten(x, k + 1, r)' /\ k + 1 <= x.whole + 1
     /\ d = x.end[k] /\ x.text[d] = ">"
  \/ /\ where'[r] = "ended" /\ result'[r] = Append(Printed(sent[r]), Null)
     /\ x.text[d+1] = ">"

LEMMA AllGotten ==
  ASSUME NEW r \in Readers, NEW x, IsScript(sent[r], x), Gotten(x, x.whole + 1, r),
         Printed(sent[r]) \in Seq(Messages)
  PROVE  result[r] = Printed(sent[r])
<1>1. PICK n \in Nat : n = Len(result[r])
  BY LengthOf DEF Gotten
<1>2. x.whole = n
  <2>1. x.whole \in Nat /\ n + 1 = x.whole + 1
    BY <1>1 DEF IsScript, Script, Gotten
  <2> QED BY <2>1
<1>3. Len(result[r]) = Len(Printed(sent[r]))
  BY <1>1, <1>2 DEF IsScript
<1>4. \A i \in 1 .. n : result[r][i] = Printed(sent[r])[i]
  BY <1>1, <1>2 DEF IsScript, Gotten
<1>5. result[r] \in Seq(Messages)
  BY DEF Gotten
<1> QED BY <1>1, <1>3, <1>4, <1>5, SeqEqual

LEMMA TokenParsed ==
  ASSUME Arrays, NEW r \in Readers, NEW x, IsScript(sent[r], x), Printed(sent[r]) \in Seq(Messages),
         NEW k \in Nat \ {0}, k <= x.whole + 1, Gotten(x, k, r),
         NEW b \in Nat, Place(x, k, mode[r], stack[r], top[r], b), depth[r] = Len(stack[r]),
         NEW t, TokenAt(x.text, x.arrive, b, t), ParseToken(r, t)
  PROVE  Parsed(x, k, r, b + Len(t))
<1>1. Script(x) /\ x.arrive \in Nat /\ x.whole \in Nat /\ x.whole <= x.count /\ x.count \in Nat
  BY DEF IsScript, Script
<1>2. PICK d \in Nat : d = b + Len(t) /\ d <= x.arrive
  <2>1. Len(t) \in Nat /\ b + Len(t) <= x.arrive
    BY <1>1, TokenArrives
  <2> QED BY <2>1
<1>3. GoesOn(x, k, r, d) \/ Delivers(x, k, r, d) \/ Fails(x, k, r, d)
  BY <1>1, <1>2, PlaceMoves
<1>4. CASE GoesOn(x, k, r, d)
  <2>1. Gotten(x, k, r)'
    BY <1>4 DEF GoesOn, Gotten
  <2> QED BY <1>2, <1>4, <2>1 DEF GoesOn, Parsed
<1>5. CASE Delivers(x, k, r, d)
  <2>1. where'[r] = "idle" /\ result'[r] = Append(result[r], x.message[k]) /\ k <= x.count /\ d = x.end[k]
    BY <1>5 DEF Delivers
  <2>2. k <= x.whole
    <3>1. ASSUME k = x.whole + 1 PROVE FALSE
      <4>1. x.count = x.whole + 1 /\ x.count # x.whole /\ k = x.count
        <5>1. x.count = x.whole + 1 \/ x.count = x.whole
          BY <1>1 DEF Script
        <5> QED BY <1>1, <2>1, <3>1, <5>1
      <4>2. x.arrive < x.end[x.count]
        BY <1>1, <4>1 DEF Script
      <4> QED BY <1>1, <1>2, <2>1, <4>1, <4>2
    <3> QED BY <1>1, <3>1
  <2>3. ScriptAt(x, k)
    BY <1>1, ScriptIsAt
  <2>4. x.message[k] \in Messages /\ x.text[d] = ">"
    BY <2>1, <2>3 DEF ScriptAt
  <2>5. PICK m \in Messages, s \in Seq(Messages), n \in Nat :
          m = x.message[k] /\ s = result[r] /\ n = Len(s) /\ n + 1 = k
    <3>1. result[r] \in Seq(Messages) /\ Len(result[r]) + 1 = k
      BY DEF Gotten
    <3>2. Len(result[r]) \in Nat
      BY <3>1, LengthOf
    <3> QED BY <2>4, <3>1, <3>2
  <2>6. /\ Append(s, m) \in Seq(Messages) /\ Len(Append(s, m)) = k
        /\ \A i \in 1 .. n : Append(s, m)[i] = s[i]
        /\ Append(s, m)[k] = m
    BY <2>5, AppendProperties
  <2>7. \A i \in 1 .. k : Append(s, m)[i] = x.message[i]
    <3>1. \A i \in 1 .. k : i \in 1 .. n \/ i = k
      BY <2>5
    <3>2. \A i \in 1 .. n : s[i] = x.message[i]
      BY <2>5 DEF Gotten
    <3> QED BY <2>5, <2>6, <3>1, <3>2
  <2>8. result'[r] = Append(s, m)
    BY <2>1, <2>5
  <2>9. Gotten(x, k + 1, r)'
    BY <2>6, <2>7, <2>8 DEF Gotten
  <2>10. k + 1 <= x.whole + 1
    BY <1>1, <2>2
  <2> QED BY <1>2, <2>1, <2>4, <2>9, <2>10 DEF Parsed
<1>6. CASE Fails(x, k, r, d)
  <2>1. result[r] = Printed(sent[r])
    BY <1>6, AllGotten DEF Fails
  <2> QED BY <1>2, <1>6, <2>1 DEF Fails, Parsed
<1> QED BY <1>3, <1>4, <1>5, <1>6

LEMMA EndParsed ==
  ASSUME Arrays, NEW r \in Readers, NEW x, IsScript(sent[r], x), Printed(sent[r]) \in Seq(Messages),
         NEW k \in Nat \ {0}, k <= x.whole + 1, Gotten(x, k, r),
         NEW b \in Nat, Place(x, k, mode[r], stack[r], top[r], b),
         \A i \in Nat : b < i /\ i <= x.arrive => x.text[i] \notin Delimiters,
         ParseToken(r, <<>>)
  PROVE  where'[r] = "ended" /\ result'[r] = Append(Printed(sent[r]), Null)
<1>1. Script(x) /\ x.whole \in Nat
  BY DEF IsScript, Script
<1>2. mode[r] = "loop" \/ mode[r] = "name" \/ mode[r] = "close"
  BY <1>1, PlaceIsBefore
<1>3. k = x.whole + 1
  <2>1. ASSUME k <= x.whole PROVE FALSE
    <3>1. x.end[k] \in Nat /\ b < x.end[k] /\ x.end[k] <= x.arrive /\ x.text[x.end[k]] = ">"
      BY <1>1, <2>1, PlaceIsBefore
    <3> QED BY <3>1 DEF Delimiters
  <2> QED BY <1>1, <2>1
<1>4. result[r] = Printed(sent[r])
  BY <1>3, AllGotten
<1>5. where'[r] = "ended" /\ result'[r] = Append(result[r], Null)
  BY <1>2, ParseNothing
<1> QED BY <1>4, <1>5

-----------------------------------------------------------------------------
LEMMA NumberAfter == \A k \in Nat \ {0} : (k + 1) - 1 = k /\ k + 1 \in Nat \ {0}
  OBVIOUS

LEMMA AsksForToken ==
  ASSUME NEW x, NEW b, NEW h, NEW wh, wh = "peek", NEW rs, NEW lc,
         \/ lc = "" /\ b = h
         \/ lc \in Delimiters /\ b + 1 = h /\ x.text[h] = lc
  PROVE  Layer(x, b, h, wh, rs, lc)
  BY DEF Layer

LEMMA AsksAfterStray ==
  ASSUME NEW h, NEW wh, wh = "peek", NEW rs, NEW lc, lc = ">"
  PROVE  Stray(h, h, wh, rs, lc)
  BY DEF Stray

(* The reader and last_char after a step.                                  *)
Proceeds(r) == Reader(r)' /\ (r \in Active' \/ last_char' = "" \/ last_char' = ">")

LEMMA ReadsNext ==
  ASSUME NEW r \in Readers, NEW x, x = ScriptOf(sent'[r]), NEW k \in Nat \ {0}, k <= x.whole + 1,
         Gotten(x, k, r)', NEW b \in Nat, NEW h \in Nat, Reads(x, k, r, b, h)'
  PROVE  Proceeds(r)
<1>1. ReaderAt(x, k, r)'
  BY DEF ReaderAt
<1>2. Reader(r)'
  BY <1>1 DEF Reader
<1>3. where'[r] = "peek" \/ where'[r] = "test" \/ where'[r] = "read"
  BY DEF Reads, Layer, Stray
<1>4. r \in Active'
  BY <1>3 DEF Active
<1> QED BY <1>2, <1>4 DEF Proceeds

LEMMA ParsedNext ==
  ASSUME NEW r \in Readers, sent' = sent, NEW x, x = ScriptOf(sent[r]), NEW k \in Nat \ {0},
         k <= x.whole + 1, NEW d \in Nat, Parsed(x, k, r, d),
         NEW h \in Nat, Arriving(x, h, socket'[r]),
         \/ last_char' = "" /\ d = h
         \/ last_char' \in Delimiters /\ d + 1 = h /\ x.text[h] = last_char' /\ x.text[d] # ">"
  PROVE  Proceeds(r)
<1>0. x = ScriptOf(sent'[r])
  OBVIOUS
<1>1. CASE where'[r] = "peek" /\ Gotten(x, k, r)' /\ Place(x, k, mode'[r], stack'[r], top'[r], d)
  <2>1. Layer(x, d, h, where'[r], res'[r], last_char')
    BY <1>1, AsksForToken
  <2>2. Reads(x, k, r, d, h)'
    BY <1>1, <2>1 DEF Reads
  <2> QED BY <1>0, <1>1, <2>2, ReadsNext
<1>2. CASE /\ where'[r] = "idle" /\ Gotten(x, k + 1, r)' /\ k + 1 <= x.whole + 1
           /\ d = x.end[k] /\ x.text[d] = ">"
  <2>1. last_char' = "" /\ d = h
    BY <1>2
  <2>2. (k + 1) - 1 = k /\ k + 1 \in Nat \ {0}
    BY NumberAfter, Zenon
  <2>3. Idle(x, k + 1, r)'
    BY <1>2, <2>1, <2>2 DEF Idle
  <2>4. ReaderAt(x, k + 1, r)'
    BY <1>2, <2>3 DEF ReaderAt
  <2>5. Reader(r)'
    BY <1>0, <2>2, <2>4 DEF Reader
  <2> QED BY <2>1, <2>5 DEF Proceeds
<1>3. CASE /\ where'[r] = "ended" /\ result'[r] = Append(Printed(sent[r]), Null)
           /\ x.text[d+1] = ">"
  <2>1. Ended(r)'
    BY <1>3 DEF Ended
  <2>2. last_char' = "" \/ last_char' = ">"
    BY <1>3
  <2> QED BY <2>1, <2>2 DEF Proceeds, Reader
<1> QED BY <1>1, <1>2, <1>3 DEF Parsed

(* What holds of the thread that makes a step.                             *)
Ready(x, k, r) ==
  /\ Arrays /\ x = ScriptOf(sent[r]) /\ IsScript(sent[r], x)
  /\ k <= x.whole + 1 /\ Gotten(x, k, r)
  /\ depth[r] = Len(stack[r])

LEMMA ReadyParts ==
  ASSUME NEW r \in Readers, NEW x, NEW k, Ready(x, k, r)
  PROVE  /\ Arrays /\ x = ScriptOf(sent[r]) /\ IsScript(sent[r], x) /\ Script(x)
         /\ Printed(sent[r]) \in Seq(Messages) /\ x.arrive \in Nat
         /\ k <= x.whole + 1 /\ Gotten(x, k, r) /\ depth[r] = Len(stack[r])
  BY DEF Ready, IsScript, Script

LEMMA CallReads ==
  ASSUME NEW r \in Readers, sent' = sent, NEW x, NEW k \in Nat \ {0}, Ready(x, k, r),
         Idle(x, k, r), CallReadNode(r), last_char = "" \/ last_char = ">"
  PROVE  Proceeds(r)
<1>1. /\ where'[r] = "peek" /\ mode'[r] = "loop" /\ stack'[r] = <<>>
      /\ socket'[r] = socket[r] /\ last_char' = last_char /\ result'[r] = result[r]
  BY ReadyParts DEF CallReadNode, Arrays
<1>2. PICK h \in Nat : h = x.end[k-1]
  <2>1. ScriptAt(x, k)
    BY ReadyParts, ScriptIsAt
  <2> QED BY <2>1 DEF ScriptAt
<1>3. Arriving(x, h, socket'[r])
  BY <1>1, <1>2 DEF Idle
<1>4. Before(x, k, mode'[r], stack'[r], h)
  BY <1>1, <1>2 DEF Before
<1>5. Gotten(x, k, r)'
  BY <1>1, ReadyParts DEF Gotten
<1>6. CASE last_char = ""
  <2>1. Layer(x, h, h, where'[r], res'[r], last_char')
    BY <1>1, <1>6, AsksForToken
  <2> QED BY <1>3, <1>4, <1>5, <2>1, ReadyParts, ReadsNext DEF Reads, Place
<1>7. CASE last_char = ">"
  <2>1. Stray(h, h, where'[r], res'[r], last_char')
    BY <1>1, <1>7, AsksAfterStray
  <2> QED BY <1>3, <1>4, <1>5, <2>1, ReadyParts, ReadsNext DEF Reads
<1> QED BY <1>6, <1>7

LEMMA CopyReads ==
  ASSUME NEW r \in Readers, sent' = sent, NEW x, NEW k \in Nat \ {0}, Ready(x, k, r),
         NEW b \in Nat, NEW h \in Nat, Reads(x, k, r, b, h), CopyLastChar(r)
  PROVE  Proceeds(r)
<1>1. /\ where[r] = "peek" /\ where'[r] = "test" /\ mode'[r] = mode[r] /\ stack'[r] = stack[r]
      /\ top'[r] = top[r]
      /\ socket'[r] = socket[r] /\ last_char' = last_char /\ result'[r] = result[r]
      /\ res'[r] = IF last_char = "" THEN <<>> ELSE <<last_char>>
  BY ReadyParts DEF CopyLastChar, Arrays
<1>2. Gotten(x, k, r)'
  BY <1>1, ReadyParts DEF Gotten
<1>3. Arriving(x, h, socket[r])
  BY DEF Reads
<1>4. CASE Layer(x, b, h, where[r], res[r], last_char) /\ Place(x, k, mode[r], stack[r], top[r], b)
  <2>1. Layer(x, b, h, where'[r], res'[r], last_char')
    BY <1>1, <1>4 DEF Layer, Delimiters
  <2>2. Reads(x, k, r, b, h)'
    BY <1>1, <1>3, <1>4, <2>1 DEF Reads
  <2> QED BY <1>2, <2>2, ReadyParts, ReadsNext
<1>5. CASE Stray(b, h, where[r], res[r], last_char) /\ Before(x, k, mode[r], stack[r], b)
  <2>1. Stray(b, h, where'[r], res'[r], last_char')
    BY <1>1, <1>5 DEF Stray
  <2>2. Reads(x, k, r, b, h)'
    BY <1>1, <1>3, <1>5, <2>1 DEF Reads
  <2> QED BY <1>2, <2>2, ReadyParts, ReadsNext
<1> QED BY <1>4, <1>5 DEF Reads

LEMMA TestReads ==
  ASSUME NEW r \in Readers, sent' = sent, NEW x, NEW k \in Nat \ {0}, Ready(x, k, r),
         NEW b \in Nat, NEW h \in Nat, Reads(x, k, r, b, h), TestLastChar(r)
  PROVE  Proceeds(r)
<1>1. where[r] = "test" /\ socket'[r] = socket[r] /\ res'[r] = res[r]
  BY DEF TestLastChar
<1>2. Arriving(x, h, socket[r])
  BY DEF Reads
<1>3. h <= x.arrive
  <2>1. Len(socket[r]) \in Nat /\ h + Len(socket[r]) = x.arrive
    BY <1>2, LengthOf DEF Arriving
  <2> QED BY <2>1
<1>4. CASE last_char \in {"<", ">"}
  <2>1. last_char' = "" /\ ParseToken(r, res[r])
    BY <1>4 DEF TestLastChar
  <2>2. CASE Layer(x, b, h, where[r], res[r], last_char) /\ Place(x, k, mode[r], stack[r], top[r], b)
    <3>1. res[r] = <<last_char>> /\ last_char \in Delimiters /\ b + 1 = h /\ x.text[h] = last_char
      BY <1>1, <1>4, <2>2 DEF Layer
    <3>2. PICK t : t = res[r] /\ t = <<last_char>> /\ TokenAt(x.text, x.arrive, b, t) /\ Len(t) = 1
      BY <1>3, <3>1, BracketArrives
    <3>3. Parsed(x, k, r, b + Len(t))
      BY <2>1, <2>2, <3>2, ReadyParts, TokenParsed
    <3>4. Parsed(x, k, r, h)
      BY <3>1, <3>2, <3>3
    <3> QED BY <1>1, <1>2, <2>1, <3>4, ReadyParts, ParsedNext
  <2>3. CASE Stray(b, h, where[r], res[r], last_char) /\ Before(x, k, mode[r], stack[r], b)
    <3>1. res[r] = <<">">> /\ b = h /\ mode[r] = "loop" /\ stack[r] = <<>>
      BY <1>1, <2>3 DEF Stray, Before
    <3>2. PICK t : t = res[r] /\ t # <<>> /\ t # <<"<">>
      <4>1. <<">">> # <<>> /\ <<">">> # <<"<">>
        OBVIOUS
      <4> QED BY <3>1, <4>1, Zenon
    <3>3. where'[r] = "peek" /\ mode'[r] = "loop" /\ result' = result /\ stack'[r] = <<>>
      BY <2>1, <3>1, <3>2, ReadyParts, ParseText
    <3>4. Before(x, k, mode'[r], stack'[r], b)
      BY <2>3, <3>1, <3>3 DEF Before
    <3>5. Layer(x, b, h, where'[r], res'[r], last_char')
      BY <2>1, <3>1, <3>3, AsksForToken
    <3>6. Reads(x, k, r, b, h)'
      BY <1>1, <1>2, <3>4, <3>5 DEF Reads, Place
    <3>7. Gotten(x, k, r)'
      BY <3>3, ReadyParts DEF Gotten
    <3> QED BY <3>6, <3>7, ReadyParts, ReadsNext
  <2> QED BY <2>2, <2>3 DEF Reads
<1>5. CASE last_char \notin {"<", ">"}
  <2>1. /\ where'[r] = "read" /\ last_char' = last_char /\ mode'[r] = mode[r]
        /\ stack'[r] = stack[r] /\ top'[r] = top[r] /\ result'[r] = result[r]
    BY <1>5, ReadyParts DEF TestLastChar, Arrays
  <2>2. /\ last_char = "" /\ res[r] = <<>> /\ b = h
        /\ Place(x, k, mode[r], stack[r], top[r], b)
    BY <1>1, <1>5 DEF Reads, Layer, Stray, Delimiters
  <2>3. Layer(x, b, h, where'[r], res'[r], last_char')
    <3>1. <<>> \in Seq(Symbols) /\ Len(<<>>) = 0 /\ b + 0 = b /\ \A i \in 1 .. 0 : FALSE
      OBVIOUS
    <3> QED BY <1>1, <2>1, <2>2, <3>1 DEF Layer
  <2>4. Reads(x, k, r, b, h)'
    BY <1>1, <1>2, <2>1, <2>2, <2>3 DEF Reads
  <2>5. Gotten(x, k, r)'
    BY <2>1, ReadyParts DEF Gotten
  <2> QED BY <2>4, <2>5, ReadyParts, ReadsNext
<1> QED BY <1>4, <1>5

LEMMA SymbolReads ==
  ASSUME NEW r \in Readers, sent' = sent, NEW x, NEW k \in Nat \ {0}, Ready(x, k, r),
         NEW b \in Nat, NEW h \in Nat, Reads(x, k, r, b, h), ReadSymbol(r)
  PROVE  Proceeds(r)
<1>1. PICK c : c = Head(socket[r])
  OBVIOUS
<1>2. /\ where[r] = "read" /\ socket[r] # <<>> /\ socket'[r] = Tail(socket[r])
      /\ res'[r] = IF c \in Delimiters THEN res[r] ELSE Append(res[r], c)
  BY <1>1, ReadyParts DEF ReadSymbol, Arrays, Delimiters
<1>3. /\ Layer(x, b, h, "read", res[r], last_char) /\ Place(x, k, mode[r], stack[r], top[r], b)
      /\ Arriving(x, h, socket[r])
  BY <1>2 DEF Reads, Stray
<1>4. /\ last_char = "" /\ res[r] \in Seq(Symbols) /\ b + Len(res[r]) = h
      /\ \A i \in 1 .. Len(res[r]) : res[r][i] = x.text[b+i] /\ res[r][i] \notin Delimiters
  BY <1>3 DEF Layer
<1>5. /\ c = x.text[h+1] /\ c \in Symbols /\ h + 1 <= x.arrive /\ Arriving(x, h + 1, socket'[r])
  BY <1>1, <1>2, <1>3, OneArrives
<1>6. PICK g \in Nat, t \in Seq(Symbols) : g = h + 1 /\ t = res[r]
  <2>1. h + 1 \in Nat
    OBVIOUS
  <2> QED BY <1>4, <2>1, Zenon
<1>7. CASE c \notin Delimiters
  <2>1. /\ last_char' = last_char /\ where'[r] = "read" /\ mode'[r] = mode[r]
        /\ stack'[r] = stack[r] /\ top'[r] = top[r] /\ result'[r] = result[r]
    BY <1>1, <1>2, <1>7 DEF ReadSymbol, Delimiters
  <2>2. Layer(x, b, g, "read", Append(t, c), "")
    BY <1>4, <1>5, <1>6, <1>7, WordGrows
  <2>3. Layer(x, b, g, where'[r], res'[r], last_char')
    BY <1>2, <1>4, <1>6, <1>7, <2>1, <2>2
  <2>4. Reads(x, k, r, b, g)'
    BY <1>3, <1>5, <1>6, <2>1, <2>3 DEF Reads
  <2>5. Gotten(x, k, r)'
    BY <2>1, ReadyParts DEF Gotten
  <2> QED BY <2>4, <2>5, ReadyParts, ReadsNext
<1>8. CASE c \in Delimiters /\ t = <<>>
  <2>1. last_char' = "" /\ ParseToken(r, <<c>>)
    BY <1>1, <1>6, <1>8 DEF ReadSymbol, Delimiters
  <2>2. b = h
    <3>1. Len(t) = 0 /\ b + Len(t) = h
      BY <1>4, <1>6, <1>8, EmptySeq, Zenon
    <3> QED BY <3>1
  <2>3. PICK u : u = <<c>> /\ TokenAt(x.text, x.arrive, b, u) /\ Len(u) = 1
    BY <1>5, <1>8, <2>2, BracketArrives
  <2>4. Parsed(x, k, r, b + Len(u))
    BY <1>3, <2>1, <2>3, ReadyParts, TokenParsed
  <2>5. Parsed(x, k, r, g)
    BY <1>6, <2>2, <2>3, <2>4
  <2> QED BY <1>5, <1>6, <2>1, <2>5, ReadyParts, ParsedNext
<1>9. CASE c \in Delimiters /\ t # <<>>
  <2>1. last_char' = c /\ ParseToken(r, t)
    BY <1>1, <1>6, <1>9 DEF ReadSymbol, Delimiters, PutBack
  <2>2. PICK n \in Nat \ {0} : n = Len(t) /\ b + n = h
    BY <1>4, <1>6, <1>9, LengthOf
  <2>3. TokenAt(x.text, x.arrive, b, t)
    BY <1>4, <1>5, <1>6, <1>9, <2>2, WordArrives
  <2>4. Parsed(x, k, r, b + Len(t))
    BY <1>3, <2>1, <2>3, ReadyParts, TokenParsed
  <2>5. Parsed(x, k, r, h)
    BY <2>2, <2>4
  <2>6. x.text[h] # ">"
    <3>1. n \in 1 .. n /\ b + n = h
      BY <2>2
    <3>2. x.text[h] \notin Delimiters
      BY <1>4, <1>6, <2>2, <3>1
    <3> QED BY <3>2 DEF Delimiters
  <2>7. last_char' \in Delimiters /\ h + 1 = g /\ x.text[g] = last_char'
    BY <1>5, <1>6, <1>9, <2>1
  <2> QED BY <1>5, <1>6, <2>5, <2>6, <2>7, ReadyParts, ParsedNext
<1> QED BY <1>7, <1>8, <1>9

LEMMA EndReads ==
  ASSUME NEW r \in Readers, sent' = sent, NEW x, NEW k \in Nat \ {0}, Ready(x, k, r),
         NEW b \in Nat, NEW h \in Nat, Reads(x, k, r, b, h), ReadEnd(r)
  PROVE  Proceeds(r)
<1>1. where[r] = "read" /\ socket[r] = <<>> /\ ParseToken(r, <<>>) /\ last_char' = last_char
  BY DEF ReadEnd
<1>2. /\ Layer(x, b, h, "read", res[r], last_char) /\ Place(x, k, mode[r], stack[r], top[r], b)
      /\ Arriving(x, h, socket[r])
  BY <1>1 DEF Reads, Stray
<1>3. h = x.arrive
  <2>1. Len(socket[r]) = 0 /\ h + Len(socket[r]) = x.arrive
    BY <1>1, <1>2 DEF Arriving
  <2> QED BY <2>1
<1>4. \A i \in Nat : b < i /\ i <= x.arrive => x.text[i] \notin Delimiters
  <2>1. PICK n \in Nat : n = Len(res[r]) /\ b + n = h
    BY <1>2, LengthOf DEF Layer
  <2>2. ASSUME NEW i \in Nat, b < i, i <= x.arrive PROVE x.text[i] \notin Delimiters
    <3>1. PICK j \in 1 .. n : b + j = i
      <4>1. i - b \in 1 .. n /\ b + (i - b) = i
        BY <1>3, <2>1, <2>2
      <4> QED BY <4>1
    <3> QED BY <1>2, <2>1, <3>1 DEF Layer
  <2> QED BY <2>2
<1>5. where'[r] = "ended" /\ result'[r] = Append(Printed(sent[r]), Null)
  BY <1>1, <1>2, <1>4, ReadyParts, EndParsed
<1>6. last_char' = ""
  BY <1>1, <1>2 DEF Layer
<1> QED BY <1>5, <1>6 DEF Proceeds, Reader, Ended

-----------------------------------------------------------------------------
LEMMA NobodyReads ==
  ASSUME threads = 1, Cardinality(Active) < threads
  PROVE  Active = {}
<1>1. Active \in SUBSET Readers
  BY DEF Active
<1>2. IsFiniteSet(Active) /\ Cardinality(Active) \in Nat
  BY <1>1, XmlReaderAssumption, FS_Subset, FS_CardinalityType
<1>3. Cardinality(Active) = 0
  BY <1>2
<1> QED BY <1>2, <1>3, FS_EmptySet

LEMMA StepProceeds ==
  ASSUME AloneInv, threads = 1, NEW r \in Readers, Step(r), sent' = sent
  PROVE  Proceeds(r) /\ (Active = {} \/ r \in Active)
<1>1. /\ Arrays /\ Height(r) /\ IsScript(sent[r], ScriptOf(sent[r])) /\ Reader(r)
      /\ Active = {} => last_char = "" \/ last_char = ">"
  BY DEF AloneInv, HeightInv
<1>2. where[r] # "ended"
  BY DEF Step, CallReadNode, CopyLastChar, TestLastChar, ReadSymbol, ReadEnd
<1>3. PICK x : x = ScriptOf(sent[r])
  OBVIOUS
<1>4. PICK k \in Nat \ {0} : ReaderAt(x, k, r)
  BY <1>1, <1>2, <1>3 DEF Reader, Ended
<1>5. Ready(x, k, r)
  BY <1>1, <1>2, <1>3, <1>4 DEF Ready, ReaderAt, Height
<1>6. CASE CallReadNode(r)
  <2>1. where[r] = "idle" /\ Active = {}
    BY <1>6, NobodyReads DEF CallReadNode
  <2>2. Idle(x, k, r)
    BY <1>4, <2>1 DEF ReaderAt, Reads, Layer, Stray
  <2>3. Proceeds(r)
    BY <1>1, <1>5, <1>6, <2>1, <2>2, CallReads
  <2> QED BY <2>1, <2>3
<1>7. CASE CopyLastChar(r) \/ TestLastChar(r) \/ ReadSymbol(r) \/ ReadEnd(r)
  <2>1. where[r] = "peek" \/ where[r] = "test" \/ where[r] = "read"
    BY <1>7 DEF CopyLastChar, TestLastChar, ReadSymbol, ReadEnd
  <2>2. r \in Active
    BY <2>1 DEF Active
  <2>3. PICK b \in Nat, h \in Nat : Reads(x, k, r, b, h)
    BY <1>4, <2>1 DEF ReaderAt, Idle
  <2>4. Proceeds(r)
    BY <1>5, <1>7, <2>3, CopyReads, TestReads, SymbolReads, EndReads
  <2> QED BY <2>2, <2>4
<1> QED BY <1>6, <1>7 DEF Step

LEMMA StepKeepsAlone ==
  ASSUME AloneInv, NEW r \in Readers, Step(r), sent' = sent
  PROVE  AloneInv'
<1>1. HeightInv'
  BY StepKeepsHeight DEF AloneInv
<1>2. \A q \in Readers : IsScript(sent'[q], ScriptOf(sent'[q]))
  BY DEF AloneInv
<1>3. Kept(r) /\ threads' = threads
  BY StepKeeps DEF AloneInv, HeightInv
<1>4. ASSUME threads' = 1
      PROVE  /\ Alone' /\ \A q \in Readers : Reader(q)'
             /\ Active' = {} => last_char' = "" \/ last_char' = ">"
  <2>1. threads = 1 /\ Alone /\ \A q \in Readers : Reader(q)
    BY <1>3, <1>4 DEF AloneInv
  <2>2. Proceeds(r) /\ (Active = {} \/ r \in Active)
    BY <2>1, StepProceeds
  <2>3. ASSUME NEW q \in Readers \ {r} PROVE Reader(q)' /\ q \notin Active'
    <3>1. q \notin Active
      BY <2>1, <2>2 DEF Alone
    <3>2. Reader(q)
      BY <2>1
    <3> QED BY <1>3, <3>1, <3>2, OthersStay
  <2>4. \A q \in Active' : q = r
    <3>1. \A q \in Active' : q \in Readers
      BY DEF Active
    <3> QED BY <2>3, <3>1
  <2>5. Alone'
    BY <2>4 DEF Alone
  <2>6. \A q \in Readers : Reader(q)'
    BY <2>2, <2>3 DEF Proceeds
  <2>7. Active' = {} => last_char' = "" \/ last_char' = ">"
    BY <2>2 DEF Proceeds
  <2> QED BY <2>5, <2>6, <2>7
<1> QED BY <1>1, <1>2, <1>4 DEF AloneInv

LEMMA StutterKeepsAlone ==
  ASSUME AloneInv, UNCHANGED <<vars, sent>>
  PROVE  AloneInv'
<1>1. /\ socket' = socket /\ last_char' = last_char /\ where' = where /\ mode' = mode /\ res' = res
      /\ stack' = stack /\ top' = top /\ depth' = depth /\ result' = result /\ threads' = threads
      /\ sent' = sent
  BY DEF vars
<1>2. HeightInv'
  BY <1>1 DEF AloneInv, HeightInv, Arrays, Height
<1>3. \A q \in Readers : IsScript(sent'[q], ScriptOf(sent'[q]))
  BY <1>1 DEF AloneInv
<1>4. Active' = Active
  BY <1>1 DEF Active
<1>5. ASSUME NEW x, NEW k, NEW r, ReaderAt(x, k, r) PROVE ReaderAt(x, k, r)'
  <2>1. Gotten(x, k, r)' /\ (Idle(x, k, r) => Idle(x, k, r)') /\ k <= x.whole + 1
    BY <1>1, <1>5 DEF ReaderAt, Gotten, Idle
  <2>2. ASSUME NEW b, NEW h, Reads(x, k, r, b, h) PROVE Reads(x, k, r, b, h)'
    BY <1>1, <2>2 DEF Reads
  <2> QED BY <1>5, <2>1, <2>2 DEF ReaderAt
<1>6. ASSUME NEW r, Reader(r) PROVE Reader(r)'
  <2>1. ASSUME NEW k \in Nat \ {0}, ReaderAt(ScriptOf(sent[r]), k, r)
        PROVE  ReaderAt(ScriptOf(sent[r]), k, r)'
    <3>1. PICK x : x = ScriptOf(sent[r]) /\ x = ScriptOf(sent'[r])
      BY <1>1
    <3>2. ReaderAt(x, k, r)'
      BY <1>5, <2>1, <3>1
    <3> QED BY <3>1, <3>2
  <2>2. Ended(r) => Ended(r)'
    BY <1>1 DEF Ended
  <2>3. Ended(r) \/ \E k \in Nat \ {0} : ReaderAt(ScriptOf(sent[r]), k, r)
    BY <1>6 DEF Reader
  <2>4. Ended(r)' \/ \E k \in Nat \ {0} : ReaderAt(ScriptOf(sent[r]), k, r)'
    BY <2>1, <2>2, <2>3, Zenon
  <2> QED BY <2>4 DEF Reader
<1>7. ASSUME threads' = 1
      PROVE  /\ Alone' /\ \A q \in Readers : Reader(q)'
             /\ Active' = {} => last_char' = "" \/ last_char' = ">"
  BY <1>1, <1>4, <1>6, <1>7 DEF AloneInv, Alone
<1> QED BY <1>2, <1>3, <1>7 DEF AloneInv

LEMMA PrefixIs ==
  ASSUME NEW S, NEW s \in Seq(S), NEW t \in Seq(S), Len(s) <= Len(t),
         \A i \in 1 .. Len(s) : s[i] = t[i]
  PROVE  IsPrefix(s, t)
<1>1. PICK n \in Nat, m \in Nat : n = Len(s) /\ m = Len(t) /\ n <= m
  BY LengthOf
<1>2. \A i \in 1 .. n : i \in 1 .. m
  BY <1>1
<1>3. PICK u, v : u = SubSeq(s, 1, n) /\ v = SubSeq(t, 1, n)
  OBVIOUS
<1>4. (IF 1 <= n THEN n - 1 + 1 ELSE 0) = n /\ 1 \in Int /\ n \in Int
  OBVIOUS
<1>5. \A i \in 1 .. n : i \in 1 .. n - 1 + 1 /\ 1 + i - 1 = i
  OBVIOUS
<1>6. u \in Seq(S) /\ Len(u) = n /\ \A i \in 1 .. n : u[i] = s[i]
  <2>1. \A i \in 1 .. n : s[i] \in S
    BY <1>1
  <2>2. /\ u \in Seq(S) /\ Len(u) = IF 1 <= n THEN n - 1 + 1 ELSE 0
        /\ \A i \in 1 .. n - 1 + 1 : u[i] = s[1+i-1]
    BY <1>3, <1>4, <2>1, SubSeqProperties
  <2> QED BY <1>4, <1>5, <2>2
<1>7. v \in Seq(S) /\ Len(v) = n /\ \A i \in 1 .. n : v[i] = t[i]
  <2>1. \A i \in 1 .. n : t[i] \in S
    BY <1>1, <1>2
  <2>2. /\ v \in Seq(S) /\ Len(v) = IF 1 <= n THEN n - 1 + 1 ELSE 0
        /\ \A i \in 1 .. n - 1 + 1 : v[i] = t[1+i-1]
    BY <1>3, <1>4, <2>1, SubSeqProperties
  <2> QED BY <1>4, <1>5, <2>2
<1>8. u = v
  <2>1. Len(u) = Len(v) /\ \A i \in 1 .. Len(u) : u[i] = v[i]
    BY <1>1, <1>6, <1>7
  <2> QED BY <1>6, <1>7, <2>1, SeqEqual
<1> QED BY <1>1, <1>3, <1>8 DEF IsPrefix

LEMMA FrontAppended ==
  ASSUME NEW S, NEW s \in Seq(S), NEW x
  PROVE  /\ Append(s, x) # <<>> /\ Last(Append(s, x)) = x /\ Front(Append(s, x)) = s
<1> DEFINE T == S \cup {x}
<1>1. s \in Seq(T) /\ x \in T
  BY SeqMonotonic
<1> HIDE DEF T
<1>2. PICK n \in Nat : n = Len(s)
  BY LengthOf
<1>3. PICK t : t = Append(s, x)
  OBVIOUS
<1>4. /\ t \in Seq(T) /\ t # <<>> /\ Len(t) = n + 1
      /\ \A i \in 1 .. n : t[i] = s[i]
      /\ t[n + 1] = x
  BY <1>1, <1>2, <1>3, AppendProperties
<1>5. PICK u : u = SubSeq(t, 1, n)
  OBVIOUS
<1>6. u \in Seq(T) /\ Len(u) = n /\ \A i \in 1 .. n : u[i] = t[i]
  <2>1. \A i \in 1 .. n : t[i] \in T
    BY <1>1, <1>2, <1>4
  <2>2. (IF 1 <= n THEN n - 1 + 1 ELSE 0) = n /\ 1 \in Int /\ n \in Int
    OBVIOUS
  <2>3. \A i \in 1 .. n : i \in 1 .. n - 1 + 1 /\ 1 + i - 1 = i
    OBVIOUS
  <2>4. /\ u \in Seq(T) /\ Len(u) = IF 1 <= n THEN n - 1 + 1 ELSE 0
        /\ \A i \in 1 .. n - 1 + 1 : u[i] = t[1+i-1]
    BY <1>5, <2>1, <2>2, SubSeqProperties
  <2> QED BY <2>2, <2>3, <2>4
<1>7. u = s
  <2>1. Len(u) = Len(s) /\ \A i \in 1 .. Len(u) : u[i] = s[i]
    BY <1>2, <1>4, <1>6
  <2> QED BY <1>1, <1>6, <2>1, SeqEqual
<1>8. (n + 1) - 1 = n
  OBVIOUS
<1> QED BY <1>3, <1>4, <1>5, <1>7, <1>8 DEF Last, Front

LEMMA AloneReads ==
  ASSUME AloneInv, threads = 1, NEW r \in Readers
  PROVE  /\ IsPrefix(NodesRead(r), Printed(sent[r]))
         /\ where[r] = "ended" => NodesRead(r) = Printed(sent[r])
<1>1. PICK x : x = ScriptOf(sent[r]) /\ IsScript(sent[r], x) /\ Reader(r)
  BY DEF AloneInv
<1>2. PICK p \in Seq(Messages) : p = Printed(sent[r])
  BY <1>1 DEF IsScript
<1>3. CASE Ended(r)
  <2>1. result[r] = Append(p, Null)
    BY <1>2, <1>3 DEF Ended
  <2>2. result[r] # <<>> /\ Last(result[r]) = Null /\ Front(result[r]) = p
    BY <2>1, FrontAppended
  <2>3. NodesRead(r) = p
    BY <2>2 DEF NodesRead
  <2>4. IsPrefix(p, p)
    <3>1. Len(p) \in Nat
      BY LengthOf
    <3>2. Len(p) <= Len(p)
      BY <3>1
    <3> QED BY <3>2, PrefixIs
  <2> QED BY <1>2, <2>3, <2>4
<1>4. ASSUME NEW k \in Nat \ {0}, ReaderAt(x, k, r)
      PROVE  where[r] # "ended" /\ IsPrefix(NodesRead(r), Printed(sent[r]))
  <2>1. where[r] # "ended"
    BY <1>4 DEF ReaderAt, Idle, Reads, Layer, Stray
  <2>2. PICK s \in Seq(Messages) : /\ s = result[r] /\ Len(s) + 1 = k
                                   /\ \A i \in 1 .. Len(s) : s[i] = x.message[i]
    BY <1>4 DEF ReaderAt, Gotten
  <2>3. PICK n \in Nat, m \in Nat : n = Len(s) /\ m = Len(p) /\ m = x.whole /\ n <= m
    <3>1. Len(s) \in Nat /\ Len(p) \in Nat
      BY LengthOf
    <3>2. x.whole = Len(p) /\ k <= x.whole + 1
      BY <1>1, <1>2, <1>4 DEF IsScript, ReaderAt
    <3>3. Len(s) <= Len(p)
      BY <2>2, <3>1, <3>2
    <3> QED BY <3>1, <3>2, <3>3
  <2>4. NodesRead(r) = s
    <3>1. CASE s = <<>>
      BY <2>2, <3>1 DEF NodesRead
    <3>2. CASE s # <<>>
      <4>1. n \in 1 .. n
        <5>1. n # 0
          BY <2>3, <3>2, LengthOf
        <5> QED BY <5>1
      <4>2. s[n] \in Messages
        BY <2>3, <4>1
      <4>3. Last(s) # Null
        BY <2>3, <4>2, MessageIsElement DEF Last
      <4> QED BY <2>2, <4>3 DEF NodesRead
    <3> QED BY <3>1, <3>2
  <2>5. \A i \in 1 .. n : s[i] = p[i]
    <3>1. \A i \in 1 .. n : i \in 1 .. m
      BY <2>3
    <3> QED BY <1>1, <1>2, <2>2, <2>3, <3>1 DEF IsScript
  <2>6. IsPrefix(s, p)
    BY <2>3, <2>5, PrefixIs
  <2> QED BY <1>2, <2>1, <2>4, <2>6
<1>5. Ended(r) \/ \E k \in Nat \ {0} : ReaderAt(x, k, r)
  BY <1>1 DEF Reader
<1> QED BY <1>3, <1>4, <1>5

-----------------------------------------------------------------------------
(***************************************************************************)
(* The streams the programs send are scripts.                              *)
(***************************************************************************)
LEMMA PrefixParts ==
  ASSUME NEW S, NEW s \in Seq(S), NEW t \in Seq(S), IsPrefix(s, t)
  PROVE  Len(s) <= Len(t) /\ \A i \in 1 .. Len(s) : t[i] = s[i]
<1>1. PICK n \in Nat, m \in Nat : n = Len(s) /\ m = Len(t) /\ n <= m
  BY LengthOf DEF IsPrefix
<1>2. SubSeq(s, 1, n) = s
  BY <1>1, SubSeqFull
<1>3. PICK u : u = SubSeq(t, 1, n) /\ u = s
  BY <1>1, <1>2 DEF IsPrefix
<1>4. \A i \in 1 .. n : u[i] = t[i]
  <2>1. \A i \in 1 .. n : i \in 1 .. m
    BY <1>1
  <2>2. \A i \in 1 .. n : t[i] \in S
    BY <1>1, <2>1
  <2>3. 1 \in Int /\ n \in Int /\ \A i \in 1 .. n : i \in 1 .. n - 1 + 1 /\ 1 + i - 1 = i
    OBVIOUS
  <2>4. \A i \in 1 .. n - 1 + 1 : u[i] = t[1+i-1]
    BY <1>3, <2>2, <2>3, SubSeqProperties
  <2> QED BY <2>3, <2>4
<1> QED BY <1>1, <1>3, <1>4

(* What is left of a sequence.                                             *)
LEMMA RestParts ==
  ASSUME NEW S, NEW t \in Seq(S), NEW l \in Nat, NEW n \in Nat, l + n = Len(t)
  PROVE  /\ SubSeq(t, l + 1, Len(t)) \in Seq(S) /\ Len(SubSeq(t, l + 1, Len(t))) = n
         /\ \A i \in 1 .. n : SubSeq(t, l + 1, Len(t))[i] = t[l+i]
<1>1. PICK a \in Int, b \in Int : a = l + 1 /\ b = Len(t) /\ b = l + n
  <2>1. l + 1 \in Int /\ l + n \in Int
    OBVIOUS
  <2> QED BY <2>1
<1>2. \A i \in a .. b : t[i] \in S
  <2>1. \A i \in a .. b : i \in 1 .. Len(t)
    BY <1>1
  <2> QED BY <2>1
<1>3. PICK u : u = SubSeq(t, a, b)
  OBVIOUS
<1>4. /\ u \in Seq(S) /\ Len(u) = IF a <= b THEN b - a + 1 ELSE 0
      /\ \A i \in 1 .. b - a + 1 : u[i] = t[a+i-1]
  BY <1>2, <1>3, SubSeqProperties
<1>5. (IF a <= b THEN b - a + 1 ELSE 0) = n /\ b - a + 1 = n
  BY <1>1
<1>6. \A i \in 1 .. n : a + i - 1 = l + i
  BY <1>1
<1>7. \A i \in 1 .. n : u[i] = t[l+i]
  BY <1>4, <1>5, <1>6
<1> QED BY <1>1, <1>3, <1>4, <1>5, <1>7

(* A printed message, with c line feeds after it.                          *)
Piece(s, m, c) ==
  \A w : \A p \in Nat :
    Occurs(w, p, s) => \E q : /\ MessageAt(w, p, m, q) /\ p + Len(s) = q + c
                              /\ c = 1 => w[q+1] = "\n"

LEMMA ShownPiece ==
  ASSUME NEW m \in Messages
  PROVE  Shown[m] \in Seq(Symbols) /\ Piece(Shown[m], m, 0)
<1>1. Shown[m] \in Seq(Symbols)
  BY MessageIsElement, ShownIs
<1>2. Len(Shown[m]) \in Nat
  BY <1>1, LengthOf
<1>3. ASSUME NEW w, NEW p \in Nat, Occurs(w, p, Shown[m])
      PROVE  \E q : /\ MessageAt(w, p, m, q) /\ p + Len(Shown[m]) = q + 0
                    /\ 0 = 1 => w[q+1] = "\n"
  <2>1. PICK q \in Nat : q = p + Len(Shown[m]) /\ q = q + 0
    BY <1>2
  <2>2. MessageAt(w, p, m, q)
    BY <1>3, <2>1 DEF MessageAt
  <2> QED BY <2>1, <2>2
<1> QED BY <1>1, <1>3 DEF Piece

LEMMA WirePiece ==
  ASSUME NEW m \in Messages
  PROVE  Wire(m) \in Seq(Symbols) /\ Piece(Wire(m), m, 0)
<1>1. CASE m # Element("done", <<>>)
  BY <1>1, ShownPiece DEF Wire
<1>2. CASE m = Element("done", <<>>)
  <2>1. PICK s : s = Wire(m) /\ s = <<"<", "done/", ">">>
    BY <1>2 DEF Wire
  <2>2. s \in Seq(Symbols) /\ Len(s) = 3
    BY <2>1, MarksAreSymbols
  <2>3. ASSUME NEW w, NEW p \in Nat, Occurs(w, p, s)
        PROVE  \E q : /\ MessageAt(w, p, m, q) /\ p + Len(s) = q + 0
                      /\ 0 = 1 => w[q+1] = "\n"
    <3>1. w[p+1] = "<" /\ w[p+2] = "done/" /\ w[p+3] = ">"
      BY <2>1, <2>3, OccursTag
    <3>2. PICK q \in Nat : q = p + 3 /\ p + Len(s) = q + 0
      BY <2>2
    <3>3. MessageAt(w, p, m, q)
      BY <1>2, <3>1, <3>2 DEF MessageAt
    <3> QED BY <3>2, <3>3
  <2> QED BY <2>1, <2>2, <2>3 DEF Piece
<1> QED BY <1>1, <1>2

LEMMA LinePiece ==
  ASSUME NEW m \in Messages
  PROVE  Shown[m] \o <<"\n">> \in Seq(Symbols) /\ Piece(Shown[m] \o <<"\n">>, m, 1)
<1>1. PICK a \in Seq(Symbols), b \in Seq(Symbols) : a = Shown[m] /\ b = <<"\n">> /\ Len(b) = 1
  BY ShownPiece, MarksAreSymbols
<1>2. PICK s \in Seq(Symbols) : s = a \o b
  BY JoinExists
<1>3. PICK n \in Nat : n = Len(a)
  BY LengthOf
<1>4. ASSUME NEW w, NEW p \in Nat, Occurs(w, p, s)
      PROVE  \E q : /\ MessageAt(w, p, m, q) /\ p + Len(s) = q + 1
                    /\ 1 = 1 => w[q+1] = "\n"
  <2>1. Occurs(w, p, a) /\ Occurs(w, p + Len(a), b) /\ Len(s) = Len(a) + Len(b)
    BY <1>2, <1>4, OccursJoined
  <2>2. PICK q \in Nat : q = p + n /\ p + Len(s) = q + 1
    BY <1>1, <1>3, <2>1
  <2>3. MessageAt(w, p, m, q)
    BY <1>1, <1>3, <2>1, <2>2 DEF MessageAt
  <2>4. w[q+1] = "\n"
    <3>1. 1 \in 1 .. Len(b) /\ b[1] = "\n"
      BY <1>1
    <3>2. w[(p + Len(a)) + 1] = b[1]
      BY <2>1, <3>1 DEF Occurs
    <3> QED BY <1>3, <2>2, <3>1, <3>2
  <2> QED BY <2>2, <2>3, <2>4
<1> QED BY <1>1, <1>2, <1>4 DEF Piece

(* Messages one after the other, l symbols of a text.                      *)
Laid(w, msgs, start, end, l) ==
  /\ end \in [0 .. Len(msgs) -> Nat] /\ end[0] = 0
  /\ start \in [1 .. Len(msgs) + 1 -> Nat] /\ start[Len(msgs) + 1] = l
  /\ \A k \in 1 .. Len(msgs) + 1 :
       \/ start[k] = end[k-1]
       \/ start[k] = end[k-1] + 1 /\ w[start[k]] = "\n"
  /\ \A k \in 1 .. Len(msgs) : MessageAt(w, start[k], msgs[k], end[k]) /\ end[k] <= l

LEMMA ZeroBefore == \A l \in Nat : 0 + l = l
  OBVIOUS

LEMMA PiecesLaid ==
  ASSUME NEW msgs \in Seq(Messages), NEW q \in Seq(Seq(Symbols)), Len(q) = Len(msgs),
         NEW c \in {0, 1}, \A i \in 1 .. Len(msgs) : Piece(q[i], msgs[i], c),
         NEW w, Occurs(w, 0, FlattenSeq(q))
  PROVE  \E start, end : Laid(w, msgs, start, end, Len(FlattenSeq(q)))
<1>1. PICK n \in Nat, v \in Seq(Symbols), l \in Nat :
        n = Len(msgs) /\ n = Len(q) /\ v = FlattenSeq(q) /\ l = Len(v)
  <2>1. FlattenSeq(q) \in Seq(Symbols)
    BY FlattenLaidOut
  <2>2. Len(FlattenSeq(q)) \in Nat /\ Len(msgs) \in Nat
    BY <2>1, LengthOf
  <2> QED BY <2>1, <2>2
<1>2. PICK at : Layout(w, q, at) /\ at[0] = 0 /\ at[n] = l
  <2>1. PICK o : Layout(v, q, o) /\ o[0] = 0 /\ o[Len(q)] = Len(v)
    BY <1>1, FlattenLaidOut
  <2>2. PICK p \in Nat : p = 0
    OBVIOUS
  <2>3. Occurs(w, p, v)
    BY <1>1, <2>2
  <2>5. p + l = l
    BY <2>2, ZeroBefore, Zenon
  <2>6. Layout(v, q, o) /\ o[0] = 0 /\ o[Len(q)] = Len(v)
    BY <2>1
  <2>7. PICK u \in Seq(Seq(Symbols)) : u = q
    OBVIOUS
  <2>8. \E new : Layout(w, u, new) /\ new[0] = p /\ new[Len(u)] = p + Len(v)
    BY <2>3, <2>6, <2>7, LayoutMoved
  <2>4. \E new : Layout(w, q, new) /\ new[0] = p /\ new[Len(q)] = p + Len(v)
    BY <2>7, <2>8, Zenon
  <2> QED BY <1>1, <2>2, <2>4, <2>5, Zenon
<1>3. /\ at \in [0 .. n -> Nat]
      /\ \A j \in 1 .. n : at[j] = at[j-1] + Len(q[j]) /\ Occurs(w, at[j-1], q[j])
      /\ \A j \in 0 .. n : at[j] <= l
  BY <1>1, <1>2 DEF Layout
<1> DEFINE Good(k, e) == /\ MessageAt(w, at[k-1], msgs[k], e) /\ at[k] = e + c
                         /\ c = 1 => w[e+1] = "\n"
           end == [k \in 0 .. n |-> IF k = 0 THEN 0 ELSE CHOOSE e : Good(k, e)]
           start == [k \in 1 .. n + 1 |-> at[k-1]]
<1>4. ASSUME NEW k \in 1 .. n
      PROVE  /\ MessageAt(w, at[k-1], msgs[k], end[k]) /\ end[k] \in Nat
             /\ at[k] = end[k] + c /\ (c = 1 => w[end[k]+1] = "\n")
  <2>1. PICK p \in Nat : p = at[k-1]
    <3>1. k - 1 \in 0 .. n
      OBVIOUS
    <3> QED BY <1>3, <3>1
  <2>2. Occurs(w, p, q[k]) /\ at[k] = p + Len(q[k])
    BY <1>3, <2>1
  <2>3. Piece(q[k], msgs[k], c)
    BY <1>1
  <2>4. \E e : Good(k, e)
    <3>1. \E e : /\ MessageAt(w, p, msgs[k], e) /\ p + Len(q[k]) = e + c
                 /\ c = 1 => w[e+1] = "\n"
      BY <2>2, <2>3 DEF Piece
    <3> QED BY <2>1, <2>2, <3>1
  <2>5. end[k] = CHOOSE e : Good(k, e)
    <3>1. k \in 0 .. n /\ k # 0
      OBVIOUS
    <3> HIDE DEF Good
    <3> QED BY <3>1
  <2>6. Good(k, end[k])
    <3> HIDE DEF Good
    <3> QED BY <2>4, <2>5
  <2>7. PICK m \in Messages, e \in {end[k]} : m = msgs[k] /\ MessageAt(w, p, m, e) /\ e = end[k]
    <3>1. msgs[k] \in Messages
      BY <1>1
    <3> HIDE DEF end
    <3> QED BY <2>1, <2>6, <3>1
  <2>8. e \in Nat
    BY <2>7, MessageShape
  <2> HIDE DEF end
  <2> QED BY <2>1, <2>6, <2>7, <2>8
<1>5. end[0] = 0
  <2>1. 0 \in 0 .. n
    OBVIOUS
  <2> QED BY <2>1
<1>6. DOMAIN end = 0 .. n /\ end = [k \in 0 .. n |-> end[k]]
  OBVIOUS
<1>7. /\ start \in [1 .. n + 1 -> Nat]
      /\ \A k \in 1 .. n + 1 : start[k] = at[k-1]
  <2>1. \A k \in 1 .. n + 1 : k - 1 \in 0 .. n
    OBVIOUS
  <2>2. \A k \in 1 .. n + 1 : at[k-1] \in Nat
    BY <1>3, <2>1
  <2> QED BY <2>2
<1> HIDE DEF end, start
<1>8. end \in [0 .. n -> Nat]
  <2>1. \A k \in 0 .. n : k = 0 \/ k \in 1 .. n
    OBVIOUS
  <2>2. \A k \in 0 .. n : end[k] \in Nat
    BY <1>4, <1>5, <2>1
  <2> QED BY <1>6, <2>2
<1>9. start[n + 1] = l
  <2>1. n + 1 \in 1 .. n + 1 /\ (n + 1) - 1 = n
    OBVIOUS
  <2> QED BY <1>2, <1>7, <2>1
<1>10. ASSUME NEW k \in 1 .. n + 1
       PROVE  \/ start[k] = end[k-1]
              \/ start[k] = end[k-1] + 1 /\ w[start[k]] = "\n"
  <2>1. CASE k = 1
    <3>1. k - 1 = 0
      BY <2>1
    <3> QED BY <1>2, <1>5, <1>7, <3>1
  <2>2. CASE k # 1
    <3>1. PICK j \in 1 .. n : j = k - 1
      BY <2>2
    <3>2. at[j] = end[j] + c /\ end[j] \in Nat /\ (c = 1 => w[end[j]+1] = "\n")
      BY <1>4
    <3>3. start[k] = at[j]
      BY <1>7, <3>1
    <3>4. c = 0 \/ c = 1
      OBVIOUS
    <3>5. end[j] + 0 = end[j]
      BY <3>2
    <3> QED BY <3>1, <3>2, <3>3, <3>4, <3>5
  <2> QED BY <2>1, <2>2
<1>11. ASSUME NEW k \in 1 .. n
       PROVE  MessageAt(w, start[k], msgs[k], end[k]) /\ end[k] <= l
  <2>1. k \in 1 .. n + 1 /\ k \in 0 .. n
    OBVIOUS
  <2>2. start[k] = at[k-1]
    BY <1>7, <2>1
  <2>5. end[k] \in Nat /\ at[k] \in Nat /\ c \in Nat /\ at[k] = end[k] + c /\ at[k] <= l
    BY <1>3, <1>4, <2>1
  <2>3. PICK e \in Nat, a \in Nat, d \in Nat : e = end[k] /\ a = at[k] /\ d = c /\ a = e + d /\ a <= l
    BY <2>5, Zenon
  <2>4. e <= l
    BY <2>3
  <2> QED BY <1>4, <2>2, <2>3, <2>4
<1>12. Laid(w, msgs, start, end, l)
  BY <1>1, <1>5, <1>7, <1>8, <1>9, <1>10, <1>11 DEF Laid
<1> QED BY <1>1, <1>12

LEMMA ClientLaid ==
  ASSUME NEW msgs \in Seq(Messages)
  PROVE  /\ FromClient(msgs) \in Seq(Symbols)
         /\ \A w : Occurs(w, 0, FromClient(msgs))
                   => \E start, end : Laid(w, msgs, start, end, Len(FromClient(msgs)))
<1>1. PICK n \in Nat : n = Len(msgs) /\ DOMAIN msgs = 1 .. n /\ \A i \in 1 .. n : msgs[i] \in Messages
  BY LengthOf
<1>2. PICK q : q = [i \in 1 .. n |-> Wire(msgs[i])]
  OBVIOUS
<1>3. \A i \in 1 .. n : Wire(msgs[i]) \in Seq(Symbols) /\ Piece(Wire(msgs[i]), msgs[i], 0)
  BY <1>1, WirePiece
<1>4. q \in [1 .. n -> Seq(Symbols)] /\ \A i \in 1 .. n : q[i] = Wire(msgs[i])
  BY <1>2, <1>3
<1>5. q \in Seq(Seq(Symbols)) /\ Len(q) = n
  BY <1>4, SeqDef
<1>6. \A i \in 1 .. n : Piece(q[i], msgs[i], 0)
  BY <1>3, <1>4
<1>7. FromClient(msgs) = FlattenSeq(q)
  BY <1>1, <1>2 DEF FromClient
<1>8. FlattenSeq(q) \in Seq(Symbols)
  BY <1>5, FlattenLaidOut
<1>9. ASSUME NEW w, Occurs(w, 0, FlattenSeq(q))
      PROVE  \E start, end : Laid(w, msgs, start, end, Len(FlattenSeq(q)))
  <2>1. 0 \in {0, 1}
    OBVIOUS
  <2> QED BY <1>1, <1>5, <1>6, <1>9, <2>1, PiecesLaid
<1> QED BY <1>7, <1>8, <1>9

LEMMA ServerLaid ==
  ASSUME NEW msgs \in Seq(Messages)
  PROVE  /\ FromServer(msgs) \in Seq(Symbols)
         /\ \A w : Occurs(w, 0, FromServer(msgs))
                   => \E start, end : Laid(w, msgs, start, end, Len(FromServer(msgs)))
<1>1. PICK n \in Nat : n = Len(msgs) /\ DOMAIN msgs = 1 .. n /\ \A i \in 1 .. n : msgs[i] \in Messages
  BY LengthOf
<1>2. PICK q : q = [i \in 1 .. n |-> Shown[msgs[i]] \o <<"\n">>]
  OBVIOUS
<1>3. \A i \in 1 .. n : /\ Shown[msgs[i]] \o <<"\n">> \in Seq(Symbols)
                        /\ Piece(Shown[msgs[i]] \o <<"\n">>, msgs[i], 1)
  BY <1>1, LinePiece
<1>4. q \in [1 .. n -> Seq(Symbols)] /\ \A i \in 1 .. n : q[i] = Shown[msgs[i]] \o <<"\n">>
  BY <1>2, <1>3
<1>5. q \in Seq(Seq(Symbols)) /\ Len(q) = n
  BY <1>4, SeqDef
<1>6. \A i \in 1 .. n : Piece(q[i], msgs[i], 1)
  BY <1>3, <1>4
<1>7. FromServer(msgs) = FlattenSeq(q)
  BY <1>1, <1>2 DEF FromServer
<1>8. FlattenSeq(q) \in Seq(Symbols)
  BY <1>5, FlattenLaidOut
<1>9. ASSUME NEW w, Occurs(w, 0, FlattenSeq(q))
      PROVE  \E start, end : Laid(w, msgs, start, end, Len(FlattenSeq(q)))
  <2>1. 1 \in {0, 1}
    OBVIOUS
  <2> QED BY <1>1, <1>5, <1>6, <1>9, <2>1, PiecesLaid
<1> QED BY <1>7, <1>8, <1>9

-----------------------------------------------------------------------------
(* A stream whose messages have all arrived.                               *)
LEMMA WholeScript ==
  ASSUME NEW s \in Seq(Symbols), NEW msgs \in Seq(Messages), msgs = Printed(s),
         NEW w, \A i \in 1 .. Len(s) : w[i] = s[i],
         NEW start, NEW end, NEW l \in Nat, Laid(w, msgs, start, end, l),
         \A k \in 1 .. Len(msgs) : end[k] <= Len(s),
         Len(s) <= l \/ Rejected(w, l)
  PROVE  \E x : IsScript(s, x)
<1>1. PICK n \in Nat, a \in Nat : n = Len(msgs) /\ a = Len(s)
  BY LengthOf
<1>2. PICK message : message = [k \in 1 .. n |-> msgs[k]]
  OBVIOUS
<1>3. message \in [1 .. n -> Messages] /\ \A k \in 1 .. n : message[k] = msgs[k]
  BY <1>1, <1>2
<1>4. PICK x : x = [count |-> n, whole |-> n, arrive |-> a, message |-> message,
                    end |-> end, start |-> start, text |-> w]
  OBVIOUS
<1>5. /\ x.count = n /\ x.whole = n /\ x.arrive = a /\ x.message = message
      /\ x.end = end /\ x.start = start /\ x.text = w
  BY <1>4
<1>6. /\ end \in [0 .. n -> Nat] /\ end[0] = 0
      /\ start \in [1 .. n + 1 -> Nat] /\ start[n + 1] = l
      /\ \A k \in 1 .. n + 1 : \/ start[k] = end[k-1]
                               \/ start[k] = end[k-1] + 1 /\ w[start[k]] = "\n"
      /\ \A k \in 1 .. n : MessageAt(w, start[k], message[k], end[k]) /\ end[k] <= a
  BY <1>1, <1>3 DEF Laid
<1>7. a <= start[n + 1] \/ Rejected(w, start[n + 1])
  BY <1>1, <1>6
<1>8. n <= n
  OBVIOUS
<1>9. Script(x)
  BY <1>3, <1>5, <1>6, <1>7, <1>8 DEF Script
<1>10. IsScript(s, x)
  BY <1>1, <1>3, <1>5, <1>9 DEF IsScript
<1> QED BY <1>10

(* A stream that breaks off in a message.                                  *)
LEMMA BrokenScript ==
  ASSUME NEW s \in Seq(Symbols), NEW msgs \in Seq(Messages), msgs = Printed(s),
         NEW w, \A i \in 1 .. Len(s) : w[i] = s[i],
         NEW start, NEW end, NEW l \in Nat, Laid(w, msgs, start, end, l), l <= Len(s),
         NEW m \in Messages, NEW e \in Nat, MessageAt(w, l, m, e), Len(s) < e
  PROVE  \E x : IsScript(s, x)
<1>1. PICK n \in Nat, a \in Nat : n = Len(msgs) /\ a = Len(s)
  BY LengthOf
<1>2. PICK c \in Nat : c = n + 1 /\ c \in 1 .. c /\ n <= c
  OBVIOUS
<1>3. \A k \in 1 .. c : k \in 1 .. n \/ k = c
  BY <1>2
<1>4. /\ end \in [0 .. n -> Nat] /\ end[0] = 0
      /\ start \in [1 .. c -> Nat] /\ start[c] = l
      /\ \A k \in 1 .. c : \/ start[k] = end[k-1]
                           \/ start[k] = end[k-1] + 1 /\ w[start[k]] = "\n"
      /\ \A k \in 1 .. n : MessageAt(w, start[k], msgs[k], end[k]) /\ end[k] <= l
  BY <1>1, <1>2 DEF Laid
<1>5. PICK message : message = [k \in 1 .. c |-> IF k = c THEN m ELSE msgs[k]]
  OBVIOUS
<1>6. /\ message \in [1 .. c -> Messages] /\ message[c] = m
      /\ \A k \in 1 .. n : message[k] = msgs[k]
  <2>1. \A k \in 1 .. n : k \in 1 .. c /\ k # c
    BY <1>2
  <2>2. message[c] = m
    BY <1>2, <1>5
  <2>3. \A k \in 1 .. n : message[k] = msgs[k] /\ msgs[k] \in Messages
    BY <1>1, <1>5, <2>1
  <2>4. \A k \in 1 .. c : message[k] \in Messages
    BY <1>3, <2>2, <2>3
  <2>5. message = [k \in 1 .. c |-> message[k]]
    BY <1>5
  <2> QED BY <2>2, <2>3, <2>4, <2>5
<1>7. PICK stop : stop = [k \in 0 .. c |-> IF k = c THEN e ELSE end[k]]
  OBVIOUS
<1>8. /\ stop \in [0 .. c -> Nat] /\ stop[c] = e
      /\ \A k \in 0 .. n : stop[k] = end[k]
  <2>1. \A k \in 0 .. n : k \in 0 .. c /\ k # c
    BY <1>2
  <2>2. c \in 0 .. c /\ \A k \in 0 .. c : k \in 0 .. n \/ k = c
    BY <1>2
  <2>3. stop[c] = e
    BY <1>7, <2>2
  <2>4. \A k \in 0 .. n : stop[k] = end[k] /\ end[k] \in Nat
    BY <1>4, <1>7, <2>1
  <2>5. \A k \in 0 .. c : stop[k] \in Nat
    BY <2>2, <2>3, <2>4
  <2>6. stop = [k \in 0 .. c |-> stop[k]]
    BY <1>7
  <2> QED BY <2>3, <2>4, <2>5, <2>6
<1>9. PICK from : from = [k \in 1 .. c + 1 |-> IF k = c + 1 THEN e ELSE start[k]]
  OBVIOUS
<1>10. /\ from \in [1 .. c + 1 -> Nat] /\ from[c + 1] = e
       /\ \A k \in 1 .. c : from[k] = start[k]
  <2>1. \A k \in 1 .. c : k \in 1 .. c + 1 /\ k # c + 1
    BY <1>2
  <2>2. c + 1 \in 1 .. c + 1 /\ \A k \in 1 .. c + 1 : k \in 1 .. c \/ k = c + 1
    BY <1>2
  <2>3. from[c + 1] = e
    BY <1>9, <2>2
  <2>4. \A k \in 1 .. c : from[k] = start[k] /\ start[k] \in Nat
    BY <1>4, <1>9, <2>1
  <2>5. \A k \in 1 .. c + 1 : from[k] \in Nat
    BY <2>2, <2>3, <2>4
  <2>6. from = [k \in 1 .. c + 1 |-> from[k]]
    BY <1>9
  <2> QED BY <2>3, <2>4, <2>5, <2>6
<1>11. ASSUME NEW k \in 1 .. c + 1
       PROVE  \/ from[k] = stop[k-1]
              \/ from[k] = stop[k-1] + 1 /\ w[from[k]] = "\n"
  <2>1. CASE k \in 1 .. c
    <3>1. k - 1 \in 0 .. n
      BY <1>2, <2>1
    <3>2. from[k] = start[k] /\ stop[k-1] = end[k-1]
      BY <1>8, <1>10, <2>1, <3>1
    <3> QED BY <1>4, <2>1, <3>2
  <2>2. CASE k \notin 1 .. c
    <3>1. k = c + 1 /\ k - 1 = c
      BY <2>2
    <3> QED BY <1>8, <1>10, <3>1
  <2> QED BY <2>1, <2>2
<1>12. ASSUME NEW k \in 1 .. c PROVE MessageAt(w, from[k], message[k], stop[k])
  <2>1. CASE k = c
    BY <1>4, <1>6, <1>8, <1>10, <2>1
  <2>2. CASE k \in 1 .. n
    <3>1. k \in 0 .. n
      BY <2>2
    <3> QED BY <1>4, <1>6, <1>8, <1>10, <2>2, <3>1
  <2> QED BY <1>3, <2>1, <2>2
<1>13. ASSUME NEW k \in 1 .. n PROVE stop[k] <= a
  <2>1. k \in 0 .. n
    OBVIOUS
  <2>2. stop[k] = end[k] /\ end[k] \in Nat /\ end[k] <= l
    BY <1>4, <1>8, <2>1
  <2>3. l <= a
    BY <1>1
  <2> QED BY <2>2, <2>3
<1>14. PICK x : x = [count |-> c, whole |-> n, arrive |-> a, message |-> message,
                     end |-> stop, start |-> from, text |-> w]
  OBVIOUS
<1>15. /\ x.count = c /\ x.whole = n /\ x.arrive = a /\ x.message = message
       /\ x.end = stop /\ x.start = from /\ x.text = w
  BY <1>14
<1>16. stop[0] = 0
  <2>1. 0 \in 0 .. n
    OBVIOUS
  <2> QED BY <1>4, <1>8, <2>1
<1>17. a < stop[c]
  BY <1>1, <1>8
<1>18. Script(x)
  BY <1>2, <1>6, <1>8, <1>10, <1>11, <1>12, <1>13, <1>15, <1>16, <1>17 DEF Script
<1>19. IsScript(s, x)
  BY <1>1, <1>6, <1>15, <1>18 DEF IsScript
<1> QED BY <1>19

(* How the messages of a stream are printed.                               *)
PrintedAs(p, msgs) ==
  /\ p \in Seq(Symbols)
  /\ \A w : Occurs(w, 0, p) => \E start, end : Laid(w, msgs, start, end, Len(p))

LEMMA PrefixOccurs ==
  ASSUME NEW p \in Seq(Symbols), NEW t \in Seq(Symbols), IsPrefix(p, t)
  PROVE  Occurs(t, 0, p) /\ Len(p) <= Len(t)
<1>1. PICK n \in Nat : n = Len(p)
  BY LengthOf
<1>2. Len(p) <= Len(t) /\ \A i \in 1 .. n : t[i] = p[i]
  BY <1>1, PrefixParts
<1>3. \A i \in 1 .. n : 0 + i = i
  OBVIOUS
<1> QED BY <1>1, <1>2, <1>3 DEF Occurs

(* The stream ends with a message, or is rejected after it.                *)
LEMMA CompleteStream ==
  ASSUME NEW s \in Seq(Symbols), NEW msgs \in Seq(Messages), msgs = Printed(s),
         NEW p, PrintedAs(p, msgs), IsPrefix(p, s), Len(s) <= Len(p) \/ Rejected(s, Len(p))
  PROVE  \E x : IsScript(s, x)
<1>1. p \in Seq(Symbols) /\ Occurs(s, 0, p) /\ Len(p) <= Len(s)
  BY PrefixOccurs DEF PrintedAs
<1>2. PICK l \in Nat, a \in Nat, n \in Nat : l = Len(p) /\ a = Len(s) /\ n = Len(msgs) /\ l <= a
  BY <1>1, LengthOf
<1>3. PICK start, end : Laid(s, msgs, start, end, l)
  BY <1>1, <1>2 DEF PrintedAs
<1>4. ASSUME NEW k \in 1 .. n PROVE end[k] <= a
  <2>1. end[k] \in Nat /\ end[k] <= l
    <3>1. k \in 0 .. n
      OBVIOUS
    <3> QED BY <1>2, <1>3, <3>1 DEF Laid
  <2> QED BY <1>2, <2>1
<1>5. a <= l \/ Rejected(s, l)
  BY <1>2
<1>6. \A i \in 1 .. Len(s) : s[i] = s[i]
  OBVIOUS
<1> QED BY <1>2, <1>3, <1>4, <1>5, <1>6, WholeScript

(* The stream breaks off before the line feed of the last message.         *)
LEMMA UnendedStream ==
  ASSUME NEW s \in Seq(Symbols), NEW msgs \in Seq(Messages), msgs = Printed(s),
         NEW p, PrintedAs(p, msgs), p = Append(s, "\n")
  PROVE  \E x : IsScript(s, x)
<1>1. PICK a \in Nat, n \in Nat, l \in Nat : a = Len(s) /\ n = Len(msgs) /\ l = a + 1
  BY LengthOf
<1>2. "\n" \in Symbols
  BY WordsAssumption DEF Symbols
<1>3. Len(p) = l /\ (\A i \in 1 .. a : p[i] = s[i]) /\ p[l] = "\n"
  BY <1>1, <1>2, AppendProperties
<1>4. Occurs(p, 0, p)
  <2>1. \A i \in 1 .. l : 0 + i = i
    OBVIOUS
  <2> QED BY <1>3, <2>1 DEF Occurs
<1>5. PICK start, end : Laid(p, msgs, start, end, l)
  BY <1>3, <1>4 DEF PrintedAs
<1>6. ASSUME NEW k \in 1 .. n PROVE end[k] <= a
  <2>1. /\ end[k] \in Nat /\ end[k] <= l /\ start[k] \in Nat /\ msgs[k] \in Messages
        /\ MessageAt(p, start[k], msgs[k], end[k])
    <3>1. k \in 0 .. n /\ k \in 1 .. n + 1
      OBVIOUS
    <3> QED BY <1>1, <1>5, <3>1 DEF Laid
  <2>2. p[end[k]] = ">"
    <3>1. PICK b \in Nat, m \in Messages, e \in Nat :
            b = start[k] /\ m = msgs[k] /\ e = end[k] /\ MessageAt(p, b, m, e)
      BY <2>1, Zenon
    <3>2. p[e] = ">"
      <4>1. PICK w : w = p
        OBVIOUS
      <4>2. MessageAt(w, b, m, e)
        BY <3>1, <4>1
      <4>3. w[e] = ">"
        BY <4>2, MessageShape
      <4> QED BY <4>1, <4>3, Zenon
    <3> QED BY <3>1, <3>2, Zenon
  <2>3. end[k] # l
    BY <1>3, <2>2
  <2> QED BY <1>1, <2>1, <2>3
<1>7. a <= l
  BY <1>1
<1> QED BY <1>1, <1>3, <1>5, <1>6, <1>7, WholeScript

(* The stream breaks off in the next message.                              *)
LEMMA BrokenStream ==
  ASSUME NEW s \in Seq(Symbols), NEW msgs \in Seq(Messages), msgs = Printed(s),
         NEW p, PrintedAs(p, msgs), IsPrefix(p, s),
         NEW m \in Messages, NEW form, form \in Seq(Symbols), Piece(form, m, 0),
         IsStrictPrefix(SubSeq(s, Len(p) + 1, Len(s)), form)
  PROVE  \E x : IsScript(s, x)
<1>1. p \in Seq(Symbols) /\ Occurs(s, 0, p) /\ Len(p) <= Len(s)
  BY PrefixOccurs DEF PrintedAs
<1>2. PICK l \in Nat, a \in Nat, f \in Nat, d \in Nat :
        l = Len(p) /\ a = Len(s) /\ f = Len(form) /\ l + d = a
  <2>1. PICK l \in Nat, a \in Nat, f \in Nat : l = Len(p) /\ a = Len(s) /\ f = Len(form) /\ l <= a
    BY <1>1, LengthOf
  <2>2. PICK d \in Nat : l + d = a
    <3>1. a - l \in Nat /\ l + (a - l) = a
      BY <2>1
    <3> QED BY <3>1
  <2> QED BY <2>1, <2>2
<1>3. PICK rest \in Seq(Symbols) : /\ rest = SubSeq(s, Len(p) + 1, Len(s))
                                   /\ Len(rest) = d /\ \A i \in 1 .. d : rest[i] = s[l+i]
  <2>1. /\ SubSeq(s, l + 1, Len(s)) \in Seq(Symbols) /\ Len(SubSeq(s, l + 1, Len(s))) = d
        /\ \A i \in 1 .. d : SubSeq(s, l + 1, Len(s))[i] = s[l+i]
    BY <1>2, RestParts
  <2> QED BY <1>2, <2>1
<1>4. IsPrefix(rest, form) /\ rest # form
  BY <1>3 DEF IsStrictPrefix
<1>5. Len(rest) <= Len(form) /\ \A i \in 1 .. Len(rest) : form[i] = rest[i]
  BY <1>4, PrefixParts
<1>6. d < f
  <2>1. d <= f /\ d # f
    <3>1. d <= f
      BY <1>2, <1>3, <1>5
    <3>2. ASSUME d = f PROVE FALSE
      <4>1. Len(rest) = Len(form) /\ \A i \in 1 .. Len(rest) : rest[i] = form[i]
        BY <1>2, <1>3, <1>5, <3>2
      <4> QED BY <1>4, <4>1, SeqEqual
    <3> QED BY <3>1, <3>2
  <2> QED BY <2>1
<1>7. PICK t \in Seq(Symbols) : t = p \o form
  BY <1>1, JoinExists
<1>8. /\ Len(t) = l + f
      /\ \A i \in 1 .. l : t[i] = p[i]
      /\ \A i \in 1 .. f : t[l+i] = form[i]
  BY <1>1, <1>2, <1>7, ConcatAt
<1>9. ASSUME NEW i \in 1 .. a PROVE t[i] = s[i]
  <2>1. CASE i \in 1 .. l
    <3>1. 0 + i = i
      OBVIOUS
    <3> QED BY <1>1, <1>2, <1>8, <2>1, <3>1 DEF Occurs
  <2>2. CASE i \notin 1 .. l
    <3>1. PICK j \in 1 .. d : i = l + j
      <4>1. i - l \in 1 .. d /\ i = l + (i - l)
        BY <1>2, <2>2
      <4> QED BY <4>1
    <3>2. j \in 1 .. f
      BY <1>6
    <3> QED BY <1>3, <1>5, <1>8, <3>1, <3>2
  <2> QED BY <2>1, <2>2
<1>10. Occurs(t, 0, p) /\ Occurs(t, l, form)
  <2>1. \A i \in 1 .. l : 0 + i = i
    OBVIOUS
  <2> QED BY <1>2, <1>8, <2>1 DEF Occurs
<1>11. PICK start, end : Laid(t, msgs, start, end, l)
  BY <1>2, <1>10 DEF PrintedAs
<1>12. PICK e \in Nat : MessageAt(t, l, m, e) /\ e = l + f
  <2>1. PICK e : MessageAt(t, l, m, e) /\ l + Len(form) = e + 0
    BY <1>10 DEF Piece
  <2>2. e \in Nat
    BY <2>1, MessageShape
  <2>3. l + f = e
    BY <1>2, <2>1, <2>2
  <2> QED BY <2>1, <2>2, <2>3
<1>13. l <= a /\ a < e
  BY <1>2, <1>6, <1>12
<1>14. l <= Len(s) /\ Len(s) < e /\ \A i \in 1 .. Len(s) : t[i] = s[i]
  BY <1>2, <1>9, <1>13
<1> QED BY <1>11, <1>12, <1>14, BrokenScript

LEMMA TagTyped ==
  ASSUME NEW v \in Symbols
  PROVE  /\ <<"<", v, ">">> \in Seq(Symbols) /\ Len(<<"<", v, ">">>) = 3
         /\ <<"<", v, ">">>[1] = "<" /\ <<"<", v, ">">>[2] = v /\ <<"<", v, ">">>[3] = ">"
<1>1. "<" \in Symbols /\ ">" \in Symbols
  BY DEF Symbols, Delimiters
<1>2. \A x \in Symbols, y \in Symbols, z \in Symbols : <<x, y, z>> \in Seq(Symbols)
  OBVIOUS
<1>3. \A x, y, z : /\ Len(<<x, y, z>>) = 3
                   /\ <<x, y, z>>[1] = x /\ <<x, y, z>>[2] = y /\ <<x, y, z>>[3] = z
  OBVIOUS
<1> QED BY <1>1, <1>2, <1>3, Zenon

LEMMA BegunStream ==
  ASSUME NEW s \in Seq(Symbols), NEW msgs \in Seq(Messages), msgs = Printed(s),
         NEW p, PrintedAs(p, msgs), Begins(s, p)
  PROVE  \E x : IsScript(s, x)
<1>1. CASE p = Append(s, "\n")
  BY <1>1, UnendedStream
<1>2. ASSUME IsPrefix(p, s), Ending(SubSeq(s, Len(p) + 1, Len(s)))
      PROVE  \E x : IsScript(s, x)
  <2>1. p \in Seq(Symbols) /\ Len(p) <= Len(s)
    BY <1>2, PrefixOccurs DEF PrintedAs
  <2>2. PICK l \in Nat, d \in Nat : l = Len(p) /\ l + d = Len(s)
    <3>1. PICK l \in Nat, a \in Nat : l = Len(p) /\ a = Len(s) /\ l <= a
      BY <2>1, LengthOf
    <3>2. a - l \in Nat /\ l + (a - l) = a
      BY <3>1
    <3> QED BY <3>1, <3>2
  <2>3. PICK rest \in Seq(Symbols) : /\ rest = SubSeq(s, Len(p) + 1, Len(s))
                                     /\ Len(rest) = d /\ \A i \in 1 .. d : rest[i] = s[l+i]
    <3>1. /\ SubSeq(s, l + 1, Len(s)) \in Seq(Symbols) /\ Len(SubSeq(s, l + 1, Len(s))) = d
          /\ \A i \in 1 .. d : SubSeq(s, l + 1, Len(s))[i] = s[l+i]
      BY <2>2, RestParts
    <3> QED BY <2>2, <3>1
  <2>4. CASE rest = <<>>
    <3>1. Len(<<>>) = 0
      OBVIOUS
    <3>2. d = 0
      BY <2>3, <2>4, <3>1
    <3>3. Len(s) <= Len(p)
      BY <2>2, <3>2
    <3> QED BY <1>2, <3>3, CompleteStream
  <2>5. ASSUME NEW m \in Messages, NEW form \in {Shown[m], Wire(m)}, IsStrictPrefix(rest, form)
        PROVE  \E x : IsScript(s, x)
    <3>1. form \in Seq(Symbols) /\ Piece(form, m, 0)
      BY ShownPiece, WirePiece
    <3> QED BY <1>2, <2>3, <2>5, <3>1, BrokenStream
  <2>6. ASSUME NEW v \in Malformed, IsPrefix(<<"<", v, ">">>, rest)
        PROVE  \E x : IsScript(s, x)
    <3>0. PICK tag : tag = <<"<", v, ">">>
      OBVIOUS
    <3>1. tag \in Seq(Symbols) /\ Len(tag) = 3 /\ tag[1] = "<" /\ tag[2] = v /\ tag[3] = ">"
      <4>1. v \in Symbols
        BY DEF Symbols
      <4> QED BY <3>0, <4>1, TagTyped, Zenon
    <3>2. 3 <= d /\ \A i \in 1 .. 3 : rest[i] = tag[i]
      <4>1. IsPrefix(tag, rest)
        BY <2>6, <3>0
      <4>2. tag \in Seq(Symbols)
        BY <3>1
      <4>3. Len(tag) <= Len(rest) /\ \A i \in 1 .. Len(tag) : rest[i] = tag[i]
        BY <4>1, <4>2, PrefixParts
      <4> QED BY <2>3, <3>1, <4>3, Zenon
    <3>3. 1 \in 1 .. d /\ 2 \in 1 .. d /\ 3 \in 1 .. d
      BY <3>2
    <3>4. s[l+1] = "<" /\ s[l+2] = v /\ s[l+3] = ">"
      <4>1. 1 \in 1 .. 3 /\ 2 \in 1 .. 3 /\ 3 \in 1 .. 3
        OBVIOUS
      <4> QED BY <2>3, <3>1, <3>2, <3>3, <4>1
    <3>5. Rejected(s, Len(p))
      BY <2>2, <3>4 DEF Rejected
    <3> QED BY <1>2, <3>5, CompleteStream
  <2>7. \/ rest = <<>>
        \/ \E m \in Messages : \E form \in {Shown[m], Wire(m)} : IsStrictPrefix(rest, form)
        \/ \E v \in Malformed : IsPrefix(<<"<", v, ">">>, rest)
    BY <1>2, <2>3 DEF Ending
  <2> QED BY <2>4, <2>5, <2>6, <2>7
<1> QED BY <1>1, <1>2 DEF Begins

LEMMA StreamsAreScripts ==
  ASSUME NEW c \in Scenarios, NEW s \in c.inputs
  PROVE  s \in Seq(Symbols) /\ IsScript(s, ScriptOf(s))
<1>1. /\ s \in Seq(Symbols) /\ Printed(s) \in Seq(Messages)
      /\ Begins(s, FromClient(Printed(s))) \/ Begins(s, FromServer(Printed(s)))
  BY StreamsAssumption
<1>2. PrintedAs(FromClient(Printed(s)), Printed(s)) /\ PrintedAs(FromServer(Printed(s)), Printed(s))
  BY <1>1, ClientLaid, ServerLaid DEF PrintedAs
<1>3. \E x : IsScript(s, x)
  BY <1>1, <1>2, BegunStream
<1> QED BY <1>1, <1>3 DEF ScriptOf

-----------------------------------------------------------------------------
LEMMA InitAlone == MessagesInit => AloneInv
<1> SUFFICES ASSUME MessagesInit PROVE AloneInv
  OBVIOUS
<1>1. /\ HeightInv /\ sent = socket /\ last_char = ""
      /\ where = [r \in Readers |-> "idle"] /\ result = [r \in Readers |-> <<>>]
  BY InitHeight DEF MessagesInit, Init
<1>2. PICK c \in Scenarios : socket \in [Readers -> c.inputs]
  BY DEF MessagesInit, Init
<1>3. Active = {}
  BY <1>1 DEF Active
<1>4. ASSUME NEW r \in Readers PROVE IsScript(sent[r], ScriptOf(sent[r])) /\ Reader(r)
  <2>1. PICK s \in c.inputs : s = socket[r] /\ s = sent[r]
    BY <1>1, <1>2
  <2>2. PICK x : x = ScriptOf(s) /\ IsScript(s, x) /\ s \in Seq(Symbols)
    BY <2>1, StreamsAreScripts
  <2>3. /\ x.end[0] = 0 /\ x.whole \in Nat /\ x.arrive = Len(s)
        /\ \A i \in 1 .. Len(s) : x.text[i] = s[i]
    BY <2>2 DEF IsScript, Script
  <2>4. PICK k \in Nat \ {0} : k = 1 /\ k - 1 = 0 /\ k <= x.whole + 1
    BY <2>3
  <2>5. Arriving(x, 0, s)
    <3>1. PICK n \in Nat : n = Len(s) /\ 0 + n = n
      BY <2>2, LengthOf
    <3>2. \A i \in 1 .. n : 0 + i = i
      OBVIOUS
    <3> QED BY <2>2, <2>3, <3>1, <3>2 DEF Arriving
  <2>6. Idle(x, k, r)
    BY <1>1, <2>1, <2>3, <2>4, <2>5 DEF Idle
  <2>7. Gotten(x, k, r)
    <3>1. result[r] = <<>> /\ <<>> \in Seq(Messages) /\ Len(<<>>) = 0
      BY <1>1, EmptySeq
    <3>2. 0 + 1 = k /\ \A i \in 1 .. 0 : FALSE
      BY <2>4
    <3> QED BY <3>1, <3>2 DEF Gotten
  <2>8. ReaderAt(x, k, r)
    BY <2>4, <2>6, <2>7 DEF ReaderAt
  <2> QED BY <2>1, <2>2, <2>8 DEF Reader
<1>5. Alone
  BY <1>3 DEF Alone
<1> QED BY <1>1, <1>4, <1>5 DEF AloneInv

(* A step of any thread, or of none.                                       *)
LEMMA AloneIsKept == AloneInv /\ [MessagesNext]_<<vars, sent>> => AloneInv'
<1>1. ASSUME AloneInv, MessagesNext PROVE AloneInv'
  BY <1>1, StepKeepsAlone DEF MessagesNext, Next
<1>2. ASSUME AloneInv, UNCHANGED <<vars, sent>> PROVE AloneInv'
  BY <1>2, StutterKeepsAlone
<1> QED BY <1>1, <1>2

(* A thread that reads alone gets back, in order and unchanged, the        *)
(* messages that were printed on its socket and nothing else, however the  *)
(* characters are cut into reads and wherever the stream breaks off:       *)
(* parse_node and next_token undo XMLParent::print (strxml.cc:158-264).    *)
THEOREM ReadingUndoesPrinting == MessagesSpec => []RoundTripAlone
<1>1. AloneInv => RoundTripAlone
  BY AloneReads DEF RoundTripAlone, RoundTrip
<1> QED BY <1>1, InitAlone, AloneIsKept, PTL DEF MessagesSpec

(* No complete message is lost: when a thread that reads alone has met the *)
(* end of its stream or a format error, all of them have been returned; and *)
(* whoever else reads, the stack of open nodes is as high as parse_node    *)
(* counts (strxml.cc:158-264).                                             *)
THEOREM NoMessageIsLost == MessagesSpec => []NothingLost
<1>1. AloneInv => AllArrive
  BY AloneReads DEF AllArrive
<1>2. AloneInv => DepthIsHeight
  BY DEF AloneInv, HeightInv, Height, DepthIsHeight
<1>3. AloneInv => NothingLost
  BY <1>1, <1>2 DEF NothingLost
<1> QED BY <1>3, InitAlone, AloneIsKept, PTL DEF MessagesSpec
=============================================================================
