--------------------------- MODULE OdometerProofs ---------------------------
(***************************************************************************)
(* The loop of ActionSchema::instantiations finds the actions of all and   *)
(* only the tuples of arguments that the precondition allows, whatever the *)
(* lists of objects and the precondition are.                              *)
(*                                                                         *)
(* The invariant adds to InStep what has been decided: the tuples that are *)
(* before the current one in the order of the odometer, on the parameters  *)
(* bound so far.  A turn skips the tuples that agree with the current one  *)
(* on those parameters, which are just the ones the precondition was       *)
(* tested for; the parameters after the one that is turned were at the end *)
(* of their lists, so no other tuple lies between.                         *)
(***************************************************************************)
EXTENDS Odometer, TLAPS, WellFoundedInduction

(* The tuple q comes before p, on parameters up to k. *)
Before(q, p, k) ==
  \E j \in 1 .. k : (\A m \in 1 .. j - 1 : q[m] = p[m]) /\ q[j] < p[j]

Agree(q, p, k) == \A m \in 1 .. k : q[m] = p[m]

Called ==
  stage = "called" =>
    /\ i = 1 /\ next_arg = [k \in 1 .. N |-> 1] /\ args = NoArgs
    /\ preconds = <<>> /\ actions = {}

Decided ==
  stage = "looping" =>
    /\ \A k \in i + 1 .. N : next_arg[k] = 1
    /\ \A k \in 1 .. i - 1 : ~Contradiction(schema, Word(schema, next_arg, k))
    /\ actions = {ActionFor(schema, q) :
                    q \in {p \in Selected(schema) : Before(p, next_arg, i)}}

IInv ==
  /\ schema \in Schemata
  /\ stage \in {"called", "looping", "returned"}
  /\ Called /\ InStep /\ Decided /\ AllAndOnly

-----------------------------------------------------------------------------
LEMMA LeastNumber ==
  ASSUME NEW T, T \subseteq Nat, T # {}
  PROVE  \E x \in T : \A y \in T : x <= y
<1>1. PICK x \in T : \A y \in T : ~(<<y, x>> \in OpToRel(<, Nat))
  BY NatLessThanWellFounded, WFMin, Zenon
<1>2. \A y \in T : ~(y < x)
  BY <1>1 DEF OpToRel
<1>3. QED
  BY <1>2

(* The lists of a schema. *)
LEMMA ListFacts ==
  ASSUME OdometerAssumption, NEW s \in Schemata
  PROVE  /\ Arguments(s) \in Seq(Seq(Objects))
         /\ Len(Arguments(s)) \in Nat
         /\ \A k \in 1 .. Len(Arguments(s)) :
              /\ Arguments(s)[k] \in Seq(Objects)
              /\ Len(Arguments(s)[k]) \in Nat
BY DEF OdometerAssumption

LEMMA PositionFacts ==
  ASSUME OdometerAssumption, NEW s \in Schemata, NEW q \in Positions(s),
         NEW k \in 1 .. Len(Arguments(s))
  PROVE  /\ q[k] \in 1 .. Len(Arguments(s)[k])
         /\ q[k] \in Nat
         /\ Arguments(s)[k][q[k]] \in Objects
<1>1. q[k] \in 1 .. Len(Arguments(s)[k])
  BY DEF Positions
<1>2. Arguments(s)[k] \in Seq(Objects)
  BY ListFacts
<1>3. QED
  BY <1>1, <1>2

LEMMA PositionsIntro ==
  ASSUME OdometerAssumption, NEW s \in Schemata, NEW q,
         q = [k \in 1 .. Len(Arguments(s)) |-> q[k]],
         \A k \in 1 .. Len(Arguments(s)) : q[k] \in 1 .. Len(Arguments(s)[k])
  PROVE  q \in Positions(s)
<1>1. \A k \in 1 .. Len(Arguments(s)) : q[k] \in Places(s)
  BY DEF Places
<1>2. q \in [1 .. Len(Arguments(s)) -> Places(s)]
  BY <1>1
<1>3. QED
  BY <1>2 DEF Positions

LEMMA WordIsSequence ==
  ASSUME OdometerAssumption, NEW s \in Schemata, NEW q \in Positions(s),
         NEW k \in 0 .. Len(Arguments(s))
  PROVE  Word(s, q, k) \in Seq(Objects) /\ Len(Word(s, q, k)) = k
<1>1. Len(Arguments(s)) \in Nat
  BY ListFacts
<1>2. \A m \in 1 .. k : Arguments(s)[m][q[m]] \in Objects
  BY <1>1, PositionFacts
<1>3. k \in Nat
  BY <1>1
<1>4. QED
  BY <1>2, <1>3 DEF Word

(* One more object. *)
LEMMA WordAppend ==
  ASSUME OdometerAssumption, NEW s \in Schemata, NEW q \in Positions(s),
         NEW k \in 1 .. Len(Arguments(s))
  PROVE  Append(Word(s, q, k - 1), Arguments(s)[k][q[k]]) = Word(s, q, k)
<1> DEFINE w == Word(s, q, k - 1)
           v == Word(s, q, k)
           o == Arguments(s)[k][q[k]]
<1>1. Len(Arguments(s)) \in Nat
  BY ListFacts
<1>2. k - 1 \in 0 .. Len(Arguments(s)) /\ k \in 0 .. Len(Arguments(s)) /\ k \in Nat
  BY <1>1
<1>3. w \in Seq(Objects) /\ Len(w) = k - 1 /\ v \in Seq(Objects) /\ Len(v) = k
  BY <1>2, WordIsSequence
<1>4. o \in Objects
  BY PositionFacts
<1>5. Append(w, o) \in Seq(Objects) /\ Len(Append(w, o)) = k
  BY <1>2, <1>3, <1>4
<1>6. \A m \in 1 .. k : Append(w, o)[m] = v[m]
  <2>1. TAKE m \in 1 .. k
  <2>2. CASE m = k
    <3>1. Append(w, o)[k] = o
      BY <1>2, <1>3, <1>4
    <3>2. v[k] = o
      BY <1>2 DEF Word
    <3>3. QED
      BY <2>2, <3>1, <3>2
  <2>3. CASE m # k
    <3>1. m \in 1 .. k - 1
      BY <1>2, <2>3
    <3>2. Append(w, o)[m] = w[m]
      BY <1>2, <1>3, <1>4, <3>1
    <3>3. w[m] = Arguments(s)[m][q[m]]
      BY <3>1 DEF Word
    <3>4. v[m] = Arguments(s)[m][q[m]]
      BY DEF Word
    <3>5. QED
      BY <3>2, <3>3, <3>4
  <2>4. QED
    BY <2>2, <2>3
<1> HIDE DEF w, v, o
<1>7. Append(w, o) = v
  BY <1>2, <1>3, <1>5, <1>6
<1>8. QED
  BY <1>7 DEF w, v, o

LEMMA WordAgree ==
  ASSUME NEW s, NEW q, NEW p, NEW k, Agree(q, p, k)
  PROVE  Word(s, q, k) = Word(s, p, k)
BY DEF Agree, Word

(* A tuple no parameter of which up to k can come after that of p is before
   p or agrees with it. *)
LEMMA BeforeOrAgree ==
  ASSUME OdometerAssumption, NEW s \in Schemata, NEW q \in Positions(s), NEW p \in Positions(s),
         NEW k \in 0 .. Len(Arguments(s)),
         NEW j \in 0 .. k, Agree(q, p, j),
         \A m \in j + 1 .. k : q[m] <= p[m]
  PROVE  Agree(q, p, k) \/ Before(q, p, k)
<1>0. Len(Arguments(s)) \in Nat /\ k \in Nat /\ j \in Nat
  BY ListFacts
<1>1. \A m \in 1 .. k : q[m] \in Nat /\ p[m] \in Nat
  BY <1>0, PositionFacts
<1>2. SUFFICES ASSUME ~Agree(q, p, k) PROVE Before(q, p, k)
  OBVIOUS
<1> DEFINE T == {m \in 1 .. k : q[m] # p[m]}
<1>3. T # {} /\ T \subseteq Nat
  BY <1>0, <1>2 DEF Agree
<1>4. PICK x \in T : \A y \in T : x <= y
  BY <1>3, LeastNumber
<1>5. x \in 1 .. k /\ q[x] # p[x]
  BY <1>4
<1>6. \A m \in 1 .. x - 1 : q[m] = p[m]
  BY <1>0, <1>4, <1>5
<1>7. x \in j + 1 .. k
  BY <1>0, <1>5 DEF Agree
<1>8. q[x] < p[x]
  BY <1>1, <1>5, <1>7
<1>9. QED
  BY <1>5, <1>6, <1>8 DEF Before

-----------------------------------------------------------------------------
(* At the head of the loop. *)
LEMMA HeadFacts ==
  ASSUME OdometerAssumption, IInv, stage = "looping"
  PROVE  /\ schema \in Schemata /\ N \in Nat /\ i \in 1 .. N
         /\ N = Len(Arguments(schema))
         /\ next_arg \in Positions(schema)
         /\ Precond = Word(schema, next_arg, i)
         /\ Bindings = Word(schema, next_arg, i)
<1>1. /\ schema \in Schemata /\ N \in Nat /\ i \in 1 .. N
      /\ next_arg \in Positions(schema)
  BY ListFacts DEF IInv, InStep, N, arguments
<1>2. preconds = [k \in 1 .. i |-> Word(schema, next_arg, k - 1)]
  BY DEF IInv, InStep
<1>3. Len(preconds) = i
  BY <1>1, <1>2
<1>4. preconds[Len(preconds)] = Word(schema, next_arg, i - 1)
  BY <1>1, <1>2, <1>3
<1>5. Precond = Word(schema, next_arg, i)
  BY <1>1, <1>4, WordAppend DEF Precond, Object, arguments, N
<1>6. args = [m \in 1 .. i - 1 |-> Arguments(schema)[m][next_arg[m]]]
  BY DEF IInv, InStep, Word
<1>7. DOMAIN args \cup {i} = 1 .. i
  BY <1>1, <1>6
<1>8. Bindings = [k \in 1 .. i |-> IF k \in 1 .. i - 1 THEN args[k] ELSE Object]
  BY <1>6, <1>7 DEF Bindings
<1>9. \A k \in 1 .. i :
        (IF k \in 1 .. i - 1 THEN args[k] ELSE Object)
          = Arguments(schema)[k][next_arg[k]]
  BY <1>1, <1>6 DEF Object, arguments
<1>10. Bindings = Word(schema, next_arg, i)
  BY <1>8, <1>9 DEF Word
<1>11. QED
  BY <1>1, <1>5, <1>10 DEF N, arguments

(* What is found when the precondition is settled are the actions of the
   tuples that agree with the current one as far as it is bound. *)
LEMMA FoundFacts ==
  ASSUME OdometerAssumption, IInv, stage = "looping", Settled
  PROVE  Found = {ActionFor(schema, q) :
                    q \in {p \in Selected(schema) :
                            Before(p, next_arg, i) \/ Agree(p, next_arg, i)}}
<1>1. /\ schema \in Schemata /\ N \in Nat /\ i \in 1 .. N
      /\ N = Len(Arguments(schema))
      /\ next_arg \in Positions(schema)
      /\ Precond = Word(schema, next_arg, i)
      /\ Bindings = Word(schema, next_arg, i)
  BY HeadFacts
<1>2. actions = {ActionFor(schema, q) :
                   q \in {p \in Selected(schema) : Before(p, next_arg, i)}}
  BY DEF IInv, Decided
<1>3. CASE Contradiction(schema, Precond)
  <2>1. \A p \in Selected(schema) : ~Agree(p, next_arg, i)
    <3>1. SUFFICES ASSUME NEW p \in Selected(schema), Agree(p, next_arg, i)
                   PROVE  FALSE
      OBVIOUS
    <3>2. Word(schema, p, i) = Word(schema, next_arg, i)
      BY <3>1, WordAgree
    <3>3. ~Contradiction(schema, Word(schema, p, i))
      BY <1>1 DEF Selected
    <3>4. QED
      BY <1>1, <1>3, <3>2, <3>3
  <2>2. Found = actions
    BY <1>3 DEF Found
  <2>3. QED
    BY <1>2, <2>1, <2>2
<1>4. CASE ~Contradiction(schema, Precond)
  <2>1. i = N
    BY <1>4 DEF Settled
  <2>2. next_arg \in Selected(schema)
    <3>1. \A k \in 1 .. i - 1 : ~Contradiction(schema, Word(schema, next_arg, k))
      BY DEF IInv, Decided
    <3>2. \A k \in 1 .. N : ~Contradiction(schema, Word(schema, next_arg, k))
      BY <1>1, <1>4, <2>1, <3>1
    <3>3. N # 0
      BY <1>1
    <3>4. QED
      BY <1>1, <3>2, <3>3 DEF Selected
  <2>3. \A p \in Selected(schema) : Agree(p, next_arg, i) <=> p = next_arg
    <3>1. TAKE p \in Selected(schema)
    <3>2. p \in [1 .. N -> Places(schema)] /\ next_arg \in [1 .. N -> Places(schema)]
      BY <1>1 DEF Selected, Positions
    <3>3. Agree(p, next_arg, i) => \A k \in 1 .. N : p[k] = next_arg[k]
      BY <2>1 DEF Agree
    <3>4. (\A k \in 1 .. N : p[k] = next_arg[k]) => p = next_arg
      <4>1. /\ p = [k \in 1 .. N |-> p[k]]
            /\ next_arg = [k \in 1 .. N |-> next_arg[k]]
        BY <3>2
      <4>2. (\A k \in 1 .. N : p[k] = next_arg[k])
              => [k \in 1 .. N |-> p[k]] = [k \in 1 .. N |-> next_arg[k]]
        OBVIOUS
      <4>3. QED
        BY <4>1, <4>2, Zenon
    <3>5. p = next_arg => Agree(p, next_arg, i)
      BY DEF Agree
    <3>6. QED
      BY <3>3, <3>4, <3>5
  <2>4. ActionFor(schema, next_arg) = Action(Bindings, Precond)
    BY <1>1, <2>1 DEF ActionFor
  <2>5. Found = actions \cup {ActionFor(schema, next_arg)}
    BY <1>4, <2>4 DEF Found
  <2>6. QED
    BY <1>2, <2>2, <2>3, <2>5
<1>5. QED
  BY <1>3, <1>4

(* The odometer skips nothing when it turns: the tuples before the new one
   are those before the old one and those that agree with it. *)
LEMMA TurnFacts ==
  ASSUME OdometerAssumption, IInv, stage = "looping", NEW j \in 1 .. i, Room(j),
         \A k \in j + 1 .. i : ~Room(k)
  PROVE  /\ Turned(j) \in Positions(schema)
         /\ \A k \in 1 .. j - 1 : Turned(j)[k] = next_arg[k]
         /\ \A k \in j + 1 .. N : Turned(j)[k] = 1
         /\ \A q \in Positions(schema) :
              Before(q, Turned(j), j)
                <=> Before(q, next_arg, i) \/ Agree(q, next_arg, i)
<1>1. /\ schema \in Schemata /\ N \in Nat /\ i \in 1 .. N /\ j \in 1 .. N
      /\ N = Len(Arguments(schema))
      /\ next_arg \in Positions(schema)
  BY HeadFacts
<1>2. \A k \in 1 .. N : /\ next_arg[k] \in 1 .. Len(Arguments(schema)[k])
                        /\ Len(Arguments(schema)[k]) \in Nat
  BY <1>1, PositionFacts, ListFacts
<1>3. \A k \in i + 1 .. N : next_arg[k] = 1
  BY DEF IInv, Decided
<1> DEFINE r == Turned(j)
<1>40. r = [k \in 1 .. N |-> r[k]]
  BY DEF Turned
<1>4. /\ \A k \in 1 .. j - 1 : r[k] = next_arg[k]
      /\ r[j] = next_arg[j] + 1
      /\ \A k \in j + 1 .. N : r[k] = 1
  <2>2. \A k \in 1 .. j - 1 : r[k] = next_arg[k]
    BY <1>1 DEF Turned
  <2>3. r[j] = next_arg[j] + 1
    BY <1>1 DEF Turned
  <2>4. \A k \in j + 1 .. N : r[k] = 1
    BY <1>1, <1>3 DEF Turned
  <2>5. QED
    BY <2>2, <2>3, <2>4
<1> HIDE DEF r
<1>5. \A k \in 1 .. N : r[k] \in 1 .. Len(Arguments(schema)[k])
  <2>1. TAKE k \in 1 .. N
  <2>2. CASE k < j
    BY <1>1, <1>2, <1>4, <2>2
  <2>3. CASE k = j
    BY <1>1, <1>2, <1>4, <2>3 DEF Room, arguments
  <2>4. CASE k > j
    BY <1>1, <1>2, <1>4, <2>4
  <2>5. QED
    BY <1>1, <2>2, <2>3, <2>4
<1>6. r \in Positions(schema)
  BY <1>1, <1>40, <1>5, PositionsIntro
<1>7. ASSUME NEW q \in Positions(schema)
      PROVE  Before(q, r, j)
               <=> Before(q, next_arg, i) \/ Agree(q, next_arg, i)
  <2>0. \A k \in 1 .. N : /\ q[k] \in 1 .. Len(Arguments(schema)[k])
                          /\ q[k] \in Nat /\ next_arg[k] \in Nat
    BY <1>1, PositionFacts
  <2>1. ASSUME Before(q, r, j)
        PROVE  Before(q, next_arg, i) \/ Agree(q, next_arg, i)
    <3>1. PICK x \in 1 .. j : (\A m \in 1 .. x - 1 : q[m] = r[m]) /\ q[x] < r[x]
      BY <2>1 DEF Before
    <3>2. \A m \in 1 .. x - 1 : q[m] = next_arg[m]
      BY <1>1, <1>4, <3>1
    <3>3. CASE q[x] < next_arg[x]
      BY <1>1, <3>2, <3>3 DEF Before
    <3>4. CASE ~(q[x] < next_arg[x])
      <4>1. x = j
        BY <1>1, <1>4, <3>1, <3>4
      <4>2. q[j] = next_arg[j]
        BY <1>1, <1>4, <2>0, <3>1, <3>4, <4>1
      <4>3. Agree(q, next_arg, j)
        BY <1>1, <3>2, <4>1, <4>2 DEF Agree
      <4>4. \A m \in j + 1 .. i : q[m] <= next_arg[m]
        BY <1>1, <1>2, <2>0 DEF Room, arguments
      <4>5. i \in 0 .. Len(Arguments(schema)) /\ j \in 0 .. i
        BY <1>1
      <4>6. QED
        BY <1>1, <4>3, <4>4, <4>5, BeforeOrAgree
    <3>5. QED
      BY <3>3, <3>4
  <2>2. ASSUME Before(q, next_arg, i)
        PROVE  Before(q, r, j)
    <3>1. PICK x \in 1 .. i : /\ \A m \in 1 .. x - 1 : q[m] = next_arg[m]
                            /\ q[x] < next_arg[x]
      BY <2>2 DEF Before
    <3>2. CASE x < j
      <4>1. x \in 1 .. j /\ r[x] = next_arg[x]
        BY <1>1, <1>4, <3>2
      <4>2. \A m \in 1 .. x - 1 : q[m] = r[m]
        BY <1>1, <1>4, <3>1, <3>2
      <4>3. QED
        BY <3>1, <4>1, <4>2 DEF Before
    <3>3. CASE ~(x < j)
      <4>1. q[j] < r[j]
        BY <1>1, <1>4, <2>0, <3>1, <3>3
      <4>2. \A m \in 1 .. j - 1 : q[m] = r[m]
        BY <1>1, <1>4, <3>1, <3>3
      <4>3. j \in 1 .. j
        BY <1>1
      <4>4. QED
        BY <4>1, <4>2, <4>3 DEF Before
    <3>4. QED
      BY <3>2, <3>3
  <2>3. ASSUME Agree(q, next_arg, i)
        PROVE  Before(q, r, j)
    <3>1. \A m \in 1 .. j : q[m] = next_arg[m]
      BY <1>1, <2>3 DEF Agree
    <3>2. q[j] < r[j]
      BY <1>1, <1>4, <2>0, <3>1
    <3>3. \A m \in 1 .. j - 1 : q[m] = r[m]
      BY <1>1, <1>4, <3>1
    <3>4. j \in 1 .. j
      BY <1>1
    <3>5. QED
      BY <3>2, <3>3, <3>4 DEF Before
  <2>4. QED
    BY <2>1, <2>2, <2>3
<1>8. QED
  BY <1>4, <1>6, <1>7 DEF r

(* When no bound parameter has another object, no tuple is left. *)
LEMMA FinishFacts ==
  ASSUME OdometerAssumption, IInv, stage = "looping", \A k \in 1 .. i : ~Room(k)
  PROVE  \A q \in Positions(schema) :
           Before(q, next_arg, i) \/ Agree(q, next_arg, i)
<1>1. /\ schema \in Schemata /\ N \in Nat /\ i \in 1 .. N
      /\ N = Len(Arguments(schema))
      /\ next_arg \in Positions(schema)
  BY HeadFacts
<1>2. TAKE q \in Positions(schema)
<1>3. \A k \in 1 .. N : /\ q[k] \in 1 .. Len(Arguments(schema)[k])
                        /\ next_arg[k] \in 1 .. Len(Arguments(schema)[k])
                        /\ Len(Arguments(schema)[k]) \in Nat
  BY <1>1, PositionFacts, ListFacts
<1>4. \A m \in 0 + 1 .. i : q[m] <= next_arg[m]
  BY <1>1, <1>3 DEF Room, arguments
<1>5. Agree(q, next_arg, 0) /\ i \in 0 .. Len(Arguments(schema)) /\ 0 \in 0 .. i
  BY <1>1 DEF Agree
<1>6. QED
  BY <1>1, <1>4, <1>5, BeforeOrAgree

-----------------------------------------------------------------------------
THEOREM InitIInv ==
  ASSUME OdometerAssumption
  PROVE  Init => IInv
BY DEF Init, IInv, Called, InStep, Decided, AllAndOnly, N, arguments

THEOREM NextIInv ==
  ASSUME OdometerAssumption
  PROVE  IInv /\ [Next]_vars => IInv'
<1> SUFFICES ASSUME IInv, [Next]_vars PROVE IInv'
  OBVIOUS
<1> USE DEF IInv
<1>1. schema \in Schemata /\ N \in Nat /\ N = Len(Arguments(schema))
  BY ListFacts DEF N, arguments
<1>2. CASE Ground
  <2>1. stage' = "returned" /\ schema' = schema /\ N = 0
    BY <1>2 DEF Ground
  <2>2. \A q \in Positions(schema) : Word(schema, q, 0) = <<>>
    BY DEF Word
  <2>3. \E q : q \in Positions(schema)
    <3> DEFINE f == [k \in 1 .. Len(Arguments(schema)) |-> 1]
    <3>1. f = [k \in 1 .. Len(Arguments(schema)) |-> f[k]]
      OBVIOUS
    <3>2. \A k \in 1 .. Len(Arguments(schema)) :
            f[k] \in 1 .. Len(Arguments(schema)[k])
      BY <1>1, <2>1
    <3> HIDE DEF f
    <3>3. f \in Positions(schema)
      BY <1>1, <3>1, <3>2, PositionsIntro
    <3>4. QED
      BY <3>3
  <2>4. {ActionFor(schema, q) : q \in Selected(schema)}
          = IF Contradiction(schema, <<>>) THEN {} ELSE {Action(<<>>, <<>>)}
    BY <1>1, <2>1, <2>2, <2>3 DEF Selected, ActionFor
  <2>5. actions' = {ActionFor(schema, q) : q \in Selected(schema)}
    <3>1. actions = {}
      BY <1>2 DEF Ground, Called
    <3>2. QED
      BY <1>2, <2>4 DEF Ground
  <2>6. QED
    BY <1>1, <2>1, <2>5 DEF Called, InStep, Decided, AllAndOnly
<1>3. CASE NoObjects
  <2>1. stage' = "returned" /\ schema' = schema /\ actions' = {}
    BY <1>3 DEF NoObjects, Called
  <2>2. Positions(schema) = {}
    <3>1. PICK k \in 1 .. N : arguments[k] = <<>>
      BY <1>3 DEF NoObjects
    <3>2. Len(Arguments(schema)[k]) = 0
      BY <3>1 DEF arguments
    <3>3. \A q \in Positions(schema) : q[k] \in 1 .. 0
      BY <1>1, <3>1, <3>2, PositionFacts
    <3>4. QED
      BY <3>3
  <2>3. actions' = {ActionFor(schema, q) : q \in Selected(schema)}
    BY <2>1, <2>2 DEF Selected
  <2>4. QED
    BY <1>1, <2>1, <2>3 DEF Called, InStep, Decided, AllAndOnly
<1>4. CASE Enter
  <2>1. /\ stage' = "looping" /\ schema' = schema /\ actions' = {}
        /\ i = 1 /\ i' = 1 /\ args' = NoArgs /\ preconds' = << <<>> >>
        /\ next_arg' = [k \in 1 .. N |-> 1] /\ N > 0
        /\ \A k \in 1 .. N : arguments[k] # <<>>
    BY <1>4 DEF Enter, Called
  <2>2. N' = N
    BY <2>1 DEF N, arguments
  <2>3. next_arg' \in Positions(schema)
    <3>1. \A k \in 1 .. Len(Arguments(schema)) :
            next_arg'[k] \in 1 .. Len(Arguments(schema)[k])
      <4>1. TAKE k \in 1 .. Len(Arguments(schema))
      <4>2. /\ Arguments(schema)[k] \in Seq(Objects)
            /\ Arguments(schema)[k] # <<>>
        BY <1>1, <2>1, ListFacts DEF arguments
      <4>3. Len(Arguments(schema)[k]) \in Nat \ {0}
        BY <4>2
      <4>4. next_arg'[k] = 1
        BY <1>1, <2>1
      <4>5. QED
        BY <4>3, <4>4
    <3>2. QED
      BY <1>1, <2>1, <3>1, PositionsIntro
  <2>4. Word(schema, next_arg', 0) = <<>> /\ NoArgs = Word(schema, next_arg', 0)
    BY DEF Word, NoArgs
  <2>5. InStep'
    <3>1. i' \in 1 .. N'
      BY <1>1, <2>1, <2>2
    <3>2. args' = Word(schema', next_arg', i' - 1)
      BY <2>1, <2>4
    <3>3. preconds' = [k \in 1 .. i' |-> Word(schema', next_arg', k - 1)]
      <4>1. [k \in 1 .. i' |-> Word(schema', next_arg', k - 1)]
              = [k \in 1 .. 1 |-> <<>>]
        BY <2>1, <2>4
      <4>2. << <<>> >> = [k \in 1 .. 1 |-> <<>>]
        OBVIOUS
      <4>3. QED
        BY <2>1, <4>1, <4>2
    <3>4. QED
      BY <2>1, <2>3, <3>1, <3>2, <3>3 DEF InStep
  <2>6. Decided'
    <3>1. \A p \in Positions(schema) : ~Before(p, next_arg', 1)
      <4>1. SUFFICES ASSUME NEW p \in Positions(schema), Before(p, next_arg', 1)
                     PROVE  FALSE
        OBVIOUS
      <4>2. p[1] < next_arg'[1]
        BY <4>1 DEF Before
      <4>3. p[1] \in Nat /\ p[1] >= 1
        <5>1. 1 \in 1 .. Len(Arguments(schema))
          BY <1>1, <2>1
        <5>2. p[1] \in 1 .. Len(Arguments(schema)[1])
          BY <1>1, <5>1, PositionFacts
        <5>3. QED
          BY <5>2
      <4>4. QED
        BY <1>1, <2>1, <4>2, <4>3
    <3>2. actions' = {ActionFor(schema, q) :
                        q \in {p \in Selected(schema) : Before(p, next_arg', 1)}}
      BY <2>1, <3>1 DEF Selected
    <3>3. \A k \in i' + 1 .. N' : next_arg'[k] = 1
      BY <1>1, <2>1, <2>2
    <3>4. \A k \in 1 .. i' - 1 :
            ~Contradiction(schema', Word(schema', next_arg', k))
      BY <2>1
    <3>5. QED
      BY <2>1, <3>2, <3>3, <3>4 DEF Decided
  <2>7. QED
    BY <1>1, <2>1, <2>5, <2>6 DEF Called, AllAndOnly
<1>5. CASE Bind
  <2>1. /\ stage = "looping" /\ stage' = "looping" /\ schema' = schema
        /\ next_arg' = next_arg /\ actions' = actions
        /\ args' = Bindings /\ preconds' = Append(preconds, Precond)
        /\ i' = i + 1
    BY <1>5 DEF Bind
  <2>2. /\ i \in 1 .. N /\ next_arg \in Positions(schema)
        /\ Precond = Word(schema, next_arg, i)
        /\ Bindings = Word(schema, next_arg, i)
    BY <2>1, HeadFacts
  <2>3. i # N /\ ~Contradiction(schema, Word(schema, next_arg, i))
    BY <1>5, <2>2 DEF Bind, Settled
  <2>4. N' = N
    BY <2>1 DEF N, arguments
  <2>5. InStep'
    <3>1. i' \in 1 .. N'
      BY <1>1, <2>1, <2>2, <2>3, <2>4
    <3>2. args' = Word(schema', next_arg', i' - 1)
      <4>1. i' - 1 = i
        BY <1>1, <2>1, <2>2
      <4>2. QED
        BY <2>1, <2>2, <4>1
    <3>3. preconds' = [k \in 1 .. i' |-> Word(schema', next_arg', k - 1)]
      <4> DEFINE w == [k \in 1 .. i |-> Word(schema, next_arg, k - 1)]
                 v == [k \in 1 .. i + 1 |-> Word(schema, next_arg, k - 1)]
      <4>1. \A k \in 1 .. i + 1 : Word(schema, next_arg, k - 1) \in Seq(Objects)
        BY <1>1, <2>2, WordIsSequence
      <4>2. w \in Seq(Seq(Objects)) /\ Len(w) = i
        BY <1>1, <2>2, <4>1
      <4>3. v \in Seq(Seq(Objects)) /\ Len(v) = i + 1
        BY <1>1, <2>2, <4>1
      <4>4. Precond \in Seq(Objects) /\ Precond = v[i + 1]
        <5>1. v[i + 1] = Word(schema, next_arg, (i + 1) - 1)
          BY <1>1, <2>2
        <5>2. (i + 1) - 1 = i
          BY <1>1, <2>2
        <5>3. Word(schema, next_arg, i) \in Seq(Objects)
          BY <1>1, <2>2, WordIsSequence
        <5>4. QED
          BY <2>2, <5>1, <5>2, <5>3
      <4>5. \A k \in 1 .. i : w[k] = v[k]
        BY <1>1, <2>2
      <4> HIDE DEF w, v
      <4>6. Append(w, Precond) = v
        BY <1>1, <2>2, <4>2, <4>3, <4>4, <4>5
      <4>7. preconds = w
        BY <2>1 DEF InStep, w
      <4>8. QED
        BY <2>1, <4>6, <4>7 DEF v
    <3>4. QED
      BY <2>1, <2>2, <3>1, <3>2, <3>3 DEF InStep
  <2>6. Decided'
    <3>1. \A k \in i + 1 .. N : next_arg[k] = 1
      BY <2>1 DEF Decided
    <3>2. \A k \in i' + 1 .. N' : next_arg'[k] = 1
      BY <1>1, <2>1, <2>2, <2>4, <3>1
    <3>3. \A k \in 1 .. i - 1 : ~Contradiction(schema, Word(schema, next_arg, k))
      BY <2>1 DEF Decided
    <3>4. \A k \in 1 .. i' - 1 : ~Contradiction(schema, Word(schema, next_arg, k))
      BY <1>1, <2>1, <2>2, <2>3, <3>3
    <3>5. \A p \in Positions(schema) :
            Before(p, next_arg, i + 1) <=> Before(p, next_arg, i)
      <4>1. SUFFICES ASSUME NEW p \in Positions(schema)
                     PROVE  Before(p, next_arg, i + 1) <=> Before(p, next_arg, i)
        OBVIOUS
      <4>2. i + 1 \in 1 .. N
        BY <1>1, <2>2, <2>3
      <4>3. next_arg[i + 1] = 1 /\ p[i + 1] \in Nat /\ p[i + 1] >= 1
        BY <1>1, <3>1, <4>2, PositionFacts, ListFacts
      <4>4. ~(p[i + 1] < next_arg[i + 1])
        BY <4>3
      <4>5. 1 .. i + 1 = (1 .. i) \cup {i + 1}
        BY <1>1, <2>2
      <4>6. QED
        BY <4>4, <4>5 DEF Before
    <3>6. actions' = {ActionFor(schema, q) :
                        q \in {p \in Selected(schema) : Before(p, next_arg, i + 1)}}
      <4>1. actions = {ActionFor(schema, q) :
                        q \in {p \in Selected(schema) : Before(p, next_arg, i)}}
        BY <2>1 DEF Decided
      <4>2. QED
        BY <2>1, <3>5, <4>1 DEF Selected
    <3>7. QED
      BY <2>1, <3>2, <3>4, <3>6 DEF Decided
  <2>7. QED
    BY <1>1, <2>1, <2>5, <2>6 DEF Called, AllAndOnly
<1>6. CASE Turn
  <2>1. /\ stage = "looping" /\ stage' = "looping" /\ schema' = schema
        /\ Settled /\ actions' = Found
    BY <1>6 DEF Turn
  <2>2. PICK j \in 1 .. i :
          /\ Room(j) /\ \A k \in j + 1 .. i : ~Room(k)
          /\ next_arg' = Turned(j) /\ args' = Unbind(j)
          /\ preconds' = SubSeq(preconds, 1, j) /\ i' = j
    BY <1>6 DEF Turn
  <2>3. /\ i \in 1 .. N /\ j \in 1 .. N /\ next_arg \in Positions(schema)
        /\ Bindings = Word(schema, next_arg, i)
    BY <1>1, <2>1, <2>2, HeadFacts
  <2>4. N' = N
    BY <2>1 DEF N, arguments
  <2>5. /\ next_arg' \in Positions(schema)
        /\ \A k \in 1 .. j - 1 : next_arg'[k] = next_arg[k]
        /\ \A k \in j + 1 .. N : next_arg'[k] = 1
        /\ \A q \in Positions(schema) :
              Before(q, next_arg', j)
                <=> Before(q, next_arg, i) \/ Agree(q, next_arg, i)
    BY <2>1, <2>2, TurnFacts
  <2>6. \A k \in 0 .. j - 1 : Word(schema, next_arg', k) = Word(schema, next_arg, k)
    <3>1. \A k \in 0 .. j - 1 : Agree(next_arg', next_arg, k)
      BY <1>1, <2>3, <2>5 DEF Agree
    <3>2. QED
      BY <3>1, WordAgree
  <2>7. InStep'
    <3>1. args' = Word(schema', next_arg', i' - 1)
      <4>1. DOMAIN Bindings = 1 .. i
        BY <2>3 DEF Word
      <4>2. (DOMAIN Bindings) \ (j .. i) = 1 .. j - 1
        BY <1>1, <2>3, <4>1
      <4>3. Unbind(j) = [k \in 1 .. j - 1 |-> Bindings[k]]
        BY <4>2 DEF Unbind
      <4>4. \A k \in 1 .. j - 1 : Bindings[k] = Arguments(schema)[k][next_arg[k]]
        BY <1>1, <2>2, <2>3 DEF Word
      <4>5. Unbind(j) = Word(schema, next_arg, j - 1)
        BY <4>3, <4>4 DEF Word
      <4>6. j - 1 \in 0 .. j - 1
        BY <1>1, <2>3
      <4>7. QED
        BY <2>1, <2>2, <2>6, <4>5, <4>6
    <3>2. preconds' = [k \in 1 .. i' |-> Word(schema', next_arg', k - 1)]
      <4> DEFINE w == [k \in 1 .. i |-> Word(schema, next_arg, k - 1)]
                 v == [k \in 1 .. j |-> Word(schema, next_arg, k - 1)]
                 u == [k \in 1 .. j |-> Word(schema, next_arg', k - 1)]
      <4>1. \A k \in 1 .. i : Word(schema, next_arg, k - 1) \in Seq(Objects)
        BY <1>1, <2>3, WordIsSequence
      <4>2. w \in Seq(Seq(Objects)) /\ Len(w) = i
        BY <1>1, <2>3, <4>1
      <4>3. SubSeq(w, 1, j) = [k \in 1 .. j |-> w[k]]
        BY <1>1, <2>2, <2>3, <4>2
      <4>4. [k \in 1 .. j |-> w[k]] = v
        BY <1>1, <2>2, <2>3
      <4>5. u = v
        <5>1. \A k \in 1 .. j : k - 1 \in 0 .. j - 1
          BY <1>1, <2>3
        <5>2. QED
          BY <2>6, <5>1
      <4> HIDE DEF w, v, u
      <4>6. preconds = w
        BY <2>1 DEF InStep, w
      <4>7. preconds' = u
        BY <2>2, <4>3, <4>4, <4>5, <4>6
      <4>8. QED
        BY <2>1, <2>2, <4>7 DEF u
    <3>3. i' \in 1 .. N'
      BY <2>2, <2>3, <2>4
    <3>4. QED
      BY <2>1, <2>5, <3>1, <3>2, <3>3 DEF InStep
  <2>8. Decided'
    <3>1. \A k \in i' + 1 .. N' : next_arg'[k] = 1
      BY <2>2, <2>4, <2>5
    <3>2. \A k \in 1 .. i' - 1 : ~Contradiction(schema, Word(schema, next_arg', k))
      <4>1. \A k \in 1 .. i - 1 : ~Contradiction(schema, Word(schema, next_arg, k))
        BY <2>1 DEF Decided
      <4>2. \A k \in 1 .. j - 1 : ~Contradiction(schema, Word(schema, next_arg, k))
        BY <1>1, <2>2, <2>3, <4>1
      <4>3. \A k \in 1 .. j - 1 : k \in 0 .. j - 1
        BY <1>1, <2>3
      <4>4. QED
        BY <2>2, <2>6, <4>2, <4>3
    <3>3. actions' = {ActionFor(schema, q) :
                        q \in {p \in Selected(schema) : Before(p, next_arg', j)}}
      <4>1. Found = {ActionFor(schema, q) :
                       q \in {p \in Selected(schema) :
                               Before(p, next_arg, i) \/ Agree(p, next_arg, i)}}
        BY <2>1, FoundFacts
      <4>2. QED
        BY <2>1, <2>5, <4>1 DEF Selected
    <3>4. QED
      BY <2>1, <2>2, <3>1, <3>2, <3>3 DEF Decided
  <2>9. QED
    BY <1>1, <2>1, <2>7, <2>8 DEF Called, AllAndOnly
<1>7. CASE Finish
  <2>1. /\ stage = "looping" /\ stage' = "returned" /\ schema' = schema
        /\ Settled /\ actions' = Found /\ \A k \in 1 .. i : ~Room(k)
    BY <1>7 DEF Finish
  <2>2. \A q \in Positions(schema) :
          Before(q, next_arg, i) \/ Agree(q, next_arg, i)
    BY <2>1, FinishFacts
  <2>3. actions' = {ActionFor(schema, q) : q \in Selected(schema)}
    <3>1. Found = {ActionFor(schema, q) :
                     q \in {p \in Selected(schema) :
                             Before(p, next_arg, i) \/ Agree(p, next_arg, i)}}
      BY <2>1, FoundFacts
    <3>2. QED
      BY <2>1, <2>2, <3>1 DEF Selected
  <2>4. QED
    BY <1>1, <2>1, <2>3 DEF Called, InStep, Decided, AllAndOnly
<1>8. CASE UNCHANGED vars
  <2>1. /\ schema' = schema /\ stage' = stage /\ i' = i /\ next_arg' = next_arg
        /\ args' = args /\ preconds' = preconds /\ actions' = actions
    BY <1>8 DEF vars
  <2>2. N' = N
    BY <2>1 DEF N, arguments
  <2>3. QED
    BY <2>1, <2>2 DEF Called, InStep, Decided, AllAndOnly
<1>9. QED
  BY <1>2, <1>3, <1>4, <1>5, <1>6, <1>7, <1>8 DEF Next

(* Every call of instantiations, whatever the lists of objects and the
   precondition, returns an action for each tuple of arguments that the
   precondition allows, and no other. *)
THEOREM InstantiationIsComplete ==
  ASSUME OdometerAssumption
  PROVE  Spec => []AllAndOnly
<1>1. Init => IInv
  BY InitIInv
<1>2. IInv /\ [Next]_vars => IInv'
  BY NextIInv
<1>3. IInv => AllAndOnly
  BY DEF IInv
<1>4. QED
  BY <1>1, <1>2, <1>3, PTL DEF Spec

(* The bindings and the stack stay in step, and no list of objects is read
   past its end. *)
THEOREM OdometerInStep ==
  ASSUME OdometerAssumption
  PROVE  Spec => []InStep
<1>1. Init => IInv
  BY InitIInv
<1>2. IInv /\ [Next]_vars => IInv'
  BY NextIInv
<1>3. IInv => InStep
  BY DEF IInv
<1>4. QED
  BY <1>1, <1>2, <1>3, PTL DEF Spec
=============================================================================
