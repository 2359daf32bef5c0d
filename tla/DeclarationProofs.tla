-------------------------- MODULE DeclarationProofs --------------------------
(***************************************************************************)
(* Theorems about what the parser keeps while it reads declarations: the   *)
(* type table, the symbols and objects, and the domains and problems       *)
(* (modules TypeTable, Symbols and Domains), for any names, any numbers of *)
(* them and any order of the text.                                         *)
(***************************************************************************)
EXTENDS TypeTable, Symbols, Domains, SequenceTheorems, TLAPS

-----------------------------------------------------------------------------
(***************************************************************************)
(* TypeTable.  The subtype table is a partial order, and the closure of    *)
(* what was declared, for any number of types and unions.                  *)
(*                                                                         *)
(* While add_supertype walks over the types the table is not transitive.   *)
(* The invariant says what it holds then: the table as it was before, and  *)
(* the new supertypes of the types that were visited.  That describes it   *)
(* although the walk reads the cells that it is changing, because none of  *)
(* the changes is to a cell that the walk still depends on.                *)
(***************************************************************************)
Order(t) ==
  /\ \A a, b, c \in Simple : LeIn(t, a, b) /\ LeIn(t, b, c) => LeIn(t, a, c)
  /\ \A a, b \in Simple : LeIn(t, a, b) /\ LeIn(t, b, a) => a = b

(* What the walk has added so far. *)
Walked(a, b) == a < k /\ LeIn(before, a, type1) /\ LeIn(before, super, b)

Resting ==
  pc # "types" =>
    /\ Order(subtype_)
    /\ \A p \in declared : Le(p[1], p[2])

Walking ==
  pc = "types" =>
    /\ type1 \in Simple /\ super \in Simple /\ k \in 1 .. n + 1
    /\ Order(before)
    /\ ~LeIn(before, type1, super) /\ ~LeIn(before, super, type1)
    /\ \A p \in declared : LeIn(before, p[1], p[2]) \/ p = <<type1, super>>
    /\ <<type1, super>> \in declared
    /\ \A a, b \in Simple : Le(a, b) <=> LeIn(before, a, b) \/ Walked(a, b)

Justified == \A a, b \in Simple : Le(a, b) => Implied(a, b)

Visiting == pc = "component" => type1 \in Simple

IInv == TypeOK /\ InBounds /\ Resting /\ Walking /\ Justified /\ Visiting

-----------------------------------------------------------------------------
(* The two halves of a row do not overlap, and rows do not either.         *)
LEMMA CellsDiffer ==
  ASSUME NEW a \in Int, NEW b \in Int, NEW c \in Int, NEW d \in Int,
         a > 0, b > 0, c > 0, d > 0, a # b, c # d, Cell(a, b) = Cell(c, d)
  PROVE  a = c /\ b = d
BY DEF Cell

(* Every pair of types has its cell in the rows that were allocated.       *)
LEMMA CellExists ==
  ASSUME NEW m \in Nat, NEW a \in 1 .. m, NEW b \in 1 .. m, a # b
  PROVE  Cell(a, b) \in Cells(m)
<1>1. CASE b < a
  <2>1. a - 2 \in 0 .. m - 2 /\ 2 * a - b - 2 \in 0 .. 2 * (a - 2) + 1
    BY <1>1
  <2>2. Cell(a, b) \in Row(a - 2)
    BY <1>1, <2>1 DEF Cell, Row
  <2>3. QED
    BY <2>1, <2>2 DEF Cells
<1>2. CASE a < b
  <2>1. b - 2 \in 0 .. m - 2 /\ a - 1 \in 0 .. 2 * (b - 2) + 1
    BY <1>2
  <2>2. Cell(a, b) \in Row(b - 2)
    BY <1>2, <2>1 DEF Cell, Row
  <2>3. QED
    BY <2>1, <2>2 DEF Cells
<1>3. QED
  BY <1>1, <1>2

(* A type that is added later has no cell yet.                             *)
LEMMA NewTypeHasNoCell ==
  ASSUME NEW m \in Nat, NEW a \in 1 .. m + 1, NEW b \in 1 .. m + 1, a # b,
         a = m + 1 \/ b = m + 1
  PROVE  Cell(a, b) \notin Cells(m)
<1>1. PICK x \in Int : Cell(a, b) = <<m - 1, x>>
  BY DEF Cell
<1>2. SUFFICES ASSUME NEW r \in 0 .. m - 2, Cell(a, b) \in Row(r) PROVE FALSE
  BY DEF Cells
<1>3. PICK c \in 0 .. 2 * r + 1 : Cell(a, b) = <<r, c>>
  BY <1>2 DEF Row
<1>4. QED
  BY <1>1, <1>3

LEMMA CellsGrow ==
  ASSUME NEW m \in Nat PROVE Cells(m) \subseteq Cells(m + 1)
BY DEF Cells

-----------------------------------------------------------------------------
(* A step that leaves the table, its types and the walk alone.             *)
LEMMA Unchanged ==
  ASSUME IInv, TypeOK', UNCHANGED <<n, subtype_, declared>>,
         pc # "types", pc' # "types", pc' = "component" => type1' \in Simple
  PROVE  IInv'
<1>1. InBounds' /\ Justified'
  BY DEF IInv, InBounds, Justified, Implied, Closed, Simple, Le, LeIn
<1>2. Resting'
  BY DEF IInv, Resting, Order, Simple, Le, LeIn
<1>3. Walking' /\ Visiting'
  BY DEF Walking, Visiting, Simple
<1>4. QED
  BY <1>1, <1>2, <1>3 DEF IInv

LEMMA AddTypeStep == ASSUME IInv, AddType PROVE IInv'
<1> USE DEF AddType
<1>1. n \in Nat /\ n' = n + 1 /\ Simple \subseteq Simple'
  BY DEF IInv, TypeOK, Simple
<1>2. TypeOK'
  <2>1. utypes' \in Seq(SUBSET Simple')
    BY <1>1 DEF IInv, TypeOK
  <2>2. n' \in Nat /\ type1' \in Nat /\ type1' <= n' /\ k' \in 0 .. n' + 1
    BY <1>1 DEF IInv, TypeOK
  <2>3. declared' \subseteq Simple' \X Simple'
    BY <1>1 DEF IInv, TypeOK
  <2>4. type2' \in (Simple \cup Unions \cup {OBJECT})'
    BY <1>1 DEF IInv, TypeOK, Unions, OBJECT
  <2>5. todo' \subseteq (Simple \cup {OBJECT})' /\ super' \in (Simple \cup {OBJECT})'
    BY <1>1 DEF IInv, TypeOK, OBJECT
  <2>6. QED
    BY <2>1, <2>2, <2>3, <2>4, <2>5 DEF IInv, TypeOK
<1>3. InBounds'
  BY <1>1, CellsGrow DEF IInv, InBounds
<1>4. \A a, b \in Simple' : a # b /\ (a \notin Simple \/ b \notin Simple) =>
        Cell(a, b) \notin subtype_
  BY <1>1, NewTypeHasNoCell DEF IInv, InBounds, Simple
<1>5. \A a, b \in Simple' : Le(a, b)' <=> Le(a, b)
  BY DEF Le, LeIn
<1>6. \A a, b \in Simple' : Le(a, b) =>  a = b \/ (a \in Simple /\ b \in Simple)
  BY <1>1, <1>4 DEF Le, LeIn, Simple, OBJECT
<1>7. Resting'
  <2>1. Order(subtype_) /\ \A p \in declared : Le(p[1], p[2])
    BY DEF IInv, Resting
  <2>2. Order(subtype_)'
    BY <2>1, <1>5, <1>6 DEF Order, Le
  <2>3. \A p \in declared : Le(p[1], p[2])'
    BY <2>1 DEF Le, LeIn
  <2>4. QED
    BY <2>2, <2>3 DEF Resting
<1>8. Justified'
  <2>1. SUFFICES ASSUME NEW a \in Simple', NEW b \in Simple', Le(a, b),
                        NEW U \in SUBSET Simple', a \in U, Closed(U)
                 PROVE  b \in U
    BY <1>5 DEF Justified, Implied, Closed
  <2>2. CASE a = b
    BY <2>1, <2>2
  <2>3. CASE a \in Simple /\ b \in Simple
    <3>1. Closed(U \cap Simple)
      BY <2>1 DEF Closed, IInv, TypeOK
    <3>2. QED
      BY <2>1, <2>3, <3>1 DEF IInv, Justified, Implied
  <2>4. QED
    BY <2>1, <2>2, <2>3, <1>6
<1>9. Walking' /\ Visiting'
  BY <1>1 DEF Walking, Visiting
<1>10. QED
  BY <1>2, <1>3, <1>7, <1>8, <1>9 DEF IInv

LEMMA UnionTypeStep == ASSUME IInv, UnionType PROVE IInv'
<1> USE DEF UnionType
<1>1. utypes' \in Seq(SUBSET Simple) /\ Len(utypes') = Len(utypes) + 1
  BY DEF IInv, TypeOK
<1>2. type2' \in (Simple \cup Unions \cup {OBJECT})'
  BY <1>1 DEF IInv, TypeOK, Unions, Simple
<1>3. TypeOK'
  BY <1>1, <1>2 DEF IInv, TypeOK, Simple, OBJECT
<1>4. QED
  BY <1>3, Unchanged

LEMMA DeclareStep == ASSUME IInv, Declare PROVE IInv'
<1> USE DEF Declare
<1>1. PICK a \in Simple, b \in Simple \cup Unions \cup {OBJECT} :
        type1' = a /\ type2' = b /\ todo' = Components(b)
  OBVIOUS
<1>2. Components(b) \subseteq Simple \cup {OBJECT}
  <2>1. CASE b < 0
    <3>1. b \in Unions
      BY <2>1 DEF Simple, OBJECT
    <3>2. PICK i \in 1 .. Len(utypes) : b = -i
      BY <3>1 DEF Unions
    <3>3. -b = i /\ utypes[i] \in SUBSET Simple
      BY <3>2 DEF IInv, TypeOK
    <3>4. QED
      BY <2>1, <3>3 DEF Components
  <2>2. CASE ~(b < 0)
    <3>1. b \notin Unions
      BY <2>2 DEF Unions, IInv, TypeOK
    <3>2. QED
      BY <2>2, <3>1 DEF Components
  <2>3. QED
    BY <2>1, <2>2
<1>3. a \in Nat /\ a <= n
  BY DEF Simple, IInv, TypeOK
<1>4. TypeOK'
  BY <1>1, <1>2, <1>3 DEF IInv, TypeOK, Simple, Unions, OBJECT
<1>5. QED
  BY <1>1, <1>4, Unchanged

LEMMA AlreadyDeclaredStep == ASSUME IInv, AlreadyDeclared PROVE IInv'
<1> USE DEF AlreadyDeclared
<1>1. TypeOK'
  BY DEF IInv, TypeOK, Simple, Unions, OBJECT
<1>2. type1' \in Simple
  BY DEF IInv, Visiting
<1>3. QED
  BY <1>1, <1>2, Unchanged

LEMMA RefuseStep == ASSUME IInv, Refuse PROVE IInv'
<1> USE DEF Refuse
<1>1. type1 \in Int /\ type2 \in Int
  BY DEF IInv, TypeOK, Simple, Unions, OBJECT
<1>2. TypeOK'
  BY <1>1 DEF IInv, TypeOK, Simple, Unions, OBJECT
<1>3. QED
  BY <1>2, Unchanged

LEMMA AcceptStep == ASSUME IInv, Accept PROVE IInv'
<1> USE DEF Accept
<1>1. TypeOK'
  BY DEF IInv, TypeOK, Simple, Unions, OBJECT
<1>2. QED
  BY <1>1, Unchanged

-----------------------------------------------------------------------------
(* The walk begins with a table it has not changed yet.                    *)
LEMMA StartComponentStep == ASSUME IInv, StartComponent PROVE IInv'
<1> USE DEF StartComponent
<1>1. PICK c \in todo : ~Le(type1, c) /\ ~Le(c, type1) /\ super' = c
                        /\ todo' = todo \ {c}
                        /\ declared' = declared \cup {<<type1, c>>}
  OBVIOUS
<1>2. type1 \in Simple /\ c \in Simple /\ n \in Nat
  BY <1>1 DEF IInv, TypeOK, Visiting, Le, LeIn, OBJECT
<1>3. TypeOK'
  BY <1>1, <1>2 DEF IInv, TypeOK, Simple, Unions, OBJECT
<1>4. InBounds' /\ Resting' /\ Visiting'
  BY DEF IInv, InBounds, Resting, Visiting
<1>5. \A a, b : Le(a, b)' = Le(a, b) /\ LeIn(before, a, b)' = Le(a, b)
  BY DEF Le, LeIn
<1>6. Walking'
  <2>1. Order(subtype_) /\ \A p \in declared : Le(p[1], p[2])
    BY DEF IInv, Resting
  <2>2. Order(before)'
    BY <2>1, <1>5 DEF Order, Le, Simple
  <2>3. \A a, b \in Simple : ~Walked(a, b)'
    BY DEF Walked, Simple
  <2>4. \A a, b \in Simple : (Le(a, b) <=> LeIn(before, a, b) \/ Walked(a, b))'
    BY <1>5, <2>3
  <2>5. \A p \in declared' : LeIn(before, p[1], p[2])' \/ p = <<type1, super>>'
    BY <1>1, <1>5, <2>1
  <2>6. ~LeIn(before, type1, super)' /\ ~LeIn(before, super, type1)'
    BY <1>1, <1>5
  <2>7. QED
    BY <1>1, <1>2, <2>2, <2>4, <2>5, <2>6 DEF Walking, Simple
<1>7. Justified'
  BY <1>1, <1>5 DEF IInv, Justified, Implied, Closed, Simple
<1>8. QED
  BY <1>3, <1>4, <1>6, <1>7 DEF IInv

(* One turn of the walk: the cells it sets are those of the pairs that the
   invariant of the walk promises for k. *)
LEMMA VisitTypeStep == ASSUME IInv, VisitType PROVE IInv'
<1> USE DEF VisitType
<1>1. /\ n \in Nat /\ k \in Simple /\ k' = k + 1
      /\ type1 \in Simple /\ super \in Simple
      /\ Order(before)
      /\ ~LeIn(before, type1, super) /\ ~LeIn(before, super, type1)
      /\ \A a, b \in Simple : Le(a, b) <=> LeIn(before, a, b) \/ Walked(a, b)
  BY DEF IInv, Walking, TypeOK, Simple
<1> DEFINE New == {Cell(k, l) : l \in {l \in Simple : Le(super, l)}}
           B(a, b) == LeIn(before, a, b)
<1>2. \A l \in Simple : Le(super, l) <=> B(super, l)
  BY <1>1 DEF Walked
<1>3. Le(k, type1) <=> B(k, type1)
  BY <1>1 DEF Walked
<1>4. Le(k, super) <=> B(k, super)
  BY <1>1 DEF Walked, Simple
<1>5. \A l \in Simple : B(k, type1) /\ B(super, l) => k # l
  BY <1>1 DEF Order
<1>6. New \subseteq Cells(n) \/ ~(Le(k, type1) /\ ~Le(k, super))
  BY <1>1, <1>2, <1>3, <1>5, CellExists DEF Simple
<1>7. InBounds'
  BY <1>6 DEF IInv, InBounds
<1>8. TypeOK'
  <2>1. subtype_' \subseteq Int \X Int
    <3>1. \A r \in 0 .. n - 2 : Row(r) \subseteq Int \X Int
      BY DEF Row
    <3>2. Cells(n) \subseteq Int \X Int
      BY <3>1 DEF Cells
    <3>3. QED
      BY <1>7, <3>2 DEF InBounds
  <2>2. k' \in 0 .. n' + 1
    BY <1>1 DEF Simple
  <2>3. QED
    BY <2>1, <2>2 DEF IInv, TypeOK, Simple, Unions, OBJECT
<1>9. \A a, b \in Simple :
        Le(a, b)' <=> Le(a, b) \/ (a = k /\ B(k, type1) /\ B(super, b))
  <2>1. SUFFICES ASSUME NEW a \in Simple, NEW b \in Simple, a # b
                 PROVE  Le(a, b)' <=>
                          Le(a, b) \/ (a = k /\ B(k, type1) /\ B(super, b))
    BY DEF Le, LeIn
  <2>2. Le(a, b) <=> Cell(a, b) \in subtype_
    BY <2>1 DEF Le, LeIn, Simple, OBJECT
  <2>3. Le(a, b)' <=> Cell(a, b) \in subtype_'
    BY <2>1 DEF Le, LeIn, Simple, OBJECT
  <2>4. CASE ~(Le(k, type1) /\ ~Le(k, super))
    <3>1. subtype_' = subtype_
      BY <2>4
    <3>2. B(k, type1) /\ B(super, b) => B(k, b)
      BY <1>1, <1>3, <1>4, <2>4 DEF Order
    <3>3. QED
      BY <1>1, <2>2, <2>3, <3>1, <3>2
  <2>5. CASE Le(k, type1) /\ ~Le(k, super)
    <3>1. subtype_' = subtype_ \cup New
      BY <2>5
    <3>2. ASSUME Cell(a, b) \in New PROVE a = k /\ B(super, b)
      <4>1. PICK l \in Simple : Le(super, l) /\ Cell(a, b) = Cell(k, l)
        BY <3>2
      <4>2. k # l
        BY <4>1, <1>2, <1>3, <1>5, <2>5
      <4>3. a = k /\ b = l
        BY <4>1, <4>2, <2>1, <1>1, CellsDiffer DEF Simple
      <4>4. QED
        BY <4>1, <4>3, <1>2
    <3>3. ASSUME a = k, B(super, b) PROVE Cell(a, b) \in New
      BY <3>3, <1>2
    <3>4. QED
      BY <3>1, <3>2, <3>3, <2>2, <2>3, <2>5, <1>3
  <2>6. QED
    BY <2>4, <2>5
<1> HIDE DEF New, B
<1>10. \A a, b : LeIn(before, a, b)' <=> B(a, b)
  BY DEF LeIn, B
<1>11. \A a, b \in Simple : (Le(a, b) <=> LeIn(before, a, b) \/ Walked(a, b))'
  <2>1. \A a, b \in Simple : Walked(a, b)' <=>
          Walked(a, b) \/ (a = k /\ B(k, type1) /\ B(super, b))
    BY <1>1, <1>10 DEF Walked, B, Simple
  <2>2. QED
    BY <1>1, <1>9, <1>10, <2>1 DEF B
<1>12. Walking'
  BY <1>1, <1>10, <1>11 DEF IInv, Walking, Order, Simple, B
<1>13. Justified'
  <2>1. SUFFICES ASSUME NEW a \in Simple, NEW b \in Simple, Le(a, b)',
                        NEW U \in SUBSET Simple, a \in U, Closed(U)
                 PROVE  b \in U
    BY DEF Justified, Implied, Closed, Simple
  <2>2. CASE Le(a, b)
    BY <2>1, <2>2 DEF IInv, Justified, Implied
  <2>3. CASE a = k /\ B(k, type1) /\ B(super, b)
    <3>1. type1 \in U
      BY <2>1, <2>3, <1>1, <1>3 DEF IInv, Justified, Implied
    <3>2. super \in U
      BY <2>1, <3>1 DEF Closed, IInv, Walking
    <3>3. Le(super, b)
      BY <2>3, <1>2
    <3>4. QED
      BY <2>1, <3>2, <3>3, <1>1 DEF IInv, Justified, Implied
  <2>4. QED
    BY <2>1, <2>2, <2>3, <1>9
<1>14. Resting' /\ Visiting'
  BY DEF Resting, Visiting
<1>15. QED
  BY <1>7, <1>8, <1>12, <1>13, <1>14 DEF IInv

(* The walk is over: what it added makes the table an order again.         *)
LEMMA EndComponentStep == ASSUME IInv, EndComponent PROVE IInv'
<1> USE DEF EndComponent
<1> DEFINE B(a, b) == LeIn(before, a, b)
<1>1. /\ type1 \in Simple /\ super \in Simple /\ Order(before)
      /\ ~B(type1, super) /\ ~B(super, type1)
      /\ \A p \in declared : B(p[1], p[2]) \/ p = <<type1, super>>
      /\ \A a, b \in Simple : Le(a, b) <=> B(a, b) \/ Walked(a, b)
  BY DEF IInv, Walking
<1>2. \A a, b \in Simple : Walked(a, b) <=> B(a, type1) /\ B(super, b)
  BY DEF Walked, Simple, IInv, TypeOK
<1> HIDE DEF B
<1>3. \A a, b, c \in Simple : B(a, b) /\ B(b, c) => B(a, c)
  BY <1>1 DEF Order, B
<1>4. \A a, b \in Simple : B(a, b) /\ B(b, a) => a = b
  BY <1>1 DEF Order, B
<1>5. \A a \in Simple : B(a, a)
  BY DEF B, LeIn
<1>6. \A a, b, c \in Simple : Le(a, b) /\ Le(b, c) => Le(a, c)
  BY <1>1, <1>2, <1>3
<1>7. \A a, b \in Simple : Le(a, b) /\ Le(b, a) => a = b
  BY <1>1, <1>2, <1>3, <1>4
<1>8. \A a, b : Le(a, b)' = Le(a, b)
  BY DEF Le, LeIn
<1>9. Resting'
  <2>1. ASSUME NEW p \in declared PROVE Le(p[1], p[2])
    <3>1. p[1] \in Simple /\ p[2] \in Simple
      BY DEF IInv, TypeOK
    <3>2. CASE B(p[1], p[2])
      BY <3>1, <3>2, <1>1
    <3>3. CASE p = <<type1, super>>
      <4>1. p[1] = type1 /\ p[2] = super
        BY <3>3
      <4>2. QED
        BY <4>1, <1>1, <1>2, <1>5
    <3>4. QED
      BY <3>2, <3>3, <1>1
  <2>2. Order(subtype_)'
    BY <1>6, <1>7, <1>8 DEF Order, Le, Simple
  <2>3. QED
    BY <2>1, <2>2, <1>8 DEF Resting
<1>10. TypeOK'
  BY DEF IInv, TypeOK, Simple, Unions, OBJECT
<1>11. InBounds' /\ Justified'
  BY DEF IInv, InBounds, Justified, Implied, Closed, Simple, Le, LeIn
<1>12. Walking' /\ Visiting'
  BY <1>1 DEF Walking, Visiting, Simple
<1>13. QED
  BY <1>9, <1>10, <1>11, <1>12 DEF IInv

-----------------------------------------------------------------------------
(* The invariant holds in every state, for any number of types.            *)
LEMMA Inductive == Spec => []IInv
<1>1. Init => IInv
  BY DEF Init, IInv, TypeOK, InBounds, Resting, Walking, Justified, Visiting,
         Order, Implied, Simple, Unions, OBJECT
<1>2. IInv /\ [Next]_vars => IInv'
  <2>1. SUFFICES ASSUME IInv, [Next]_vars PROVE IInv'
    OBVIOUS
  <2>2. CASE UNCHANGED vars
    BY SMTT(20), <2>1, <2>2 DEF vars, IInv, TypeOK, InBounds, Resting, Walking, Justified,
       Visiting, Order, Walked, Implied, Closed, Simple, Unions, Le, LeIn
  <2>3. QED
    BY <2>1, <2>2, AddTypeStep, UnionTypeStep, DeclareStep,
       AlreadyDeclaredStep, RefuseStep, StartComponentStep, VisitTypeStep,
       EndComponentStep, AcceptStep DEF Next
<1>3. QED
  BY <1>1, <1>2, PTL DEF Spec

(* Whatever is declared, in whatever order, every cell that add_supertype
   sets is one that add_type allocated. *)
THEOREM TableIsBounded == Spec => []InBounds
<1>1. IInv => InBounds
  BY DEF IInv
<1>2. QED
  BY <1>1, Inductive, PTL

(* No two types of any hierarchy are subtypes of each other, not even while
   add_supertype is at work. *)
THEOREM HierarchyIsAcyclic == Spec => []NoCycle
<1>1. IInv => NoCycle
  <2>1. SUFFICES ASSUME IInv PROVE NoCycle
    OBVIOUS
  <2>2. CASE pc # "types"
    BY <2>1, <2>2 DEF IInv, Resting, NoCycle, Order, Le
  <2>3. CASE pc = "types"
    <3>1. /\ type1 \in Simple /\ super \in Simple /\ Order(before)
          /\ ~LeIn(before, super, type1)
          /\ \A a, b \in Simple : Le(a, b) <=> LeIn(before, a, b) \/ Walked(a, b)
      BY <2>1, <2>3 DEF IInv, Walking
    <3>2. \A a, b \in Simple : Walked(a, b) =>
            LeIn(before, a, type1) /\ LeIn(before, super, b)
      BY DEF Walked
    <3>3. QED
      BY <3>1, <3>2 DEF NoCycle, Order
  <2>4. QED
    BY <2>2, <2>3
<1>2. QED
  BY <1>1, Inductive, PTL

(* The two together: what is read and written of the table is safe and a
   hierarchy, at every step, for any number of types. *)
THEOREM TableStaysSound == Spec => []TableIsSound
<1>1. InBounds /\ NoCycle => TableIsSound
  BY DEF TableIsSound
<1>2. QED
  BY <1>1, TableIsBounded, HierarchyIsAcyclic, PTL

(* The table decides exactly what follows from the accepted declarations,
   for any number of types: it is their reflexive and transitive closure. *)
THEOREM TableIsClosure == Spec => []ClosureOfDeclared
<1>1. IInv => ClosureOfDeclared
  <2>1. SUFFICES ASSUME IInv, pc # "types", NEW a \in Simple, NEW b \in Simple,
                        Implied(a, b)
                 PROVE  Le(a, b)
    BY DEF ClosureOfDeclared, IInv, Justified
  <2> DEFINE U == {x \in Simple : Le(a, x)}
  <2>2. a \in U
    BY DEF Le, LeIn
  <2>3. Closed(U)
    <3>1. \A p \in declared : p[1] \in Simple /\ p[2] \in Simple /\ Le(p[1], p[2])
      BY <2>1 DEF IInv, Resting, TypeOK
    <3>2. QED
      BY <2>1, <3>1 DEF IInv, Resting, Order, Le, Closed
  <2>4. QED
    BY <2>1, <2>2, <2>3 DEF Implied
<1>2. QED
  BY <1>1, Inductive, PTL

-----------------------------------------------------------------------------
(* What add_supertype still has to visit are components of its second
   argument, and a declaration that was refused names types there are. *)
Pending == pc # "idle" => todo \subseteq Components(type2)
Named == \A r \in refused : r[2] \in Simple \cup Unions \cup {OBJECT}

RefusalInv == Pending /\ Named /\ RefusalJustified

(* The components of a type stay what they are: new unions are appended.   *)
LEMMA ComponentsStay ==
  ASSUME TypeOK, [Next]_vars, NEW t \in Simple \cup Unions \cup {OBJECT}
  PROVE  /\ Components(t)' = Components(t)
         /\ t \in (Simple \cup Unions \cup {OBJECT})'
<1>1. /\ Len(utypes) \in Nat /\ Len(utypes') \in Nat /\ n \in Nat /\ n' \in Nat
      /\ n <= n' /\ Len(utypes) <= Len(utypes')
      /\ \A i \in 1 .. Len(utypes) : utypes'[i] = utypes[i]
  BY SMTT(25) DEF TypeOK, Next, vars, AddType, UnionType, Declare, AlreadyDeclared,
     Refuse, StartComponent, VisitType, EndComponent, Accept
<1>2. t \in (Simple \cup Unions \cup {OBJECT})'
  BY <1>1 DEF Simple, Unions, OBJECT
<1>3. CASE t \in Unions
  <2>1. PICK i \in 1 .. Len(utypes) : t = -i
    BY <1>3 DEF Unions
  <2>2. t < 0 /\ -t = i
    BY <2>1, <1>1
  <2>3. QED
    BY <1>1, <1>2, <2>1, <2>2 DEF Components
<1>4. CASE t \in Simple \cup {OBJECT}
  <2>1. ~(t < 0)
    BY <1>1, <1>4 DEF Simple, OBJECT
  <2>2. QED
    BY <1>2, <2>1 DEF Components
<1>5. QED
  BY <1>3, <1>4

(* The table only grows: no declaration takes a supertype away.            *)
LEMMA TableGrows ==
  ASSUME [Next]_vars, NEW a, NEW b, Le(a, b) PROVE Le(a, b)'
BY DEF Le, LeIn, Next, vars, AddType, UnionType, Declare, AlreadyDeclared,
   Refuse, StartComponent, VisitType, EndComponent, Accept

(* What justified the last refusal still does after any step.              *)
LEMMA StaysJustified ==
  ASSUME TypeOK, RefusalInv, [Next]_vars, refused' = refused
  PROVE  Named' /\ RefusalJustified'
<1>1. ASSUME NEW r \in refused
      PROVE  /\ r[2] \in (Simple \cup Unions \cup {OBJECT})'
             /\ \E c \in Components(r[2])' : c # r[1] /\ Le(c, r[1])'
  <2>1. r[2] \in Simple \cup Unions \cup {OBJECT}
    BY DEF RefusalInv, Named
  <2>2. PICK c \in Components(r[2]) : c # r[1] /\ Le(c, r[1])
    BY DEF RefusalInv, RefusalJustified
  <2>3. Le(c, r[1])'
    BY <2>2, TableGrows
  <2>4. QED
    BY <2>1, <2>2, <2>3, ComponentsStay
<1>2. QED
  BY <1>1 DEF Named, RefusalJustified

(* Refuse records the declaration for a component that is a proper subtype. *)
LEMMA RefuseIsJustified ==
  ASSUME TypeOK, Pending, Refuse PROVE RefusalInv'
<1> USE DEF Refuse
<1>1. PICK c \in todo : ~Le(type1, c) /\ Le(c, type1)
  OBVIOUS
<1>2. c # type1
  BY <1>1 DEF Le, LeIn
<1>3. c \in Components(type2)
  BY <1>1 DEF Pending
<1>4. utypes' = utypes /\ n' = n /\ subtype_' = subtype_
  OBVIOUS
<1>5. ASSUME NEW r \in refused' PROVE r[1] = type1 /\ r[2] = type2
  BY <1>5
<1>6. Named'
  BY <1>4, <1>5 DEF Named, TypeOK, Simple, Unions, OBJECT
<1>7. RefusalJustified'
  BY <1>1, <1>2, <1>3, <1>4, <1>5 DEF RefusalJustified, Components, Le, LeIn
<1>8. Pending'
  BY DEF Pending
<1>9. QED
  BY <1>6, <1>7, <1>8 DEF RefusalInv

(* add_supertype never refuses a declaration without a reason that the table
   shows, and goes on showing: whatever is declared before, in between or
   later, some component of the refused supertype is a proper subtype of the
   type it was to be declared for. *)
THEOREM RefusalsAreJustified == Spec => []RefusalJustified
<1>1. Init => RefusalInv
  BY DEF Init, RefusalInv, Pending, Named, RefusalJustified
<1>2. IInv /\ RefusalInv /\ [Next]_vars => RefusalInv'
  <2>1. SUFFICES ASSUME IInv, RefusalInv, [Next]_vars PROVE RefusalInv'
    OBVIOUS
  <2>2. TypeOK /\ Pending
    BY <2>1 DEF IInv, RefusalInv
  <2>3. CASE Refuse
    BY <2>2, <2>3, RefuseIsJustified
  <2>4. CASE ~Refuse
    <3>1. refused' = refused
      BY <2>1, <2>4 DEF Next, vars, AddType, UnionType, Declare, AlreadyDeclared,
         StartComponent, VisitType, EndComponent, Accept
    <3>2. Pending'
      <4>1. CASE Declare
        <5>1. PICK b \in Simple \cup Unions \cup {OBJECT} :
                type2' = b /\ todo' = Components(b)
          BY <4>1 DEF Declare
        <5>2. Components(b)' = Components(b)
          BY <2>1, <2>2, <5>1, ComponentsStay
        <5>3. QED
          BY <5>1, <5>2 DEF Pending, Components
      <4>2. CASE ~Declare
        <5>1. pc' # "idle" =>
                pc # "idle" /\ type2' = type2 /\ todo' \subseteq todo
          BY <2>1, <2>4, <4>2 DEF Next, vars, AddType, UnionType, AlreadyDeclared,
             StartComponent, VisitType, EndComponent, Accept
        <5>2. type2 \in Simple \cup Unions \cup {OBJECT}
          BY <2>2 DEF TypeOK
        <5>3. PICK t : t = type2
          OBVIOUS
        <5>4. Components(t)' = Components(t)
          BY <2>1, <2>2, <5>2, <5>3, ComponentsStay
        <5>5. QED
          BY <2>2, <5>1, <5>3, <5>4 DEF Pending, Components
      <4>3. QED
        BY <4>1, <4>2
    <3>3. QED
      BY <2>1, <2>2, <3>1, <3>2, StaysJustified DEF RefusalInv
  <2>5. QED
    BY <2>3, <2>4
<1>3. RefusalInv => RefusalJustified
  BY DEF RefusalInv
<1>4. QED
  BY <1>1, <1>2, <1>3, Inductive, PTL DEF Spec

-----------------------------------------------------------------------------
(***************************************************************************)
(* Symbols.  What was built agrees with the declarations because a symbol  *)
(* gets no parameters any more once something was built with it: not from  *)
(* a declaration, since nothing is built among declarations, and not from  *)
(* a use, since a use adds parameters only if it found no declaration.     *)
(* The types of objects do not change either: a term names an object that  *)
(* is in a table, and until the problem begins in that of the constants,   *)
(* which objects of the problem do not hide.                               *)
(***************************************************************************)
Kinds == SUBSET ((UNION (Types \cup VariableTypes)) \cup {"object"})

TablesTyped ==
  /\ part \in {"domain", "actions", "objects", "init"}
  /\ DOMAIN predicates \subseteq PredicateNames
  /\ predicates \in [DOMAIN predicates -> Seq(Kinds)]
  /\ DOMAIN functions \subseteq FunctionNames
  /\ functions \in [DOMAIN functions -> Seq(Kinds)]
  /\ constants \in [DOMAIN constants -> Kinds]
  /\ objects \in [DOMAIN objects -> Kinds]

(* No object is in both tables, and until the problem there are constants
   only. *)
ObjectsApart ==
  /\ \A o \in DOMAIN objects : o \notin DOMAIN constants
  /\ part \in {"domain", "actions"} => DOMAIN objects = {}

(* Nothing is built while symbols are declared.                            *)
Declaring ==
  /\ declaring # NotDeclaring =>
       /\ part = "domain"
       /\ declaring.table = "predicate" => declaring.name \in DOMAIN predicates
       /\ declaring.table = "function" => declaring.name \in DOMAIN functions
  /\ part = "domain" => built = {}

(* The symbol of the atom or fluent that is being read.                    *)
Open == atom_predicate # NoName \/ fluent_function # NoName
OpenSymbol == IF atom_predicate # NoName THEN [table |-> "predicate", name |-> atom_predicate]
           ELSE [table |-> "function", name |-> fluent_function]
Undeclared == IF atom_predicate # NoName THEN undeclared_atom_predicate
              ELSE undeclared_fluent_function

(* A term keeps its meaning: an object it names is in a table, before the
   problem in that of the constants. *)
Settled(terms) ==
  \A i \in DOMAIN terms :
    terms[i].object =>
      /\ terms[i].name \in DOMAIN Objects
      /\ part # "init" => terms[i].name \in DOMAIN constants

Terms == [object : BOOLEAN, name : ObjectNames \cup {NoName}, type : Kinds]

Agrees(terms, parameters) ==
  \A i \in DOMAIN terms :
    i <= Len(parameters) => FlatSubtype(TypeOfTerm(terms[i]), parameters[i])

Reading ==
  /\ part \in {"domain", "objects"} => ~Open
  /\ atom_predicate # NoName => fluent_function = NoName
  /\ atom_predicate # NoName => atom_predicate \in DOMAIN predicates
  /\ fluent_function # NoName => fluent_function \in DOMAIN functions
  /\ Open =>
       /\ term_parameters \in Seq(Terms)
       /\ Settled(term_parameters)
       /\ Undeclared => Len(term_parameters) = Len(Expected)
       /\ Undeclared => \A b \in built : b.table # OpenSymbol.table \/ b.name # OpenSymbol.name
       /\ success => Agrees(term_parameters, Expected)

BuiltTyped ==
  \A b \in built :
    /\ b.table \in {"predicate", "function"} /\ b.terms \in Seq(Terms)
    /\ b.table = "predicate" => b.name \in DOMAIN predicates
    /\ b.table = "function" => b.name \in DOMAIN functions
    /\ Settled(b.terms)

BuiltAgrees ==
  success => \A b \in built : Len(b.terms) = Len(ParametersOf(b))
                              /\ Agrees(b.terms, ParametersOf(b))

SymbolsSound ==
  TablesTyped /\ ObjectsApart /\ Declaring /\ Reading /\ BuiltTyped /\ BuiltAgrees

-----------------------------------------------------------------------------
(***************************************************************************)
(* Types and tables.                                                       *)
(***************************************************************************)
LEMMA KindsHold ==
  /\ \A T \in Types \cup VariableTypes : T \in Kinds
  /\ FLAT_OBJECT \in Kinds
  /\ \A S, T \in Kinds : FlatComponents(S) \cup T \in Kinds
<1>1. \A T \in Types \cup VariableTypes : T \in Kinds
  BY DEF Kinds
<1>2. FLAT_OBJECT \in Kinds
  BY DEF Kinds, FLAT_OBJECT
<1>3. \A S, T \in Kinds : FlatComponents(S) \cup T \in Kinds
  BY DEF Kinds, FlatComponents
<1> QED BY <1>1, <1>2, <1>3

LEMMA SubtypeOfItself == \A T : FlatSubtype(T, T)
BY DEF FlatSubtype

LEMMA EmptyIsTyped == <<>> \in Seq(Kinds)
OBVIOUS

LEMMA ParameterAppends ==
  ASSUME NEW table, table \in [DOMAIN table -> Seq(Kinds)], NEW name \in DOMAIN table,
         NEW T \in Kinds
  PROVE  /\ WithParameter(table, name, T) \in [DOMAIN table -> Seq(Kinds)]
         /\ DOMAIN WithParameter(table, name, T) = DOMAIN table
         /\ \A x \in DOMAIN table : x # name => WithParameter(table, name, T)[x] = table[x]
         /\ WithParameter(table, name, T)[name] = Append(table[name], T)
<1>1. table[name] \in Seq(Kinds)
  OBVIOUS
<1>2. Append(table[name], T) \in Seq(Kinds)
  BY <1>1
<1> QED BY <1>2 DEF WithParameter

(* A longer list of parameters agrees where the shorter did, and at its end
   with a term of the type that was added. *)
LEMMA AppendAgrees ==
  ASSUME NEW s \in Seq(Kinds), NEW T \in Kinds
  PROVE  /\ Append(s, T) \in Seq(Kinds) /\ Len(Append(s, T)) = Len(s) + 1
         /\ \A i \in 1 .. Len(s) : Append(s, T)[i] = s[i]
         /\ Append(s, T)[Len(s) + 1] = T
OBVIOUS

-----------------------------------------------------------------------------
(***************************************************************************)
(* What a step leaves as it is.                                            *)
(***************************************************************************)
ObjectsKept ==
  /\ \A o \in DOMAIN constants : o \in DOMAIN constants' /\ constants'[o] = constants[o]
  /\ part = "init" =>
       /\ part' = "init"
       /\ \A o \in DOMAIN objects : o \in DOMAIN objects' /\ objects'[o] = objects[o]

LEMMA TermsKept ==
  ASSUME ObjectsKept, ObjectsApart, ObjectsApart', NEW terms, Settled(terms)
  PROVE  /\ Settled(terms)'
         /\ \A i \in DOMAIN terms : TypeOfTerm(terms[i])' = TypeOfTerm(terms[i])
<1>1. ASSUME NEW o \in DOMAIN Objects, part # "init" => o \in DOMAIN constants
      PROVE  /\ o \in DOMAIN Objects' /\ Objects'[o] = Objects[o]
             /\ part' # "init" => o \in DOMAIN constants'
  <2>1. CASE part = "init"
    BY <1>1, <2>1 DEF ObjectsKept, ObjectsApart, Objects
  <2>2. CASE part # "init"
    BY <1>1, <2>2 DEF ObjectsKept, ObjectsApart, Objects
  <2> QED BY <2>1, <2>2
<1>2. ASSUME NEW i \in DOMAIN terms
      PROVE  /\ terms[i].object => terms[i].name \in DOMAIN Objects'
                                    /\ (part' # "init" => terms[i].name \in DOMAIN constants')
             /\ TypeOfTerm(terms[i])' = TypeOfTerm(terms[i])
  <2>1. CASE terms[i].object
    <3>1. /\ terms[i].name \in DOMAIN Objects
          /\ part # "init" => terms[i].name \in DOMAIN constants
      BY <2>1, <1>2 DEF Settled
    <3>2. /\ terms[i].name \in DOMAIN Objects' /\ Objects'[terms[i].name] = Objects[terms[i].name]
          /\ part' # "init" => terms[i].name \in DOMAIN constants'
      BY <1>1, <3>1
    <3> QED BY <2>1, <3>2 DEF TypeOfTerm
  <2>2. CASE ~terms[i].object
    BY <2>2 DEF TypeOfTerm
  <2> QED BY <2>1, <2>2
<1> QED BY <1>2 DEF Settled

ParametersKept ==
  /\ DOMAIN predicates \subseteq DOMAIN predicates'
  /\ DOMAIN functions \subseteq DOMAIN functions'
  /\ \A b \in built :
       IF b.table = "predicate" THEN predicates'[b.name] = predicates[b.name]
       ELSE functions'[b.name] = functions[b.name]

(* What was built stays right if neither changes.                          *)
LEMMA BuiltKept ==
  ASSUME SymbolsSound, ObjectsApart', ObjectsKept, ParametersKept, success' => success
  PROVE  /\ built' = built => BuiltTyped' /\ BuiltAgrees'
         /\ \A b \in built :
              /\ b.table \in {"predicate", "function"} /\ b.terms \in Seq(Terms)
              /\ b.table = "predicate" => b.name \in DOMAIN predicates'
              /\ b.table = "function" => b.name \in DOMAIN functions'
              /\ Settled(b.terms)'
              /\ success' => Len(b.terms) = Len(ParametersOf(b)')
                             /\ Agrees(b.terms, ParametersOf(b))'
<1>1. ASSUME NEW b \in built
      PROVE  /\ b.table \in {"predicate", "function"} /\ b.terms \in Seq(Terms)
             /\ b.table = "predicate" => b.name \in DOMAIN predicates'
             /\ b.table = "function" => b.name \in DOMAIN functions'
             /\ Settled(b.terms)'
             /\ success' => Len(b.terms) = Len(ParametersOf(b)')
                            /\ Agrees(b.terms, ParametersOf(b))'
  <2>1. /\ b.table \in {"predicate", "function"} /\ b.terms \in Seq(Terms)
        /\ b.table = "predicate" => b.name \in DOMAIN predicates
        /\ b.table = "function" => b.name \in DOMAIN functions
        /\ Settled(b.terms)
    BY DEF SymbolsSound, BuiltTyped
  <2>2. /\ Settled(b.terms)'
        /\ \A i \in DOMAIN b.terms : TypeOfTerm(b.terms[i])' = TypeOfTerm(b.terms[i])
    BY <2>1, TermsKept DEF SymbolsSound
  <2>3. ParametersOf(b)' = ParametersOf(b)
    BY DEF ParametersKept, ParametersOf
  <2>4. success' => Len(b.terms) = Len(ParametersOf(b)) /\ Agrees(b.terms, ParametersOf(b))
    BY DEF SymbolsSound, BuiltAgrees
  <2>5. success' => Agrees(b.terms, ParametersOf(b))'
    BY <2>2, <2>3, <2>4 DEF Agrees
  <2> QED BY <2>1, <2>2, <2>3, <2>4, <2>5 DEF ParametersKept
<1>2. built' = built => BuiltTyped' /\ BuiltAgrees'
  BY <1>1 DEF BuiltTyped, BuiltAgrees
<1> QED BY <1>1, <1>2

-----------------------------------------------------------------------------
(***************************************************************************)
(* Declarations.                                                           *)
(***************************************************************************)
LEMMA NothingBuilt ==
  ASSUME built' = {}
  PROVE  BuiltTyped' /\ BuiltAgrees'
BY DEF BuiltTyped, BuiltAgrees

LEMMA NothingRead ==
  ASSUME ~Open'
  PROVE  Reading'
BY DEF Reading, Open

LEMMA NextPartSound ==
  ASSUME SymbolsSound, NextPart
  PROVE  SymbolsSound'
<1>1. /\ UNCHANGED <<tables, declaring, phrase, success, built>>
      /\ declaring = NotDeclaring /\ atom_predicate = NoName /\ fluent_function = NoName
      /\ \/ part = "domain" /\ part' = "actions"
         \/ part = "actions" /\ part' = "objects"
         \/ part = "objects" /\ part' = "init"
  BY DEF NextPart, Following
<1>2. TablesTyped'
  BY <1>1 DEF SymbolsSound, TablesTyped, tables
<1>3. ObjectsApart'
  BY <1>1 DEF SymbolsSound, ObjectsApart, tables
<1>4. Declaring'
  BY <1>1 DEF SymbolsSound, Declaring, tables
<1>5. Reading'
  BY <1>1, NothingRead DEF Open, phrase
<1>6. ObjectsKept /\ ParametersKept
  BY <1>1 DEF ObjectsKept, ParametersKept, tables
<1>7. BuiltTyped' /\ BuiltAgrees'
  BY <1>1, <1>3, <1>6, BuiltKept
<1> QED BY <1>2, <1>3, <1>4, <1>5, <1>7 DEF SymbolsSound

LEMMA MakePredicateSound ==
  ASSUME SymbolsSound, NEW p \in PredicateNames, MakePredicate(p)
  PROVE  SymbolsSound'
<1>1. /\ UNCHANGED <<part, functions, constants, objects, phrase, success, built>>
      /\ part = "domain" /\ predicates' = Adding(predicates, p, <<>>)
      /\ declaring'.table = "predicate" /\ declaring'.name = p
  BY DEF MakePredicate
<1>2. /\ predicates' \in [DOMAIN predicates \cup {p} -> Seq(Kinds)]
      /\ DOMAIN predicates' = DOMAIN predicates \cup {p}
  <2>1. predicates \in [DOMAIN predicates -> Seq(Kinds)]
    BY DEF SymbolsSound, TablesTyped
  <2> QED BY <1>1, <2>1, EmptyIsTyped DEF Adding
<1>3. TablesTyped'
  BY <1>1, <1>2 DEF SymbolsSound, TablesTyped
<1>4. ObjectsApart'
  BY <1>1 DEF SymbolsSound, ObjectsApart
<1>5. Declaring' /\ built' = {}
  BY <1>1, <1>2 DEF SymbolsSound, Declaring
<1>6. Reading'
  BY <1>1, NothingRead DEF SymbolsSound, Reading, Open, phrase
<1> QED BY <1>3, <1>4, <1>5, <1>6, NothingBuilt DEF SymbolsSound

LEMMA MakeFunctionSound ==
  ASSUME SymbolsSound, NEW f \in FunctionNames, MakeFunction(f)
  PROVE  SymbolsSound'
<1>1. /\ UNCHANGED <<part, predicates, constants, objects, phrase, success, built>>
      /\ part = "domain" /\ functions' = Adding(functions, f, <<>>)
      /\ declaring'.table = "function" /\ declaring'.name = f
  BY DEF MakeFunction
<1>2. /\ functions' \in [DOMAIN functions \cup {f} -> Seq(Kinds)]
      /\ DOMAIN functions' = DOMAIN functions \cup {f}
  <2>1. functions \in [DOMAIN functions -> Seq(Kinds)]
    BY DEF SymbolsSound, TablesTyped
  <2> QED BY <1>1, <2>1, EmptyIsTyped DEF Adding
<1>3. TablesTyped'
  BY <1>1, <1>2 DEF SymbolsSound, TablesTyped
<1>4. ObjectsApart'
  BY <1>1 DEF SymbolsSound, ObjectsApart
<1>5. Declaring' /\ built' = {}
  BY <1>1, <1>2 DEF SymbolsSound, Declaring
<1>6. Reading'
  BY <1>1, NothingRead DEF SymbolsSound, Reading, Open, phrase
<1> QED BY <1>3, <1>4, <1>5, <1>6, NothingBuilt DEF SymbolsSound

LEMMA AddParameterSound ==
  ASSUME SymbolsSound, NEW T \in Types, AddParameter(T)
  PROVE  SymbolsSound'
<1>1. /\ UNCHANGED <<part, constants, objects, declaring, phrase, success, built>>
      /\ part = "domain" /\ built = {}
      /\ declaring.table = "predicate" => declaring.name \in DOMAIN predicates
      /\ declaring.table = "function" => declaring.name \in DOMAIN functions
  BY DEF AddParameter, SymbolsSound, Declaring
<1>2. T \in Kinds
  BY KindsHold
<1>3. /\ predicates \in [DOMAIN predicates -> Seq(Kinds)]
      /\ functions \in [DOMAIN functions -> Seq(Kinds)]
  BY DEF SymbolsSound, TablesTyped
<1>4. /\ predicates' \in [DOMAIN predicates -> Seq(Kinds)]
      /\ DOMAIN predicates' = DOMAIN predicates
      /\ functions' \in [DOMAIN functions -> Seq(Kinds)]
      /\ DOMAIN functions' = DOMAIN functions
  <2>1. CASE declaring.repeated /\ UNCHANGED <<predicates, functions>>
    BY <1>3, <2>1
  <2>2. CASE /\ declaring.table = "predicate" /\ UNCHANGED functions
             /\ predicates' = WithParameter(predicates, declaring.name, T)
    BY <1>1, <1>2, <1>3, <2>2, ParameterAppends
  <2>3. CASE /\ declaring.table = "function" /\ UNCHANGED predicates
             /\ functions' = WithParameter(functions, declaring.name, T)
    BY <1>1, <1>2, <1>3, <2>3, ParameterAppends
  <2> QED BY <2>1, <2>2, <2>3 DEF AddParameter
<1>5. TablesTyped'
  BY <1>1, <1>4 DEF SymbolsSound, TablesTyped
<1>6. ObjectsApart'
  BY <1>1 DEF SymbolsSound, ObjectsApart
<1>7. Declaring'
  BY <1>1, <1>4 DEF SymbolsSound, Declaring
<1>8. Reading'
  BY <1>1, NothingRead DEF SymbolsSound, Reading, Open, phrase
<1> QED BY <1>1, <1>5, <1>6, <1>7, <1>8, NothingBuilt DEF SymbolsSound

LEMMA EndDeclarationSound ==
  ASSUME SymbolsSound, EndDeclaration
  PROVE  SymbolsSound'
<1>1. /\ UNCHANGED <<part, tables, phrase, success, built>>
      /\ declaring' = NotDeclaring /\ part = "domain" /\ built = {}
  BY DEF EndDeclaration, SymbolsSound, Declaring
<1>2. TablesTyped' /\ ObjectsApart' /\ Declaring'
  BY <1>1 DEF SymbolsSound, TablesTyped, ObjectsApart, Declaring, tables
<1>3. Reading'
  BY <1>1, NothingRead DEF SymbolsSound, Reading, Open, phrase
<1> QED BY <1>1, <1>2, <1>3, NothingBuilt DEF SymbolsSound

LEMMA DeclaredIsTyped ==
  ASSUME NEW table, table \in [DOMAIN table -> Kinds], NEW o, NEW T \in Kinds
  PROVE  /\ Declared(table, o, T) \in [DOMAIN table \cup {o} -> Kinds]
         /\ DOMAIN Declared(table, o, T) = DOMAIN table \cup {o}
<1>1. CASE o \in DOMAIN table
  <2>1. FlatComponents(table[o]) \cup T \in Kinds
    BY <1>1, KindsHold
  <2>2. DOMAIN table \cup {o} = DOMAIN table
    BY <1>1
  <2>3. Declared(table, o, T) = [table EXCEPT ![o] = FlatComponents(table[o]) \cup T]
    BY <1>1 DEF Declared
  <2> QED BY <2>1, <2>2, <2>3
<1>2. CASE o \notin DOMAIN table
  <2>1. Declared(table, o, T) = Adding(table, o, T)
    BY <1>2 DEF Declared
  <2> QED BY <1>2, <2>1 DEF Adding
<1> QED BY <1>1, <1>2

LEMMA DeclareConstantSound ==
  ASSUME SymbolsSound, NEW o \in ObjectNames, NEW T \in Types, DeclareConstant(o, T)
  PROVE  SymbolsSound'
<1>1. /\ UNCHANGED <<part, predicates, functions, objects, declaring, phrase, success, built>>
      /\ part = "domain" /\ built = {} /\ constants' = Declared(constants, o, T)
  BY DEF DeclareConstant, SymbolsSound, Declaring
<1>2. T \in Kinds /\ constants \in [DOMAIN constants -> Kinds]
  BY KindsHold DEF SymbolsSound, TablesTyped
<1>3. constants' \in [DOMAIN constants' -> Kinds]
  BY <1>1, <1>2, DeclaredIsTyped
<1>4. TablesTyped'
  BY <1>1, <1>3 DEF SymbolsSound, TablesTyped
<1>5. ObjectsApart' /\ Declaring'
  BY <1>1 DEF SymbolsSound, ObjectsApart, Declaring
<1>6. Reading'
  BY <1>1, NothingRead DEF SymbolsSound, Reading, Open, phrase
<1> QED BY <1>1, <1>4, <1>5, <1>6, NothingBuilt DEF SymbolsSound

LEMMA DeclareObjectSound ==
  ASSUME SymbolsSound, NEW o \in ObjectNames, NEW T \in Types, DeclareObject(o, T)
  PROVE  SymbolsSound'
<1>1. /\ UNCHANGED <<part, predicates, functions, constants, declaring, phrase, success,
                     built>>
      /\ part = "objects"
      /\ objects' = IF o \in DOMAIN constants THEN objects ELSE Declared(objects, o, T)
  BY DEF DeclareObject
<1>2. T \in Kinds /\ objects \in [DOMAIN objects -> Kinds]
  BY KindsHold DEF SymbolsSound, TablesTyped
<1>3. /\ objects' \in [DOMAIN objects' -> Kinds]
      /\ \A x \in DOMAIN objects' : x \notin DOMAIN constants
  <2>1. CASE o \in DOMAIN constants
    BY <1>1, <1>2, <2>1 DEF SymbolsSound, ObjectsApart
  <2>2. CASE o \notin DOMAIN constants
    <3>1. /\ objects' \in [DOMAIN objects \cup {o} -> Kinds]
          /\ DOMAIN objects' = DOMAIN objects \cup {o}
      BY <1>1, <1>2, <2>2, DeclaredIsTyped
    <3> QED BY <2>2, <3>1 DEF SymbolsSound, ObjectsApart
  <2> QED BY <2>1, <2>2
<1>4. TablesTyped'
  BY <1>1, <1>3 DEF SymbolsSound, TablesTyped
<1>5. ObjectsApart' /\ Declaring'
  BY <1>1, <1>3 DEF SymbolsSound, ObjectsApart, Declaring
<1>6. Reading'
  BY <1>1, NothingRead DEF SymbolsSound, Reading, Open, phrase
<1>7. ObjectsKept /\ ParametersKept
  BY <1>1 DEF ObjectsKept, ParametersKept
<1>8. BuiltTyped' /\ BuiltAgrees'
  BY <1>1, <1>5, <1>7, BuiltKept
<1> QED BY <1>4, <1>5, <1>6, <1>8 DEF SymbolsSound

-----------------------------------------------------------------------------
(***************************************************************************)
(* Atoms and fluents.                                                      *)
(***************************************************************************)
LEMMA NoTerms ==
  /\ <<>> \in Seq(Terms) /\ Len(<<>>) = 0
  /\ Settled(<<>>)' /\ \A parameters : Agrees(<<>>, parameters)'
BY DEF Settled, Agrees

LEMMA PrepareAtomSound ==
  ASSUME SymbolsSound, NEW p \in PredicateNames, PrepareAtom(p)
  PROVE  SymbolsSound'
<1>1. /\ UNCHANGED <<part, functions, constants, objects, declaring, fluent_function,
                     undeclared_fluent_function, success, built>>
      /\ part \in {"actions", "init"} /\ fluent_function = NoName
      /\ predicates' = Adding(predicates, p, <<>>) /\ term_parameters' = <<>>
      /\ atom_predicate' = p /\ p # NoName
  BY SymbolsAssumption DEF PrepareAtom, Idle, InPhrase, NoName
<1>2. undeclared_atom_predicate' = (p \notin DOMAIN predicates)
  BY DEF PrepareAtom
<1>3. /\ predicates' \in [DOMAIN predicates \cup {p} -> Seq(Kinds)]
      /\ DOMAIN predicates' = DOMAIN predicates \cup {p}
      /\ \A x \in DOMAIN predicates : predicates'[x] = predicates[x]
      /\ p \notin DOMAIN predicates => predicates'[p] = <<>>
  <2>1. predicates \in [DOMAIN predicates -> Seq(Kinds)]
    BY DEF SymbolsSound, TablesTyped
  <2> QED BY <1>1, <2>1, EmptyIsTyped DEF Adding
<1>4. TablesTyped'
  BY <1>1, <1>3 DEF SymbolsSound, TablesTyped
<1>5. ObjectsApart' /\ Declaring'
  BY <1>1 DEF SymbolsSound, ObjectsApart, Declaring
<1>6. ObjectsKept /\ ParametersKept
  BY <1>1, <1>3 DEF SymbolsSound, BuiltTyped, ObjectsKept, ParametersKept
<1>7. BuiltTyped' /\ BuiltAgrees'
  BY <1>1, <1>5, <1>6, BuiltKept
<1>8. Expected' = predicates'[p] /\ OpenSymbol' = [table |-> "predicate", name |-> p]
  BY <1>1 DEF Expected, OpenSymbol
<1>9. Undeclared' => p \notin DOMAIN predicates
  BY <1>1, <1>2 DEF Undeclared
<1>10. Reading'
  <2>1. /\ (part \in {"domain", "objects"} => ~Open)'
        /\ (atom_predicate # NoName => fluent_function = NoName)'
        /\ (atom_predicate # NoName => atom_predicate \in DOMAIN predicates)'
        /\ (fluent_function # NoName => fluent_function \in DOMAIN functions)'
    BY <1>1, <1>3
  <2>2. Undeclared' => Len(term_parameters') = Len(Expected')
    BY <1>1, <1>3, <1>8, <1>9
  <2>3. Undeclared' => \A b \in built' : b.table # OpenSymbol'.table \/ b.name # OpenSymbol'.name
    BY <1>1, <1>8, <1>9 DEF SymbolsSound, BuiltTyped
  <2>4. term_parameters' \in Seq(Terms) /\ Settled(term_parameters)'
        /\ Agrees(term_parameters, Expected)'
    BY <1>1, NoTerms DEF Settled, Agrees
  <2> QED BY <2>1, <2>2, <2>3, <2>4 DEF Reading
<1> QED BY <1>4, <1>5, <1>7, <1>10 DEF SymbolsSound

LEMMA PrepareFluentSound ==
  ASSUME SymbolsSound, NEW f \in FunctionNames, PrepareFluent(f)
  PROVE  SymbolsSound'
<1>1. /\ UNCHANGED <<part, predicates, constants, objects, declaring, atom_predicate,
                     undeclared_atom_predicate, success, built>>
      /\ part \in {"actions", "init"} /\ atom_predicate = NoName
      /\ functions' = Adding(functions, f, <<>>) /\ term_parameters' = <<>>
      /\ fluent_function' = f /\ f # NoName
  BY SymbolsAssumption DEF PrepareFluent, Idle, InPhrase, NoName
<1>2. undeclared_fluent_function' = (f \notin DOMAIN functions)
  BY DEF PrepareFluent
<1>3. /\ functions' \in [DOMAIN functions \cup {f} -> Seq(Kinds)]
      /\ DOMAIN functions' = DOMAIN functions \cup {f}
      /\ \A x \in DOMAIN functions : functions'[x] = functions[x]
      /\ f \notin DOMAIN functions => functions'[f] = <<>>
  <2>1. functions \in [DOMAIN functions -> Seq(Kinds)]
    BY DEF SymbolsSound, TablesTyped
  <2> QED BY <1>1, <2>1, EmptyIsTyped DEF Adding
<1>4. TablesTyped'
  BY <1>1, <1>3 DEF SymbolsSound, TablesTyped
<1>5. ObjectsApart' /\ Declaring'
  BY <1>1 DEF SymbolsSound, ObjectsApart, Declaring
<1>6. ObjectsKept /\ ParametersKept
  BY <1>1, <1>3 DEF SymbolsSound, BuiltTyped, ObjectsKept, ParametersKept
<1>7. BuiltTyped' /\ BuiltAgrees'
  BY <1>1, <1>5, <1>6, BuiltKept
<1>8. Expected' = functions'[f] /\ OpenSymbol' = [table |-> "function", name |-> f]
  BY <1>1 DEF Expected, OpenSymbol
<1>9. Undeclared' => f \notin DOMAIN functions
  BY <1>1, <1>2 DEF Undeclared
<1>10. Reading'
  <2>1. /\ (part \in {"domain", "objects"} => ~Open)'
        /\ (atom_predicate # NoName => fluent_function = NoName)'
        /\ (atom_predicate # NoName => atom_predicate \in DOMAIN predicates)'
        /\ (fluent_function # NoName => fluent_function \in DOMAIN functions)'
    BY <1>1, <1>3
  <2>2. Undeclared' => Len(term_parameters') = Len(Expected')
    BY <1>1, <1>3, <1>8, <1>9
  <2>3. Undeclared' => \A b \in built' : b.table # OpenSymbol'.table \/ b.name # OpenSymbol'.name
    BY <1>1, <1>8, <1>9 DEF SymbolsSound, BuiltTyped
  <2>4. term_parameters' \in Seq(Terms) /\ Settled(term_parameters)'
        /\ Agrees(term_parameters, Expected)'
    BY <1>1, NoTerms DEF Settled, Agrees
  <2> QED BY <2>1, <2>2, <2>3, <2>4 DEF Reading
<1> QED BY <1>4, <1>5, <1>7, <1>10 DEF SymbolsSound

(* The symbol that is being read has parameters, and is in no table twice. *)
LEMMA ExpectedIsTyped ==
  ASSUME SymbolsSound, Open
  PROVE  Expected \in Seq(Kinds) /\ part \in {"actions", "init"}
BY DEF SymbolsSound, TablesTyped, Reading, Open, Expected

LEMMA ImplicitIsKind ==
  ASSUME SymbolsSound, Open
  PROVE  ImplicitType \in Kinds
<1>1. Expected \in Seq(Kinds) /\ term_parameters \in Seq(Terms)
  BY ExpectedIsTyped DEF SymbolsSound, Reading
<1>2. Position \in Nat /\ Position >= 1
  BY <1>1 DEF Position
<1>3. Position <= Len(Expected) => Expected[Position] \in Kinds
  BY <1>1, <1>2
<1> QED BY <1>3, KindsHold DEF ImplicitType

IsTermOf(t, T) ==
  /\ t \in Terms /\ T \in Kinds /\ TypeOfTerm(t)' = T
  /\ t.object => t.name \in DOMAIN Objects' /\ (part' # "init" => t.name \in DOMAIN constants')

ObjectsTyped ==
  constants \in [DOMAIN constants -> Kinds] /\ objects \in [DOMAIN objects -> Kinds]

(* An object that the tables do not have is added to one of them.          *)
LEMMA ImplicitAdded ==
  ASSUME SymbolsSound, Open, part' = part, NEW o \in ObjectNames, AddImplicit(o)
  PROVE  /\ ObjectsKept /\ ObjectsApart' /\ ObjectsTyped'
         /\ IsTermOf(Object(o), IF o \in DOMAIN Known THEN Known[o] ELSE ImplicitType)
<1>1. /\ ImplicitType \in Kinds /\ part \in {"actions", "init"}
      /\ constants \in [DOMAIN constants -> Kinds] /\ objects \in [DOMAIN objects -> Kinds]
      /\ \A x \in DOMAIN objects : x \notin DOMAIN constants
      /\ part = "actions" => DOMAIN objects = {}
  BY ImplicitIsKind, ExpectedIsTyped DEF SymbolsSound, TablesTyped, ObjectsApart
<1>2. /\ Object(o) \in Terms /\ Object(o).object /\ Object(o).name = o
      /\ TypeOfTerm(Object(o))' = Objects'[o]
  BY DEF Object, Terms, Kinds, TypeOfTerm
<1>3. CASE o \in DOMAIN Known
  <2>1. UNCHANGED <<constants, objects>>
    BY <1>3 DEF AddImplicit
  <2>2. ObjectsKept /\ ObjectsApart' /\ ObjectsTyped'
    BY <1>1, <2>1 DEF ObjectsKept, ObjectsApart, ObjectsTyped
  <2>3. /\ o \in DOMAIN Objects' /\ Objects'[o] = Known[o] /\ Known[o] \in Kinds
        /\ part # "init" => o \in DOMAIN constants'
    BY <1>1, <1>3, <2>1 DEF Known, Objects
  <2> QED BY <1>2, <1>3, <2>2, <2>3 DEF IsTermOf
<1>4. CASE o \notin DOMAIN Known /\ part = "init"
  <2>1. /\ objects' = Adding(objects, o, ImplicitType) /\ UNCHANGED constants
        /\ o \notin DOMAIN objects /\ o \notin DOMAIN constants
    BY <1>4 DEF AddImplicit, Known, Objects
  <2>2. /\ objects' \in [DOMAIN objects \cup {o} -> Kinds]
        /\ DOMAIN objects' = DOMAIN objects \cup {o}
        /\ \A x \in DOMAIN objects : objects'[x] = objects[x]
        /\ objects'[o] = ImplicitType
    BY <1>1, <2>1 DEF Adding
  <2>3. ObjectsKept /\ ObjectsApart' /\ ObjectsTyped'
    BY <1>1, <1>4, <2>1, <2>2 DEF ObjectsKept, ObjectsApart, ObjectsTyped
  <2>4. o \in DOMAIN Objects' /\ Objects'[o] = ImplicitType
    BY <2>2 DEF Objects
  <2> QED BY <1>1, <1>2, <1>4, <2>3, <2>4 DEF IsTermOf
<1>5. CASE o \notin DOMAIN Known /\ part = "actions"
  <2>1. /\ constants' = Adding(constants, o, ImplicitType) /\ UNCHANGED objects
        /\ o \notin DOMAIN constants /\ DOMAIN objects = {}
    BY <1>1, <1>5 DEF AddImplicit, Known
  <2>2. /\ constants' \in [DOMAIN constants \cup {o} -> Kinds]
        /\ DOMAIN constants' = DOMAIN constants \cup {o}
        /\ \A x \in DOMAIN constants : constants'[x] = constants[x]
        /\ constants'[o] = ImplicitType
    BY <1>1, <2>1 DEF Adding
  <2>3. ObjectsKept /\ ObjectsApart' /\ ObjectsTyped'
    BY <1>1, <1>5, <2>1, <2>2 DEF ObjectsKept, ObjectsApart, ObjectsTyped
  <2>4. o \in DOMAIN Objects' /\ Objects'[o] = ImplicitType /\ o \in DOMAIN constants'
    BY <2>1, <2>2 DEF Objects
  <2> QED BY <1>1, <1>2, <1>5, <2>3, <2>4 DEF IsTermOf
<1> QED BY <1>1, <1>3, <1>4, <1>5

LEMMA TermAdded ==
  ASSUME SymbolsSound, AddTerm
  PROVE  /\ Open /\ ObjectsKept /\ ObjectsApart' /\ ObjectsTyped'
         /\ \E t, T : AddTyped(t, T) /\ IsTermOf(t, T)
<1>1. Open
  BY DEF AddTerm, Open
<1>2. ASSUME NEW o \in ObjectNames, AddImplicit(o),
             AddTyped(Object(o), IF o \in DOMAIN Known THEN Known[o] ELSE ImplicitType)
      PROVE  /\ ObjectsKept /\ ObjectsApart' /\ ObjectsTyped'
             /\ \E t, T : AddTyped(t, T) /\ IsTermOf(t, T)
  <2>1. part' = part
    BY <1>2 DEF AddTyped
  <2>2. /\ ObjectsKept /\ ObjectsApart' /\ ObjectsTyped'
        /\ IsTermOf(Object(o), IF o \in DOMAIN Known THEN Known[o] ELSE ImplicitType)
    BY <1>1, <1>2, <2>1, ImplicitAdded
  <2> QED BY <1>2, <2>2
<1>3. ASSUME NEW T \in VariableTypes, AddTyped(Variable(T), T), UNCHANGED <<constants, objects>>
      PROVE  /\ ObjectsKept /\ ObjectsApart' /\ ObjectsTyped'
             /\ \E t, S : AddTyped(t, S) /\ IsTermOf(t, S)
  <2>1. part' = part
    BY <1>3 DEF AddTyped
  <2>2. ObjectsKept /\ ObjectsApart' /\ ObjectsTyped'
    BY <1>3, <2>1 DEF SymbolsSound, TablesTyped, ObjectsKept, ObjectsApart, ObjectsTyped
  <2>3. IsTermOf(Variable(T), T)
    BY KindsHold DEF IsTermOf, Variable, Terms, TypeOfTerm
  <2> QED BY <1>3, <2>2, <2>3
<1> QED BY <1>1, <1>2, <1>3 DEF AddTerm

(* A parameter joins the symbol that is being read, or the term is compared
   with the one that there is. *)
LEMMA ParameterAdded ==
  ASSUME SymbolsSound, Open, NEW t, NEW T \in Kinds, AddTyped(t, T)
  PROVE  /\ predicates' \in [DOMAIN predicates -> Seq(Kinds)] /\ DOMAIN predicates' = DOMAIN predicates
         /\ functions' \in [DOMAIN functions -> Seq(Kinds)] /\ DOMAIN functions' = DOMAIN functions
         /\ ParametersKept
         /\ \/ Undeclared /\ Expected' = Append(Expected, T) /\ success' = success
            \/ /\ ~Undeclared /\ Expected' = Expected
               /\ success' => success /\ (Position <= Len(Expected)
                                             => FlatSubtype(T, Expected[Position]))
<1>1. /\ predicates \in [DOMAIN predicates -> Seq(Kinds)]
      /\ functions \in [DOMAIN functions -> Seq(Kinds)]
      /\ atom_predicate # NoName => fluent_function = NoName
      /\ atom_predicate # NoName => atom_predicate \in DOMAIN predicates
      /\ fluent_function # NoName => fluent_function \in DOMAIN functions
      /\ Undeclared => \A b \in built : b.table # OpenSymbol.table \/ b.name # OpenSymbol.name
      /\ \A b \in built : b.table \in {"predicate", "function"}
      /\ UNCHANGED <<atom_predicate, fluent_function>>
  BY DEF SymbolsSound, TablesTyped, Reading, BuiltTyped, AddTyped
<1>2. CASE /\ atom_predicate # NoName /\ undeclared_atom_predicate
           /\ predicates' = WithParameter(predicates, atom_predicate, T)
           /\ UNCHANGED <<functions, success>>
  <2>1. /\ predicates' \in [DOMAIN predicates -> Seq(Kinds)]
        /\ DOMAIN predicates' = DOMAIN predicates
        /\ \A x \in DOMAIN predicates : x # atom_predicate => predicates'[x] = predicates[x]
        /\ predicates'[atom_predicate] = Append(predicates[atom_predicate], T)
    BY <1>1, <1>2, ParameterAppends
  <2>2. Undeclared /\ OpenSymbol = [table |-> "predicate", name |-> atom_predicate]
    BY <1>2 DEF Undeclared, OpenSymbol
  <2>3. \A b \in built : b.table = "predicate" => b.name # atom_predicate /\ b.name \in DOMAIN predicates
    BY <1>1, <2>2 DEF SymbolsSound, BuiltTyped
  <2>4. ParametersKept
    BY <1>2, <2>1, <2>3 DEF ParametersKept
  <2>5. Expected' = Append(Expected, T)
    BY <1>1, <1>2, <2>1 DEF Expected
  <2> QED BY <1>1, <1>2, <2>1, <2>2, <2>4, <2>5
<1>3. CASE /\ fluent_function # NoName /\ undeclared_fluent_function
           /\ functions' = WithParameter(functions, fluent_function, T)
           /\ UNCHANGED <<predicates, success>>
  <2>0. atom_predicate = NoName
    BY <1>1, <1>3
  <2>1. /\ functions' \in [DOMAIN functions -> Seq(Kinds)]
        /\ DOMAIN functions' = DOMAIN functions
        /\ \A x \in DOMAIN functions : x # fluent_function => functions'[x] = functions[x]
        /\ functions'[fluent_function] = Append(functions[fluent_function], T)
    BY <1>1, <1>3, ParameterAppends
  <2>2. Undeclared /\ OpenSymbol = [table |-> "function", name |-> fluent_function]
    BY <1>3, <2>0 DEF Undeclared, OpenSymbol
  <2>3. \A b \in built : b.table # "predicate" => b.name # fluent_function /\ b.name \in DOMAIN functions
    BY <1>1, <2>2 DEF SymbolsSound, BuiltTyped
  <2>4. ParametersKept
    BY <1>3, <2>1, <2>3 DEF ParametersKept
  <2>5. Expected' = Append(Expected, T)
    BY <1>1, <1>3, <2>0, <2>1 DEF Expected
  <2> QED BY <1>1, <1>3, <2>1, <2>2, <2>4, <2>5
<1>4. CASE /\ IF atom_predicate # NoName THEN ~undeclared_atom_predicate
              ELSE ~undeclared_fluent_function
           /\ success' = (success /\ (Position <= Len(Expected)
                                         => FlatSubtype(T, Expected[Position])))
           /\ UNCHANGED <<predicates, functions>>
  <2>1. ~Undeclared
    BY <1>4 DEF Undeclared
  <2>2. Expected' = Expected /\ ParametersKept
    BY <1>1, <1>4 DEF Expected, ParametersKept
  <2>3. success' => success /\ (Position <= Len(Expected)
                                    => FlatSubtype(T, Expected[Position]))
    BY <1>4
  <2> QED BY <1>1, <1>4, <2>1, <2>2, <2>3
<1> QED BY <1>2, <1>3, <1>4 DEF AddTyped

LEMMA AddTermSound ==
  ASSUME SymbolsSound, AddTerm
  PROVE  SymbolsSound'
<1>1. /\ Open /\ ObjectsKept /\ ObjectsApart' /\ ObjectsTyped'
      /\ \E t, T : AddTyped(t, T) /\ IsTermOf(t, T)
  BY TermAdded
<1>2. PICK t, T : AddTyped(t, T) /\ IsTermOf(t, T)
  BY <1>1
<1>3. /\ UNCHANGED <<part, declaring, atom_predicate, fluent_function, built>>
      /\ UNCHANGED <<undeclared_atom_predicate, undeclared_fluent_function>>
      /\ term_parameters' = Append(term_parameters, t)
      /\ t \in Terms /\ T \in Kinds /\ TypeOfTerm(t)' = T
      /\ t.object => t.name \in DOMAIN Objects' /\ (part' # "init" => t.name \in DOMAIN constants')
  BY <1>2 DEF AddTyped, IsTermOf
<1>4. /\ predicates' \in [DOMAIN predicates -> Seq(Kinds)] /\ DOMAIN predicates' = DOMAIN predicates
      /\ functions' \in [DOMAIN functions -> Seq(Kinds)] /\ DOMAIN functions' = DOMAIN functions
      /\ ParametersKept
      /\ \/ Undeclared /\ Expected' = Append(Expected, T) /\ success' = success
         \/ /\ ~Undeclared /\ Expected' = Expected
            /\ success' => success /\ (Position <= Len(Expected)
                                          => FlatSubtype(T, Expected[Position]))
  BY <1>1, <1>2, <1>3, ParameterAdded
<1>5. TablesTyped'
  BY <1>1, <1>3, <1>4 DEF SymbolsSound, TablesTyped, ObjectsTyped
<1>6. Declaring'
  BY <1>3, <1>4 DEF SymbolsSound, Declaring
<1>7. BuiltTyped' /\ BuiltAgrees'
  BY <1>1, <1>3, <1>4, BuiltKept
<1>8. /\ Expected \in Seq(Kinds) /\ term_parameters \in Seq(Terms)
      /\ Settled(term_parameters)
      /\ Undeclared => Len(term_parameters) = Len(Expected)
      /\ Undeclared => \A b \in built : b.table # OpenSymbol.table \/ b.name # OpenSymbol.name
      /\ success => Agrees(term_parameters, Expected)
  BY <1>1, ExpectedIsTyped DEF SymbolsSound, Reading
<1>9. /\ term_parameters' \in Seq(Terms) /\ Len(term_parameters') = Len(term_parameters) + 1
      /\ DOMAIN term_parameters' = 1 .. Len(term_parameters) + 1
      /\ DOMAIN term_parameters = 1 .. Len(term_parameters)
      /\ \A i \in DOMAIN term_parameters : term_parameters'[i] = term_parameters[i]
      /\ term_parameters'[Len(term_parameters) + 1] = t
      /\ Len(term_parameters) \in Nat
  BY <1>3, <1>8
<1> PICK now : now = term_parameters'
  OBVIOUS
<1>10. /\ Settled(term_parameters)'
       /\ \A i \in DOMAIN term_parameters :
            TypeOfTerm(now[i])' = TypeOfTerm(term_parameters[i])
  <2>1. ASSUME NEW terms, terms = term_parameters
        PROVE  Settled(terms)' /\ \A i \in DOMAIN terms : TypeOfTerm(terms[i])' = TypeOfTerm(terms[i])
    <3>1. Settled(terms)
      BY <1>8, <2>1
    <3> QED BY <1>1, <3>1, TermsKept DEF SymbolsSound
  <2>2. PICK terms : terms = term_parameters
    OBVIOUS
  <2>3. /\ \A i \in DOMAIN terms : TypeOfTerm(terms[i])' = TypeOfTerm(terms[i])
        /\ \A i \in DOMAIN terms :
             terms[i].object =>
               /\ terms[i].name \in DOMAIN Objects'
               /\ part' # "init" => terms[i].name \in DOMAIN constants'
    BY <2>1, <2>2 DEF Settled
  <2>4. \A i \in DOMAIN term_parameters' : i \in DOMAIN terms \/ i = Len(term_parameters) + 1
    BY <1>9, <2>2
  <2>5. \A i \in DOMAIN term_parameters' :
          term_parameters'[i].object =>
            /\ term_parameters'[i].name \in DOMAIN Objects'
            /\ part' # "init" => term_parameters'[i].name \in DOMAIN constants'
    BY <1>3, <1>9, <2>2, <2>3, <2>4
  <2>6. \A i \in DOMAIN term_parameters :
          TypeOfTerm(now[i])' = TypeOfTerm(term_parameters[i])
    <3>1. \A i \in DOMAIN term_parameters : now[i] = terms[i]
      BY <1>9, <2>2
    <3>2. \A i \in DOMAIN terms : TypeOfTerm(terms[i])' = TypeOfTerm(terms[i])
      BY <2>3
    <3> QED BY <2>2, <3>1, <3>2
  <2> QED BY <2>5, <2>6 DEF Settled
<1> PICK last : last = Len(term_parameters) + 1
  OBVIOUS
<1>11. TypeOfTerm(now[last])' = T
  <2>1. now[last] = t
    BY <1>9
  <2> QED BY <1>3, <2>1
<1>12. Undeclared' <=> Undeclared
  BY <1>3 DEF Undeclared
<1>13. OpenSymbol' = OpenSymbol
  BY <1>3 DEF OpenSymbol
<1>14. Undeclared' => Len(term_parameters') = Len(Expected')
  BY <1>4, <1>8, <1>9, <1>12
<1>15. success' => Agrees(term_parameters, Expected)'
  <2>1. CASE Undeclared
    <3>1. /\ Expected' = Append(Expected, T) /\ success' = success
          /\ Len(Expected) = Len(term_parameters)
      BY <1>4, <1>8, <2>1
    <3>2. /\ Len(Expected') = Len(Expected) + 1
          /\ \A i \in 1 .. Len(Expected) : Expected'[i] = Expected[i]
          /\ Expected'[Len(term_parameters) + 1] = T
      BY <1>3, <1>8, <3>1, AppendAgrees
    <3>3. FlatSubtype(T, T)
      BY SubtypeOfItself
    <3>4. ASSUME success', NEW i \in DOMAIN term_parameters', i <= Len(Expected')
          PROVE  FlatSubtype(TypeOfTerm(now[i])', Expected'[i])
      <4>1. CASE i \in DOMAIN term_parameters
        <5>1. /\ Expected'[i] = Expected[i] /\ i <= Len(Expected)
              /\ TypeOfTerm(now[i])' = TypeOfTerm(term_parameters[i])
          BY <1>9, <1>10, <3>1, <3>2, <4>1
        <5>2. Agrees(term_parameters, Expected)
          BY <1>8, <3>1, <3>4
        <5> QED BY <4>1, <5>1, <5>2 DEF Agrees
      <4>2. CASE i = last
        BY <1>11, <3>2, <3>3, <4>2
      <4> QED BY <1>9, <3>4, <4>1, <4>2
    <3> QED BY <3>4 DEF Agrees, TypeOfTerm
  <2>2. CASE ~Undeclared
    <3>1. /\ Expected' = Expected
          /\ success' => success
          /\ success' => (Position <= Len(Expected) => FlatSubtype(T, Expected[Position]))
      BY <1>4, <2>2
    <3>2. ASSUME success', NEW i \in DOMAIN term_parameters', i <= Len(Expected')
          PROVE  FlatSubtype(TypeOfTerm(now[i])', Expected'[i])
      <4>1. CASE i \in DOMAIN term_parameters
        <5>1. TypeOfTerm(now[i])' = TypeOfTerm(term_parameters[i])
          BY <1>10, <4>1
        <5>2. Agrees(term_parameters, Expected)
          BY <1>8, <3>1, <3>2
        <5> QED BY <3>1, <3>2, <4>1, <5>1, <5>2 DEF Agrees
      <4>2. CASE i = last
        BY <1>11, <3>1, <3>2, <4>2 DEF Position
      <4> QED BY <1>9, <3>2, <4>1, <4>2
    <3> QED BY <3>2 DEF Agrees, TypeOfTerm
  <2> QED BY <2>1, <2>2
<1>16. Reading'
  <2>1. /\ (part \in {"domain", "objects"} => ~Open)'
        /\ (atom_predicate # NoName => fluent_function = NoName)'
        /\ (atom_predicate # NoName => atom_predicate \in DOMAIN predicates)'
        /\ (fluent_function # NoName => fluent_function \in DOMAIN functions)'
    BY <1>3, <1>4 DEF SymbolsSound, Reading, Open
  <2>2. Undeclared' => \A b \in built' : b.table # OpenSymbol'.table \/ b.name # OpenSymbol'.name
    BY <1>3, <1>8, <1>12, <1>13
  <2> QED BY <1>9, <1>10, <1>14, <1>15, <2>1, <2>2 DEF Reading
<1> QED BY <1>1, <1>5, <1>6, <1>7, <1>16 DEF SymbolsSound

(* The atom or fluent that was read joins those that agree.                *)
LEMMA MakeSound ==
  ASSUME SymbolsSound, Open, NEW b, b.terms = term_parameters,
         b.table = OpenSymbol.table, b.name = OpenSymbol.name,
         UNCHANGED <<part, tables, declaring>>, ~Open',
         success' = (success /\ Len(term_parameters) = Len(Expected)),
         built' = built \cup {b}
  PROVE  SymbolsSound'
<1>1. TablesTyped' /\ ObjectsApart'
  BY DEF SymbolsSound, TablesTyped, ObjectsApart, tables
<1>2. part \in {"actions", "init"} /\ Declaring'
  BY ExpectedIsTyped DEF SymbolsSound, Declaring, tables
<1>3. Reading'
  BY NothingRead
<1>4. ObjectsKept /\ ParametersKept /\ (success' => success)
  BY DEF ObjectsKept, ParametersKept, tables
<1>5. /\ term_parameters \in Seq(Terms) /\ Settled(term_parameters)
      /\ success => Agrees(term_parameters, Expected)
      /\ atom_predicate # NoName => atom_predicate \in DOMAIN predicates
      /\ fluent_function # NoName => fluent_function \in DOMAIN functions
  BY DEF SymbolsSound, Reading
<1>6. /\ b.table \in {"predicate", "function"} /\ b.terms \in Seq(Terms)
      /\ b.table = "predicate" => b.name \in DOMAIN predicates'
      /\ b.table = "function" => b.name \in DOMAIN functions'
      /\ ParametersOf(b)' = Expected
  BY <1>5 DEF OpenSymbol, Open, ParametersOf, Expected, tables
<1>7. Settled(b.terms) /\ (success => Agrees(b.terms, Expected))
  BY <1>5
<1>8. /\ Settled(b.terms)'
      /\ \A i \in DOMAIN b.terms : TypeOfTerm(b.terms[i])' = TypeOfTerm(b.terms[i])
  BY <1>1, <1>4, <1>7, TermsKept DEF SymbolsSound
<1>9. success' => Len(b.terms) = Len(ParametersOf(b)') /\ Agrees(b.terms, ParametersOf(b))'
  <2>1. success' => Agrees(b.terms, ParametersOf(b))'
    BY <1>4, <1>6, <1>7, <1>8 DEF Agrees
  <2>2. success' => Len(b.terms) = Len(ParametersOf(b)')
    BY <1>6
  <2> QED BY <2>1, <2>2
<1>10. \A a \in built :
         /\ a.table \in {"predicate", "function"} /\ a.terms \in Seq(Terms)
         /\ a.table = "predicate" => a.name \in DOMAIN predicates'
         /\ a.table = "function" => a.name \in DOMAIN functions'
         /\ Settled(a.terms)'
         /\ success' => Len(a.terms) = Len(ParametersOf(a)')
                        /\ Agrees(a.terms, ParametersOf(a))'
  BY <1>1, <1>4, BuiltKept
<1>11. BuiltTyped'
  BY <1>6, <1>8, <1>10 DEF BuiltTyped
<1>12. BuiltAgrees'
  BY <1>9, <1>10 DEF BuiltAgrees
<1> QED BY <1>1, <1>2, <1>3, <1>11, <1>12 DEF SymbolsSound

LEMMA MakeAtomSound ==
  ASSUME SymbolsSound, MakeAtom
  PROVE  SymbolsSound'
<1>1. Open /\ ~Open' /\ UNCHANGED <<part, tables, declaring>>
  BY DEF MakeAtom, Open, SymbolsSound, Reading
<1>2. PICK b : b = [table |-> "predicate", name |-> atom_predicate, terms |-> term_parameters]
  OBVIOUS
<1>3. /\ b.terms = term_parameters /\ b.table = OpenSymbol.table /\ b.name = OpenSymbol.name
      /\ success' = (success /\ Len(term_parameters) = Len(Expected))
      /\ built' = built \cup {b}
  BY <1>2 DEF MakeAtom, OpenSymbol
<1> QED BY <1>1, <1>3, MakeSound

LEMMA MakeFluentSound ==
  ASSUME SymbolsSound, MakeFluent
  PROVE  SymbolsSound'
<1>1. Open /\ ~Open' /\ atom_predicate = NoName /\ UNCHANGED <<part, tables, declaring>>
  BY DEF MakeFluent, Open, SymbolsSound, Reading
<1>2. PICK b : b = [table |-> "function", name |-> fluent_function, terms |-> term_parameters]
  OBVIOUS
<1>3. /\ b.terms = term_parameters /\ b.table = OpenSymbol.table /\ b.name = OpenSymbol.name
      /\ success' = (success /\ Len(term_parameters) = Len(Expected))
      /\ built' = built \cup {b}
  BY <1>1, <1>2 DEF MakeFluent, OpenSymbol
<1> QED BY <1>1, <1>3, MakeSound

-----------------------------------------------------------------------------
LEMMA SymbolInitSound ==
  ASSUME SymbolInit
  PROVE  SymbolsSound
BY DEF SymbolInit, SymbolsSound, TablesTyped, ObjectsApart, Declaring, Reading, Open,
       BuiltTyped, BuiltAgrees, Empty

LEMMA SymbolStepSound ==
  ASSUME SymbolsSound, [SymbolNext]_symbolVars
  PROVE  SymbolsSound'
<1>1. CASE UNCHANGED symbolVars
  BY <1>1 DEF symbolVars, tables, phrase, SymbolsSound, TablesTyped, ObjectsApart, Declaring,
              Reading, Open, Undeclared, OpenSymbol, Settled, Objects, Agrees, TypeOfTerm,
              Expected, BuiltTyped, BuiltAgrees, ParametersOf
<1>2. CASE SymbolNext
  BY <1>2, NextPartSound, MakePredicateSound, PrepareAtomSound, MakeFunctionSound,
     PrepareFluentSound, AddParameterSound, DeclareConstantSound, DeclareObjectSound,
     EndDeclarationSound, AddTermSound, MakeAtomSound, MakeFluentSound
     DEF SymbolNext
<1> QED BY <1>1, <1>2

LEMMA SoundIsWellFormed ==
  ASSUME SymbolsSound
  PROVE  WellFormed
<1>1. ASSUME success, NEW b \in built
      PROVE  /\ Len(b.terms) = Len(ParametersOf(b))
             /\ \A i \in DOMAIN b.terms : FlatSubtype(TypeOfTerm(b.terms[i]), ParametersOf(b)[i])
  <2>1. b.terms \in Seq(Terms)
    BY DEF SymbolsSound, BuiltTyped
  <2>2. Len(b.terms) = Len(ParametersOf(b)) /\ Agrees(b.terms, ParametersOf(b))
    BY <1>1 DEF SymbolsSound, BuiltAgrees
  <2>3. \A i \in DOMAIN b.terms : i <= Len(ParametersOf(b))
    BY <2>1, <2>2
  <2> QED BY <2>2, <2>3 DEF Agrees
<1> QED BY <1>1 DEF WellFormed

(* Every atom and fluent that the parser built without reporting an error
   agrees with the declaration that its symbol has in the end, in the number
   of its terms and in their types: whether the symbol was declared, declared
   twice or declared by this use, and whether its objects were, in the table
   of the domain or of the problem.  (PredicateTable::find, add_term,
   make_atom, make_fluent.) *)
THEOREM BuiltIsWellFormed == SymbolSpec => []WellFormed
<1>1. SymbolInit => SymbolsSound
  BY SymbolInitSound
<1>2. SymbolsSound /\ [SymbolNext]_symbolVars => SymbolsSound'
  BY SymbolStepSound
<1>3. SymbolsSound => WellFormed
  BY SoundIsWellFormed
<1> QED BY <1>1, <1>2, <1>3, PTL DEF SymbolSpec

-----------------------------------------------------------------------------
(***************************************************************************)
(* Domains.  Numbers of functions are never used twice, so that a flag in  *)
(* static_functions_ is about one function of one domain; a function that  *)
(* an action changes stays dynamic, except the reward where a problem      *)
(* requires :rewards.  That problem cannot give it a value that            *)
(* instantiation could put in; a later problem of the domain can when the  *)
(* domain does not require :rewards itself, and to no other function.      *)
(***************************************************************************)
AllNames == Names \cup Reserved
TablesOfFunctions == UNION {[S -> Nat] : S \in SUBSET AllNames}
DomainRecords ==
  [name : DomainNames, alive : BOOLEAN, rewards : BOOLEAN, table : TablesOfFunctions,
   updates : SUBSET Nat, reads : SUBSET Nat]
ProblemRecords ==
  [name : ProblemNames, alive : BOOLEAN, domain : Nat, rewards : BOOLEAN,
   initialised : SUBSET Nat, values : SUBSET Nat, effects : SUBSET Nat,
   metric : Nat, goal_reward : Nat, resolved : SUBSET Nat, ready : BOOLEAN]

RecordsTyped ==
  /\ domains \in Seq(DomainRecords) /\ problems \in Seq(ProblemRecords)
  /\ size \in Nat /\ static_functions_ \subseteq 1 .. size /\ reward_function \in Nat

(* A number is that of one function of one domain.                         *)
Numbered ==
  /\ \A j \in DOMAIN domains :
       /\ Reserved \subseteq DOMAIN domains[j].table
       /\ \A f \in DOMAIN domains[j].table : domains[j].table[f] \in 1 .. size
       /\ domains[j].rewards => "reward" \in DOMAIN domains[j].table
       /\ \A f, g \in DOMAIN domains[j].table :
            domains[j].table[f] = domains[j].table[g] => f = g
       /\ \A x \in domains[j].updates : \E f \in DOMAIN domains[j].table : x = domains[j].table[f]
  /\ \A j, m \in DOMAIN domains :
       \A f \in DOMAIN domains[j].table, g \in DOMAIN domains[m].table :
         domains[j].table[f] = domains[m].table[g] => j = m

(* What actions change is dynamic, or a reward that a problem required.    *)
Scored(j) == \E i \in DOMAIN problems : problems[i].domain = j /\ problems[i].rewards
UpdatesDynamic ==
  \A j \in DOMAIN domains :
    \A x \in domains[j].updates \cap static_functions_ :
      /\ Scored(j)
      /\ "reward" \in DOMAIN domains[j].table /\ x = domains[j].table["reward"]

(* What a problem counts on of its domain, and what starts at zero.        *)
Refers(i) ==
  /\ problems[i].domain \in DOMAIN domains
  /\ domains[problems[i].domain].table["total-time"] \in problems[i].initialised
  /\ domains[problems[i].domain].table["goal-achieved"] \in problems[i].initialised
  /\ domains[problems[i].domain].rewards =>
       domains[problems[i].domain].table["reward"] \in problems[i].initialised
  /\ problems[i].rewards => "reward" \in DOMAIN domains[problems[i].domain].table
ProblemsRefer == \A i \in DOMAIN problems : Refers(i)

InDomain ==
  stage \in {"domain", "functions", "actions"} =>
    /\ domain \in DOMAIN domains
    /\ \A i \in DOMAIN problems : problems[i].domain # domain
    /\ stage = "domain" => Current.updates = {}

InProblem ==
  stage \in {"problem", "init"} =>
    /\ problems # <<>> /\ Problem.domain = domain /\ ~Problem.ready
    /\ Current.rewards => Problem.rewards
    /\ Problem.rewards =>
         /\ reward_function = Current.table["reward"]
         /\ Current.table["reward"] \notin Problem.values
    /\ Problem.effects \subseteq 1 .. size
    /\ Problem.effects \cap static_functions_ = {}
    /\ stage = "problem" => Problem.effects = {} /\ Problem.values = {}

Stands(i) ==
  problems[i].ready =>
    /\ problems[i].resolved \cap domains[problems[i].domain].updates \subseteq MadeStatic(i)
    /\ problems[i].resolved \cap problems[i].effects = {}
    /\ domains[problems[i].domain].rewards =>
         /\ problems[i].goal_reward \in
              {NoFunction, domains[problems[i].domain].table["reward"]}
         /\ problems[i].metric # domains[problems[i].domain].table["reward"]
              => problems[i].metric \in problems[i].initialised
ReadyStand == \A i \in DOMAIN problems : Stands(i)

DomainsSound ==
  RecordsTyped /\ Numbered /\ UpdatesDynamic /\ ProblemsRefer /\ InDomain /\ InProblem
  /\ ReadyStand

(* After an error, or an exception, nothing is promised.                   *)
DomainsInv == correct /\ stage # "threw" => DomainsSound

-----------------------------------------------------------------------------
(***************************************************************************)
(* Tables that grow.                                                       *)
(***************************************************************************)
LEMMA TableExtended ==
  ASSUME RecordsTyped, Numbered, domain \in DOMAIN domains, NEW name \in Names
  PROVE  /\ WithFunction(name) \in DomainRecords
         /\ WithFunction(name).updates = Current.updates
         /\ WithFunction(name).rewards = Current.rewards
         /\ DOMAIN WithFunction(name).table = DOMAIN Current.table \cup {name}
         /\ \A f \in DOMAIN Current.table : WithFunction(name).table[f] = Current.table[f]
         /\ WithFunction(name).table[name] = Added(name)
         /\ Added(name) \in 1 .. (size + 1)
         /\ name \notin DOMAIN Current.table => Added(name) = size + 1
<1>1. size \in Nat /\ Current \in DomainRecords
  BY DEF RecordsTyped, Current
<1>2. PICK S \in SUBSET AllNames : Current.table \in [S -> Nat]
  BY <1>1 DEF DomainRecords, TablesOfFunctions
<1> DEFINE T == [f \in DOMAIN Current.table \cup {name} |->
                   IF f \in DOMAIN Current.table THEN Current.table[f] ELSE size + 1]
<1>3. WithFunction(name) = [Current EXCEPT !.table = T]
  BY <1>1 DEF WithFunction, DomainRecords
<1>4. /\ DOMAIN T = DOMAIN Current.table \cup {name}
      /\ \A f \in DOMAIN Current.table : T[f] = Current.table[f]
      /\ T[name] = Added(name)
      /\ name \notin DOMAIN Current.table => Added(name) = size + 1
  BY DEF Added
<1>5. T \in TablesOfFunctions
  <2>1. S \cup {name} \in SUBSET AllNames
    BY DEF AllNames
  <2>2. T \in [S \cup {name} -> Nat]
    BY <1>1, <1>2
  <2> QED BY <2>1, <2>2 DEF TablesOfFunctions
<1>6. Added(name) \in 1 .. (size + 1)
  <2>1. name \in DOMAIN Current.table => Current.table[name] \in 1 .. size
    BY DEF Numbered, Current
  <2> QED BY <1>1, <2>1 DEF Added
<1> HIDE DEF T
<1>7. /\ WithFunction(name) \in DomainRecords /\ WithFunction(name).table = T
      /\ WithFunction(name).updates = Current.updates
      /\ WithFunction(name).rewards = Current.rewards
  BY <1>1, <1>3, <1>5 DEF DomainRecords
<1> QED BY <1>4, <1>6, <1>7

(* The domain that is being read gets a function, and nothing is lost.     *)
Grows(name, r) ==
  /\ r \in DomainRecords
  /\ DOMAIN r.table = DOMAIN Current.table \cup {name}
  /\ \A f \in DOMAIN Current.table : r.table[f] = Current.table[f]
  /\ r.table[name] = Added(name)
  /\ Added(name) \in 1 .. size'
  /\ name \notin DOMAIN Current.table => Added(name) = size + 1
  /\ size' \in {size, size + 1}
  /\ r.rewards => Current.rewards \/ name = "reward"
  /\ r.updates \subseteq Current.updates \cup {Added(name)}
  /\ domains' = [domains EXCEPT ![domain] = r]

LEMMA GrownIsNumbered ==
  ASSUME RecordsTyped, Numbered, domain \in DOMAIN domains, NEW name \in Names, NEW r,
         Grows(name, r)
  PROVE  /\ domains' \in Seq(DomainRecords) /\ DOMAIN domains' = DOMAIN domains
         /\ Len(domains') = Len(domains) /\ size' \in Nat /\ domains'[domain] = r
         /\ \A j \in DOMAIN domains : j # domain => domains'[j] = domains[j]
         /\ Numbered'
<1>1. /\ domains' \in Seq(DomainRecords) /\ DOMAIN domains' = DOMAIN domains
      /\ Len(domains') = Len(domains) /\ size' \in Nat /\ domains'[domain] = r
      /\ \A j \in DOMAIN domains : j # domain => domains'[j] = domains[j]
      /\ size \in Nat /\ size <= size'
  BY DEF RecordsTyped, Grows
<1>2. /\ DOMAIN r.table = DOMAIN Current.table \cup {name}
      /\ \A f \in DOMAIN Current.table : r.table[f] = Current.table[f]
      /\ r.table[name] = Added(name) /\ Added(name) \in 1 .. size'
      /\ name \notin DOMAIN Current.table => Added(name) = size + 1
      /\ r.rewards => Current.rewards \/ name = "reward"
      /\ r.updates \subseteq Current.updates \cup {Added(name)}
  BY DEF Grows
<1>3. /\ Reserved \subseteq DOMAIN Current.table
      /\ \A f \in DOMAIN Current.table : Current.table[f] \in 1 .. size
      /\ Current.rewards => "reward" \in DOMAIN Current.table
      /\ \A f, g \in DOMAIN Current.table : Current.table[f] = Current.table[g] => f = g
      /\ \A x \in Current.updates : \E f \in DOMAIN Current.table : x = Current.table[f]
  BY DEF Numbered, Current
<1>4. \A f \in DOMAIN r.table : r.table[f] \in 1 .. size'
  BY <1>1, <1>2, <1>3
<1>5. \A f, g \in DOMAIN r.table : r.table[f] = r.table[g] => f = g
  <2>1. CASE name \in DOMAIN Current.table
    BY <1>2, <1>3, <2>1
  <2>2. CASE name \notin DOMAIN Current.table
    <3>1. r.table[name] = size + 1 /\ \A f \in DOMAIN Current.table : r.table[f] # size + 1
      BY <1>1, <1>2, <1>3, <2>2
    <3> QED BY <1>2, <1>3, <2>2, <3>1
  <2> QED BY <2>1, <2>2
<1>6. \A x \in r.updates : \E f \in DOMAIN r.table : x = r.table[f]
  BY <1>2, <1>3
<1>7. \A j \in DOMAIN domains, f \in DOMAIN r.table :
        \A g \in DOMAIN domains[j].table : r.table[f] = domains[j].table[g] => j = domain
  <2>1. ASSUME NEW j \in DOMAIN domains, NEW f \in DOMAIN r.table,
               NEW g \in DOMAIN domains[j].table, r.table[f] = domains[j].table[g]
        PROVE  j = domain
    <3>1. CASE f \in DOMAIN Current.table
      BY <1>2, <2>1, <3>1 DEF Numbered, Current
    <3>2. CASE f \notin DOMAIN Current.table
      <4>1. r.table[f] = size + 1
        BY <1>2, <2>1, <3>2
      <4>2. domains[j].table[g] \in 1 .. size
        BY <2>1 DEF Numbered
      <4> QED BY <1>1, <2>1, <4>1, <4>2
    <3> QED BY <3>1, <3>2
  <2> QED BY <2>1
<1>8. \A j \in DOMAIN domains' :
        /\ Reserved \subseteq DOMAIN domains'[j].table
        /\ \A f \in DOMAIN domains'[j].table : domains'[j].table[f] \in 1 .. size'
        /\ domains'[j].rewards => "reward" \in DOMAIN domains'[j].table
        /\ \A f, g \in DOMAIN domains'[j].table :
             domains'[j].table[f] = domains'[j].table[g] => f = g
        /\ \A x \in domains'[j].updates : \E f \in DOMAIN domains'[j].table : x = domains'[j].table[f]
  <2>1. ASSUME NEW j \in DOMAIN domains
        PROVE  /\ Reserved \subseteq DOMAIN domains'[j].table
               /\ \A f \in DOMAIN domains'[j].table : domains'[j].table[f] \in 1 .. size'
               /\ domains'[j].rewards => "reward" \in DOMAIN domains'[j].table
               /\ \A f, g \in DOMAIN domains'[j].table :
                    domains'[j].table[f] = domains'[j].table[g] => f = g
               /\ \A x \in domains'[j].updates : \E f \in DOMAIN domains'[j].table : x = domains'[j].table[f]
    <3>1. CASE j = domain
      BY <1>1, <1>2, <1>3, <1>4, <1>5, <1>6, <3>1
    <3>2. CASE j # domain
      <4>1. /\ Reserved \subseteq DOMAIN domains[j].table
            /\ \A f \in DOMAIN domains[j].table : domains[j].table[f] \in 1 .. size
            /\ domains[j].rewards => "reward" \in DOMAIN domains[j].table
            /\ \A f, g \in DOMAIN domains[j].table :
                 domains[j].table[f] = domains[j].table[g] => f = g
            /\ \A x \in domains[j].updates : \E f \in DOMAIN domains[j].table : x = domains[j].table[f]
        BY DEF Numbered
      <4> QED BY <1>1, <3>2, <4>1
    <3> QED BY <3>1, <3>2
  <2> QED BY <1>1, <2>1
<1>9. \A j, m \in DOMAIN domains' :
        \A f \in DOMAIN domains'[j].table, g \in DOMAIN domains'[m].table :
          domains'[j].table[f] = domains'[m].table[g] => j = m
  <2>1. ASSUME NEW j \in DOMAIN domains, NEW m \in DOMAIN domains,
               NEW f \in DOMAIN domains'[j].table, NEW g \in DOMAIN domains'[m].table,
               domains'[j].table[f] = domains'[m].table[g]
        PROVE  j = m
    <3>1. CASE j = domain /\ m # domain
      BY <1>1, <1>7, <2>1, <3>1
    <3>2. CASE j # domain /\ m = domain
      BY <1>1, <1>7, <2>1, <3>2
    <3>3. CASE j # domain /\ m # domain
      BY <1>1, <2>1, <3>3 DEF Numbered
    <3> QED BY <3>1, <3>2, <3>3
  <2> QED BY <1>1, <2>1
<1> QED BY <1>1, <1>8, <1>9 DEF Numbered

(* No problem is lost, nor that it is scored by the reward.                *)
Retained ==
  \A i \in DOMAIN problems :
    /\ i \in DOMAIN problems' /\ problems'[i].domain = problems[i].domain
    /\ problems[i].rewards => problems'[i].rewards

(* What joins the static functions, if anything does, is new, or changed by
   no action, or the reward that a problem of the domain has required. *)
WillBeScored(j) ==
  \E i \in DOMAIN problems' : problems'[i].domain = j /\ problems'[i].rewards
Dynamic(name, r) ==
  /\ static_functions_' \subseteq static_functions_ \cup {Added(name)}
  /\ \/ static_functions_' \cap {Added(name)} = {}
     \/ /\ r.updates = Current.updates
        /\ \/ name \notin DOMAIN Current.table
           \/ name = "reward" /\ WillBeScored(domain)
           \/ Current.updates = {}
           \/ static_functions_' \subseteq static_functions_

LEMMA GrownIsDynamic ==
  ASSUME RecordsTyped, Numbered, UpdatesDynamic, domain \in DOMAIN domains,
         NEW name \in Names, NEW r, Grows(name, r), Dynamic(name, r), Retained
  PROVE  UpdatesDynamic' /\ static_functions_' \subseteq 1 .. size'
<1>1. /\ DOMAIN domains' = DOMAIN domains /\ domains'[domain] = r
      /\ \A j \in DOMAIN domains : j # domain => domains'[j] = domains[j]
  BY GrownIsNumbered
<1>2. /\ DOMAIN r.table = DOMAIN Current.table \cup {name}
      /\ \A f \in DOMAIN Current.table : r.table[f] = Current.table[f]
      /\ r.table[name] = Added(name) /\ Added(name) \in 1 .. size'
      /\ name \notin DOMAIN Current.table => Added(name) = size + 1
      /\ name \in DOMAIN Current.table => Added(name) = Current.table[name]
      /\ r.updates \subseteq Current.updates \cup {Added(name)}
      /\ size \in Nat /\ size <= size' /\ size' \in Nat
  BY DEF Grows, Added, RecordsTyped
<1>3. static_functions_' \subseteq 1 .. size'
  BY <1>2 DEF RecordsTyped, Dynamic
<1>4. ASSUME NEW j \in DOMAIN domains, NEW x \in domains[j].updates, x = Added(name)
      PROVE  j = domain /\ name \in DOMAIN Current.table
  <2>1. PICK f \in DOMAIN domains[j].table : x = domains[j].table[f]
    BY DEF Numbered
  <2>2. x \in 1 .. size
    BY <2>1 DEF Numbered
  <2>3. name \in DOMAIN Current.table
    BY <1>2, <1>4, <2>2
  <2>4. domains[domain].table[name] = domains[j].table[f] /\ name \in DOMAIN domains[domain].table
    BY <1>2, <1>4, <2>1, <2>3 DEF Current
  <2> QED BY <2>1, <2>3, <2>4 DEF Numbered
<1>5. ASSUME NEW j \in DOMAIN domains, NEW x \in domains'[j].updates \cap static_functions_'
      PROVE  /\ WillBeScored(j) /\ "reward" \in DOMAIN domains'[j].table
             /\ x = domains'[j].table["reward"]
  <2>1. CASE j # domain
    <3>1. domains'[j] = domains[j] /\ x \in domains[j].updates
      BY <1>1, <1>5, <2>1
    <3>2. x # Added(name)
      BY <1>4, <2>1, <3>1
    <3>3. x \in domains[j].updates \cap static_functions_
      BY <1>5, <3>1, <3>2 DEF Dynamic
    <3>4. Scored(j) /\ "reward" \in DOMAIN domains[j].table /\ x = domains[j].table["reward"]
      BY <3>3 DEF UpdatesDynamic
    <3> QED BY <3>1, <3>4 DEF Scored, WillBeScored, Retained
  <2>2. CASE j = domain
    <3>1. x \in r.updates /\ x \in static_functions_'
      BY <1>1, <1>5, <2>2
    <3>2. CASE x \in Current.updates /\ x \in static_functions_
      <4>1. /\ Scored(domain) /\ x = Current.table["reward"]
            /\ "reward" \in DOMAIN Current.table
        BY <3>2 DEF UpdatesDynamic, Current
      <4>2. WillBeScored(domain)
        BY <4>1 DEF Scored, WillBeScored, Retained
      <4> QED BY <1>1, <1>2, <2>2, <4>1, <4>2
    <3>3. CASE x = Added(name) /\ x \notin static_functions_
      <4>1. r.updates = Current.updates
        BY <3>1, <3>3 DEF Dynamic
      <4>2. name \in DOMAIN Current.table /\ x \in Current.updates
        BY <1>4, <3>1, <3>3, <4>1 DEF Current
      <4>3. name = "reward" /\ WillBeScored(domain)
        BY <3>1, <3>3, <4>2 DEF Dynamic
      <4> QED BY <1>1, <1>2, <2>2, <3>3, <4>2, <4>3
    <3>4. x \notin static_functions_ => x = Added(name)
      BY <3>1 DEF Dynamic
    <3>5. x \in static_functions_ => x \in Current.updates
      BY <1>2, <3>1 DEF Dynamic
    <3> QED BY <3>2, <3>3, <3>4, <3>5
  <2> QED BY <2>1, <2>2
<1> QED BY <1>1, <1>3, <1>5 DEF UpdatesDynamic, Scored, WillBeScored

-----------------------------------------------------------------------------
(***************************************************************************)
(* What problems count on.                                                 *)
(***************************************************************************)
KeepsDomain(d) ==
  /\ d \in DOMAIN domains'
  /\ domains'[d].rewards = domains[d].rewards /\ domains'[d].updates = domains[d].updates
  /\ \A f \in DOMAIN domains[d].table :
       f \in DOMAIN domains'[d].table /\ domains'[d].table[f] = domains[d].table[f]

KeepsProblem(i) ==
  /\ problems'[i].domain = problems[i].domain
  /\ problems'[i].initialised = problems[i].initialised
  /\ problems'[i].rewards =>
       problems[i].rewards \/ "reward" \in DOMAIN domains'[problems[i].domain].table

KeepsReady(i) ==
  problems'[i].ready =>
    /\ problems[i].ready
    /\ problems'[i].resolved = problems[i].resolved /\ problems'[i].effects = problems[i].effects
    /\ problems'[i].goal_reward = problems[i].goal_reward
    /\ problems'[i].metric = problems[i].metric

LEMMA MadeStaticKept ==
  ASSUME RecordsTyped, ProblemsRefer, Retained, NEW i \in DOMAIN problems,
         KeepsDomain(problems[i].domain)
  PROVE  MadeStatic(i) \subseteq MadeStatic(i)'
<1>1. PICK d : d = problems[i].domain
  OBVIOUS
<1>2. SUFFICES ASSUME NEW x \in MadeStatic(i)
               PROVE  x \in MadeStatic(i)'
  OBVIOUS
<1>3. /\ \E j \in 1 .. i - 1 : problems[j].domain = d /\ RequiresAlone(j)
      /\ x = domains[d].table["reward"]
  BY <1>1 DEF MadeStatic
<1>4. PICK j \in 1 .. i - 1 : problems[j].domain = d /\ RequiresAlone(j)
  BY <1>3
<1>5. j \in DOMAIN problems
  BY <1>4 DEF RecordsTyped
<1>6. /\ problems[j].rewards /\ ~domains[d].rewards
      /\ "reward" \in DOMAIN domains[d].table
  BY <1>4, <1>5 DEF RequiresAlone, ProblemsRefer, Refers
<1>7. problems'[j].domain = d /\ problems'[j].rewards /\ problems'[i].domain = d
  BY <1>1, <1>4, <1>5, <1>6 DEF Retained
<1>8. ~domains'[d].rewards /\ x = domains'[d].table["reward"]
  BY <1>1, <1>3, <1>6 DEF KeepsDomain
<1> QED BY <1>4, <1>7, <1>8 DEF MadeStatic, RequiresAlone

LEMMA ProblemKept ==
  ASSUME RecordsTyped, Numbered, ProblemsRefer, ReadyStand, Retained,
         NEW i \in DOMAIN problems, KeepsDomain(problems[i].domain), KeepsProblem(i)
  PROVE  Refers(i)' /\ (KeepsReady(i) => Stands(i)')
<1>1. PICK d : d = problems[i].domain
  OBVIOUS
<1>2. /\ d \in DOMAIN domains /\ Refers(i) /\ Stands(i) /\ problems'[i].domain = d
      /\ problems'[i].initialised = problems[i].initialised
  BY <1>1 DEF ProblemsRefer, ReadyStand, Refers, KeepsProblem
<1>3. /\ "total-time" \in DOMAIN domains[d].table /\ "goal-achieved" \in DOMAIN domains[d].table
      /\ domains[d].rewards => "reward" \in DOMAIN domains[d].table
  BY <1>2 DEF Numbered, Reserved
<1>4. /\ d \in DOMAIN domains'
      /\ domains'[d].rewards = domains[d].rewards /\ domains'[d].updates = domains[d].updates
      /\ domains'[d].table["total-time"] = domains[d].table["total-time"]
      /\ domains'[d].table["goal-achieved"] = domains[d].table["goal-achieved"]
      /\ domains[d].rewards => domains'[d].table["reward"] = domains[d].table["reward"]
  BY <1>1, <1>3 DEF KeepsDomain
<1>5. Refers(i)'
  <2>1. problems'[i].rewards => "reward" \in DOMAIN domains'[d].table
    BY <1>1, <1>2 DEF Refers, KeepsProblem, KeepsDomain
  <2> QED BY <1>1, <1>2, <1>4, <2>1 DEF Refers
<1>6. KeepsReady(i) => Stands(i)'
  <2>1. MadeStatic(i) \subseteq MadeStatic(i)'
    BY MadeStaticKept
  <2> QED BY <1>1, <1>2, <1>4, <2>1 DEF Stands, KeepsReady
<1> QED BY <1>5, <1>6

LEMMA InDomainGrows ==
  ASSUME DomainsSound, stage \in {"domain", "functions", "actions"},
         NEW name \in Names, NEW r, Grows(name, r), Dynamic(name, r),
         UNCHANGED <<problems, domain>>, reward_function' \in Nat,
         stage' \in {"domain", "functions", "actions"}, stage' = "domain" => r.updates = {}
  PROVE  DomainsSound'
<1>1. /\ RecordsTyped /\ Numbered /\ UpdatesDynamic /\ ProblemsRefer /\ ReadyStand
      /\ domain \in DOMAIN domains /\ \A i \in DOMAIN problems : problems[i].domain # domain
  BY DEF DomainsSound, InDomain
<1>2. /\ domains' \in Seq(DomainRecords) /\ DOMAIN domains' = DOMAIN domains
      /\ size' \in Nat /\ domains'[domain] = r
      /\ \A j \in DOMAIN domains : j # domain => domains'[j] = domains[j]
      /\ Numbered'
  BY <1>1, GrownIsNumbered
<1> Retained
  BY DEF Retained
<1>3. UpdatesDynamic' /\ RecordsTyped'
  BY <1>1, <1>2, GrownIsDynamic DEF RecordsTyped
<1>4. ASSUME NEW i \in DOMAIN problems
      PROVE  Refers(i)' /\ Stands(i)'
  <2>1. problems[i].domain \in DOMAIN domains /\ problems[i].domain # domain
    BY <1>1 DEF ProblemsRefer, Refers
  <2>2. KeepsDomain(problems[i].domain) /\ KeepsProblem(i) /\ KeepsReady(i)
    BY <1>2, <2>1 DEF KeepsDomain, KeepsProblem, KeepsReady
  <2> QED BY <1>1, <2>2, ProblemKept
<1>5. ProblemsRefer' /\ ReadyStand'
  BY <1>4 DEF ProblemsRefer, ReadyStand
<1>6. InDomain' /\ InProblem'
  BY <1>1, <1>2 DEF InDomain, InProblem, Current
<1> QED BY <1>2, <1>3, <1>5, <1>6 DEF DomainsSound

(* The problem that is being read.                                         *)
Reads(q, r) ==
  /\ q \in ProblemRecords /\ q.domain = Problem.domain
  /\ q.initialised = Problem.initialised /\ ~q.ready
  /\ Problem.rewards \/ Current.rewards => q.rewards
  /\ q.rewards =>
       /\ "reward" \in DOMAIN r.table /\ reward_function' = r.table["reward"]
       /\ r.table["reward"] \notin q.values
  /\ q.effects \subseteq 1 .. size' /\ q.effects \cap static_functions_' = {}
  /\ stage' = "problem" => q.effects = {} /\ q.values = {}
  /\ problems' = [problems EXCEPT ![Len(problems)] = q]

LEMMA LastReplaced ==
  ASSUME problems \in Seq(ProblemRecords), problems # <<>>, NEW q \in ProblemRecords,
         problems' = [problems EXCEPT ![Len(problems)] = q]
  PROVE  /\ problems' \in Seq(ProblemRecords) /\ DOMAIN problems' = DOMAIN problems
         /\ Len(problems') = Len(problems) /\ Len(problems) \in DOMAIN problems
         /\ problems'[Len(problems)] = q /\ problems' # <<>>
         /\ \A i \in DOMAIN problems : i # Len(problems) => problems'[i] = problems[i]
OBVIOUS

LEMMA InProblemGrows ==
  ASSUME DomainsSound, stage \in {"problem", "init"},
         NEW name \in Names, NEW r, Grows(name, r), Dynamic(name, r),
         r.updates = Current.updates, r.rewards = Current.rewards,
         NEW q, Reads(q, r), domain' = domain, reward_function' \in Nat,
         stage' \in {"problem", "init"}
  PROVE  DomainsSound'
<1>1. /\ RecordsTyped /\ Numbered /\ UpdatesDynamic /\ ProblemsRefer /\ ReadyStand
      /\ problems # <<>> /\ Problem.domain = domain /\ ~Problem.ready
      /\ problems \in Seq(ProblemRecords)
  BY DEF DomainsSound, InProblem, RecordsTyped
<1>2. /\ problems' \in Seq(ProblemRecords) /\ DOMAIN problems' = DOMAIN problems
      /\ Len(problems') = Len(problems) /\ Len(problems) \in DOMAIN problems
      /\ problems'[Len(problems)] = q /\ problems' # <<>>
      /\ \A i \in DOMAIN problems : i # Len(problems) => problems'[i] = problems[i]
  BY <1>1, LastReplaced DEF Reads
<1>3. domain \in DOMAIN domains
  BY <1>1, <1>2 DEF ProblemsRefer, Refers, Problem
<1>4. /\ domains' \in Seq(DomainRecords) /\ DOMAIN domains' = DOMAIN domains
      /\ size' \in Nat /\ domains'[domain] = r
      /\ \A j \in DOMAIN domains : j # domain => domains'[j] = domains[j]
      /\ Numbered'
  BY <1>1, <1>3, GrownIsNumbered
<1> Retained
  BY <1>2 DEF Retained, Reads, Problem
<1>5. UpdatesDynamic' /\ RecordsTyped'
  BY <1>1, <1>2, <1>3, <1>4, GrownIsDynamic DEF RecordsTyped
<1>6. \A j \in DOMAIN domains : KeepsDomain(j)
  BY <1>4 DEF KeepsDomain, Grows, Current
<1>7. ASSUME NEW i \in DOMAIN problems
      PROVE  Refers(i)' /\ Stands(i)'
  <2>1. KeepsDomain(problems[i].domain)
    BY <1>1, <1>6 DEF ProblemsRefer, Refers
  <2>2. KeepsReady(i)
    BY <1>2 DEF KeepsReady, Reads
  <2>3. KeepsProblem(i)
    <3>1. CASE i = Len(problems)
      BY <1>1, <1>2, <1>4, <3>1 DEF KeepsProblem, Reads, Problem
    <3>2. CASE i # Len(problems)
      BY <1>2, <3>2 DEF KeepsProblem
    <3> QED BY <3>1, <3>2
  <2> QED BY <1>1, <2>1, <2>2, <2>3, ProblemKept
<1>8. ProblemsRefer' /\ ReadyStand'
  BY <1>2, <1>7 DEF ProblemsRefer, ReadyStand
<1>9. InDomain'
  BY DEF InDomain
<1>10. InProblem'
  <2>1. Current' = r /\ Problem' = q
    BY <1>2, <1>4 DEF Current, Problem
  <2> QED BY <1>1, <1>2, <2>1 DEF InProblem, Reads
<1> QED BY <1>4, <1>5, <1>8, <1>9, <1>10 DEF DomainsSound

-----------------------------------------------------------------------------
(***************************************************************************)
(* The actions of a domain and of a problem that name a function.          *)
(***************************************************************************)
LEMMA GrowsWith ==
  ASSUME RecordsTyped, Numbered, domain \in DOMAIN domains, NEW name \in Names,
         NEW r \in DomainRecords, r.table = WithFunction(name).table,
         r.rewards => Current.rewards \/ name = "reward",
         r.updates \subseteq Current.updates \cup {Added(name)},
         size' \in {size, size + 1}, name \notin DOMAIN Current.table => size' = size + 1,
         domains' = [domains EXCEPT ![domain] = r]
  PROVE  Grows(name, r)
<1>1. /\ DOMAIN r.table = DOMAIN Current.table \cup {name}
      /\ \A f \in DOMAIN Current.table : r.table[f] = Current.table[f]
      /\ r.table[name] = Added(name)
      /\ name \notin DOMAIN Current.table => Added(name) = size + 1
  BY TableExtended
<1>2. name \in DOMAIN Current.table => Added(name) \in 1 .. size
  BY DEF Added, Numbered, Current
<1>3. Added(name) \in 1 .. size'
  BY <1>1, <1>2 DEF RecordsTyped
<1> QED BY <1>1, <1>3 DEF Grows

LEMMA FoundOrAdded ==
  ASSUME NEW name, FindOrAdd(name)
  PROVE  /\ size' \in {size, size + 1} /\ (name \notin DOMAIN Current.table => size' = size + 1)
         /\ \/ static_functions_' = static_functions_
            \/ /\ name \notin DOMAIN Current.table
               /\ static_functions_' = static_functions_ \cup {size + 1}
BY DEF FindOrAdd, AddFunction, Added

(* A domain with other reads, updates or requirements.                     *)
LEMMA RewardsRequired ==
  ASSUME NEW r \in DomainRecords
  PROVE  LET s == [r EXCEPT !.rewards = TRUE]
         IN  /\ s \in DomainRecords /\ s.rewards
             /\ s.table = r.table /\ s.updates = r.updates
BY DEF DomainRecords

LEMMA ReadsJoined ==
  ASSUME NEW r \in DomainRecords, NEW x \in Nat
  PROVE  LET s == [r EXCEPT !.reads = @ \cup {x}]
         IN  /\ s \in DomainRecords /\ s.rewards = r.rewards
             /\ s.table = r.table /\ s.updates = r.updates
BY DEF DomainRecords

LEMMA UpdatesJoined ==
  ASSUME NEW r \in DomainRecords, NEW x \in Nat
  PROVE  LET s == [r EXCEPT !.updates = @ \cup {x}]
         IN  /\ s \in DomainRecords /\ s.rewards = r.rewards
             /\ s.table = r.table /\ s.updates = r.updates \cup {x}
BY DEF DomainRecords

LEMMA DeclareFunctionSound ==
  ASSUME DomainsSound, NEW name \in Names, DeclareFunction(name)
  PROVE  DomainsSound'
<1>1. /\ stage \in {"domain", "functions"} /\ name \notin DOMAIN Current.table
      /\ size' = size + 1 /\ static_functions_' = static_functions_ \cup {Added(name)}
      /\ domains' = [domains EXCEPT ![domain] = WithFunction(name)]
      /\ stage' = "functions" /\ UNCHANGED <<problems, domain, reward_function>>
  BY DEF DeclareFunction, AddFunction
<1>2. /\ RecordsTyped /\ Numbered /\ domain \in DOMAIN domains /\ reward_function' \in Nat
  BY <1>1 DEF DomainsSound, InDomain, RecordsTyped
<1> DEFINE r == WithFunction(name)
<1>3. r \in DomainRecords /\ r.updates = Current.updates /\ r.rewards = Current.rewards
  BY <1>2, TableExtended
<1>4. Grows(name, r)
  BY <1>1, <1>2, <1>3, GrowsWith
<1>5. Dynamic(name, r)
  BY <1>1, <1>3 DEF Dynamic
<1> HIDE DEF r
<1> QED BY <1>1, <1>2, <1>4, <1>5, InDomainGrows

LEMMA ConditionSound ==
  ASSUME DomainsSound, NEW name \in Names, Condition(name)
  PROVE  DomainsSound'
<1> DEFINE r == [WithFunction(name) EXCEPT !.reads = @ \cup {Added(name)}]
<1>1. /\ stage \in {"domain", "functions", "actions"}
      /\ domains' = [domains EXCEPT ![domain] = r]
      /\ stage' = "actions" /\ UNCHANGED <<problems, domain, reward_function>>
  BY DEF Condition
<1>2. /\ size' \in {size, size + 1} /\ (name \notin DOMAIN Current.table => size' = size + 1)
      /\ \/ static_functions_' = static_functions_
         \/ /\ name \notin DOMAIN Current.table
            /\ static_functions_' = static_functions_ \cup {size + 1}
  BY FoundOrAdded DEF Condition
<1>3. /\ RecordsTyped /\ Numbered /\ domain \in DOMAIN domains /\ reward_function' \in Nat
      /\ size \in Nat
  BY <1>1 DEF DomainsSound, InDomain, RecordsTyped
<1>4. /\ WithFunction(name) \in DomainRecords /\ Added(name) \in Nat
      /\ WithFunction(name).updates = Current.updates
      /\ WithFunction(name).rewards = Current.rewards
      /\ name \notin DOMAIN Current.table => Added(name) = size + 1
  BY <1>3, TableExtended
<1>5. /\ r \in DomainRecords /\ r.updates = Current.updates /\ r.rewards = Current.rewards
      /\ r.table = WithFunction(name).table
  BY <1>4, ReadsJoined
<1> HIDE DEF r
<1>6. Grows(name, r)
  BY <1>1, <1>2, <1>3, <1>5, GrowsWith
<1>7. Dynamic(name, r)
  BY <1>2, <1>4, <1>5 DEF Dynamic
<1> QED BY <1>1, <1>3, <1>5, <1>6, <1>7, InDomainGrows

LEMMA UpdateSound ==
  ASSUME DomainsSound, NEW name \in Names, NEW kind, Update(kind, name)
  PROVE  DomainsSound'
<1> DEFINE r == [WithFunction(name) EXCEPT !.updates = @ \cup {Added(name)}]
<1>1. /\ stage \in {"domain", "functions", "actions"}
      /\ domains' = [domains EXCEPT ![domain] = r]
      /\ static_functions_' = static_functions_ \ {Added(name)}
      /\ size' = IF name \in DOMAIN Current.table THEN size ELSE size + 1
      /\ stage' = "actions" /\ UNCHANGED <<problems, domain, reward_function>>
  BY DEF Update
<1>2. /\ RecordsTyped /\ Numbered /\ domain \in DOMAIN domains /\ reward_function' \in Nat
      /\ size \in Nat
  BY <1>1 DEF DomainsSound, InDomain, RecordsTyped
<1>3. /\ WithFunction(name) \in DomainRecords /\ Added(name) \in Nat
      /\ WithFunction(name).updates = Current.updates
      /\ WithFunction(name).rewards = Current.rewards
  BY <1>2, TableExtended
<1>4. /\ r \in DomainRecords /\ r.updates = Current.updates \cup {Added(name)}
      /\ r.rewards = Current.rewards /\ r.table = WithFunction(name).table
  BY <1>3, UpdatesJoined
<1> HIDE DEF r
<1>5. Grows(name, r)
  BY <1>1, <1>2, <1>4, GrowsWith
<1>6. Dynamic(name, r)
  BY <1>1, <1>4 DEF Dynamic
<1> QED BY <1>1, <1>2, <1>5, <1>6, InDomainGrows

LEMMA ProblemRead ==
  ASSUME DomainsSound, stage \in {"problem", "init"}
  PROVE  /\ RecordsTyped /\ Numbered /\ domain \in DOMAIN domains /\ reward_function \in Nat
         /\ Problem \in ProblemRecords /\ ~Problem.ready /\ Current \in DomainRecords
         /\ Current.rewards => Problem.rewards
         /\ Problem.rewards =>
              /\ reward_function = Current.table["reward"]
              /\ Current.table["reward"] \notin Problem.values
              /\ "reward" \in DOMAIN Current.table
         /\ Problem.effects \subseteq 1 .. size /\ Problem.effects \cap static_functions_ = {}
         /\ stage = "problem" => Problem.effects = {} /\ Problem.values = {}
         /\ problems \in Seq(ProblemRecords) /\ problems # <<>> /\ Problem.domain = domain
<1>1. /\ RecordsTyped /\ Numbered /\ ProblemsRefer /\ InProblem
      /\ problems \in Seq(ProblemRecords) /\ domains \in Seq(DomainRecords)
      /\ problems # <<>> /\ Problem.domain = domain
  BY DEF DomainsSound, InProblem, RecordsTyped
<1>2. Len(problems) \in DOMAIN problems
  BY <1>1
<1>3. domain \in DOMAIN domains
  BY <1>1, <1>2 DEF ProblemsRefer, Refers, Problem
<1>4. Problem \in ProblemRecords /\ Current \in DomainRecords
  BY <1>1, <1>2, <1>3 DEF Problem, Current
<1>5. Problem.rewards => "reward" \in DOMAIN Current.table
  BY <1>1, <1>2 DEF ProblemsRefer, Refers, Problem, Current
<1> QED BY <1>1, <1>3, <1>4, <1>5 DEF InProblem, RecordsTyped

(* A problem with other values, effects or requirements.                   *)
LEMMA ProblemRequires ==
  ASSUME NEW q \in ProblemRecords
  PROVE  LET s == [q EXCEPT !.rewards = TRUE]
         IN  /\ s \in ProblemRecords /\ s.rewards
             /\ s.values = q.values /\ s.effects = q.effects /\ s.domain = q.domain
             /\ s.initialised = q.initialised /\ s.ready = q.ready
BY DEF ProblemRecords

LEMMA ValuesJoined ==
  ASSUME NEW q \in ProblemRecords, NEW x \in Nat
  PROVE  LET s == [q EXCEPT !.values = @ \cup {x}]
         IN  /\ s \in ProblemRecords /\ s.rewards = q.rewards
             /\ s.values = q.values \cup {x} /\ s.effects = q.effects
             /\ s.domain = q.domain /\ s.initialised = q.initialised /\ s.ready = q.ready
BY DEF ProblemRecords

LEMMA EffectsJoined ==
  ASSUME NEW q \in ProblemRecords, NEW x \in Nat
  PROVE  LET s == [q EXCEPT !.effects = @ \cup {x}]
         IN  /\ s \in ProblemRecords /\ s.rewards = q.rewards
             /\ s.values = q.values /\ s.effects = q.effects \cup {x}
             /\ s.domain = q.domain /\ s.initialised = q.initialised /\ s.ready = q.ready
BY DEF ProblemRecords

LEMMA RequireRewardsSound ==
  ASSUME DomainsSound, RequireRewards
  PROVE  DomainsSound'
<1> DEFINE w == WithFunction("reward")
<1>1. /\ size' = size + 1 /\ static_functions_' = static_functions_ \cup {Added("reward")}
      /\ reward_function' = Added("reward") /\ stage \in {"domain", "problem"}
      /\ UNCHANGED <<stage, domain>> /\ "reward" \in Names
  BY DEF RequireRewards, AddFunction, Names
<1>2. /\ RecordsTyped /\ Numbered /\ domain \in DOMAIN domains /\ size \in Nat
  BY <1>1, ProblemRead DEF DomainsSound, InDomain, RecordsTyped
<1>3. /\ w \in DomainRecords /\ Added("reward") \in Nat
      /\ w.updates = Current.updates /\ w.rewards = Current.rewards
  BY <1>1, <1>2, TableExtended
<1> HIDE DEF w
<1>4. CASE stage = "domain"
  <2> DEFINE r == [w EXCEPT !.rewards = TRUE]
  <2>1. domains' = [domains EXCEPT ![domain] = r] /\ UNCHANGED problems
    BY <1>4 DEF RequireRewards, w
  <2>2. Current.updates = {}
    BY <1>4 DEF DomainsSound, InDomain
  <2>3. r \in DomainRecords /\ r.updates = {} /\ r.rewards /\ r.table = WithFunction("reward").table
    BY <1>3, <2>2, RewardsRequired DEF w
  <2> HIDE DEF r
  <2>4. Grows("reward", r)
    BY <1>1, <1>2, <2>1, <2>3, GrowsWith
  <2>5. Dynamic("reward", r)
    BY <1>1, <2>2, <2>3 DEF Dynamic
  <2> QED BY <1>1, <1>3, <1>4, <2>1, <2>3, <2>4, <2>5, InDomainGrows
<1>5. CASE stage = "problem"
  <2> DEFINE q == [Problem EXCEPT !.rewards = TRUE]
  <2>2. /\ domains' = [domains EXCEPT ![domain] = w]
        /\ problems' = [problems EXCEPT ![Len(problems)].rewards = TRUE]
    BY <1>5 DEF RequireRewards, w
  <2>3. /\ Problem \in ProblemRecords /\ ~Problem.ready
        /\ Problem.values = {} /\ Problem.effects = {}
        /\ problems \in Seq(ProblemRecords) /\ problems # <<>> /\ Problem.domain = domain
    BY <1>5, ProblemRead
  <2>4. problems' = [problems EXCEPT ![Len(problems)] = q]
    BY <2>2 DEF Problem
  <2>5. /\ q \in ProblemRecords /\ q.rewards /\ q.values = Problem.values /\ q.effects = {}
        /\ q.domain = Problem.domain /\ q.initialised = Problem.initialised /\ ~q.ready
    BY <2>3, ProblemRequires
  <2> HIDE DEF q
  <2>6. Grows("reward", w)
    BY <1>1, <1>2, <1>3, <2>2, GrowsWith DEF w
  <2>7. Dynamic("reward", w)
    <3>1. /\ Len(problems) \in DOMAIN problems /\ DOMAIN problems' = DOMAIN problems
          /\ problems'[Len(problems)] = q
      BY <2>3, <2>4, <2>5, LastReplaced
    <3>2. WillBeScored(domain)
      BY <2>3, <2>5, <3>1 DEF WillBeScored
    <3> QED BY <1>1, <1>3, <3>2 DEF Dynamic
  <2>8. reward_function' = w.table["reward"] /\ "reward" \in DOMAIN w.table
    BY <1>1, <1>2, TableExtended DEF w
  <2>9. Reads(q, w)
    BY <1>1, <2>3, <2>4, <2>5, <2>8 DEF Reads
  <2> QED BY <1>1, <1>3, <1>5, <2>6, <2>7, <2>9, InProblemGrows
<1> QED BY <1>1, <1>4, <1>5

LEMMA InitValueSound ==
  ASSUME DomainsSound, NEW name \in Names, InitValue(name), correct'
  PROVE  DomainsSound'
<1> DEFINE r == WithFunction(name)
           q == [Problem EXCEPT !.values = @ \cup {Added(name)}]
<1>1. /\ stage \in {"problem", "init"} /\ stage' = "init"
      /\ domains' = [domains EXCEPT ![domain] = r]
      /\ problems' = [problems EXCEPT ![Len(problems)] = q]
      /\ UNCHANGED <<domain, reward_function>>
      /\ Allowed(name, FALSE, FALSE)
  BY DEF InitValue, Problem
<1>2. /\ size' \in {size, size + 1} /\ (name \notin DOMAIN Current.table => size' = size + 1)
      /\ \/ static_functions_' = static_functions_
         \/ /\ name \notin DOMAIN Current.table
            /\ static_functions_' = static_functions_ \cup {size + 1}
  BY FoundOrAdded DEF InitValue
<1>3. /\ RecordsTyped /\ Numbered /\ domain \in DOMAIN domains /\ reward_function \in Nat
      /\ Problem \in ProblemRecords /\ ~Problem.ready
      /\ Current.rewards => Problem.rewards
      /\ Problem.rewards =>
           /\ reward_function = Current.table["reward"]
           /\ Current.table["reward"] \notin Problem.values
           /\ "reward" \in DOMAIN Current.table
      /\ Problem.effects \subseteq 1 .. size /\ Problem.effects \cap static_functions_ = {}
      /\ size \in Nat
  BY <1>1, ProblemRead DEF RecordsTyped
<1>4. /\ r \in DomainRecords /\ Added(name) \in Nat
      /\ r.updates = Current.updates /\ r.rewards = Current.rewards
      /\ name \notin DOMAIN Current.table => Added(name) = size + 1
  BY <1>3, TableExtended
<1>5. /\ q \in ProblemRecords /\ q.rewards = Problem.rewards
      /\ q.values = Problem.values \cup {Added(name)} /\ q.effects = Problem.effects
      /\ q.domain = Problem.domain /\ q.initialised = Problem.initialised /\ ~q.ready
  BY <1>3, <1>4, ValuesJoined
<1>6. Grows(name, r)
  BY <1>1, <1>2, <1>3, <1>4, GrowsWith
<1> HIDE DEF r, q
<1>7. Dynamic(name, r)
  BY <1>2, <1>4 DEF Dynamic
<1>8. Problem.rewards => Current.table["reward"] # Added(name)
  <2>1. Problem.rewards => name # "reward"
    BY <1>1, <1>3 DEF Allowed, Requirements
  <2>2. Problem.rewards => Current.table["reward"] \in 1 .. size
    BY <1>3 DEF Numbered, Current
  <2>3. CASE name \in DOMAIN Current.table
    BY <1>3, <2>1, <2>3 DEF Added, Numbered, Current
  <2>4. CASE name \notin DOMAIN Current.table
    BY <1>3, <1>4, <2>2, <2>4
  <2> QED BY <2>3, <2>4
<1>9. q.effects \subseteq 1 .. size' /\ q.effects \cap static_functions_' = {}
  BY <1>2, <1>3, <1>5
<1>10. Problem.rewards =>
         "reward" \in DOMAIN r.table /\ r.table["reward"] = Current.table["reward"]
  BY <1>3, <1>6 DEF Grows
<1>11. Reads(q, r)
  BY <1>1, <1>3, <1>5, <1>8, <1>9, <1>10 DEF Reads
<1> QED BY <1>1, <1>3, <1>4, <1>6, <1>7, <1>11, InProblemGrows

LEMMA InitEffectSound ==
  ASSUME DomainsSound, NEW name \in Names, InitEffect(name)
  PROVE  DomainsSound'
<1> DEFINE r == WithFunction(name)
           q == [Problem EXCEPT !.effects = @ \cup {Added(name)}]
<1>1. /\ stage \in {"problem", "init"} /\ stage' = "init"
      /\ domains' = [domains EXCEPT ![domain] = r]
      /\ problems' = [problems EXCEPT ![Len(problems)] = q]
      /\ static_functions_' = static_functions_ \ {Added(name)}
      /\ size' = IF name \in DOMAIN Current.table THEN size ELSE size + 1
      /\ UNCHANGED <<domain, reward_function>>
  BY DEF InitEffect, Problem
<1>2. /\ RecordsTyped /\ Numbered /\ domain \in DOMAIN domains /\ reward_function \in Nat
      /\ Problem \in ProblemRecords /\ ~Problem.ready
      /\ Current.rewards => Problem.rewards
      /\ Problem.rewards =>
           /\ reward_function = Current.table["reward"]
           /\ Current.table["reward"] \notin Problem.values
           /\ "reward" \in DOMAIN Current.table
      /\ Problem.effects \subseteq 1 .. size /\ Problem.effects \cap static_functions_ = {}
      /\ size \in Nat
  BY <1>1, ProblemRead DEF RecordsTyped
<1>3. /\ r \in DomainRecords /\ Added(name) \in Nat
      /\ r.updates = Current.updates /\ r.rewards = Current.rewards
  BY <1>2, TableExtended
<1>4. /\ q \in ProblemRecords /\ q.rewards = Problem.rewards
      /\ q.values = Problem.values /\ q.effects = Problem.effects \cup {Added(name)}
      /\ q.domain = Problem.domain /\ q.initialised = Problem.initialised /\ ~q.ready
  BY <1>2, <1>3, EffectsJoined
<1>5. Grows(name, r)
  BY <1>1, <1>2, <1>3, GrowsWith
<1> HIDE DEF r, q
<1>6. Dynamic(name, r)
  BY <1>1, <1>3 DEF Dynamic
<1>7. q.effects \subseteq 1 .. size' /\ q.effects \cap static_functions_' = {}
  <2>1. Added(name) \in 1 .. size' /\ size' >= size /\ size' \in Nat
    BY <1>1, <1>2, <1>5 DEF Grows
  <2> QED BY <1>1, <1>2, <1>4, <2>1
<1>8. Problem.rewards =>
        "reward" \in DOMAIN r.table /\ r.table["reward"] = Current.table["reward"]
  BY <1>2, <1>5 DEF Grows
<1>9. Reads(q, r)
  BY <1>1, <1>2, <1>4, <1>7, <1>8 DEF Reads
<1> QED BY <1>1, <1>2, <1>3, <1>5, <1>6, <1>9, InProblemGrows

-----------------------------------------------------------------------------
(***************************************************************************)
(* Definitions that begin and end.                                         *)
(***************************************************************************)
LEMMA DomainsWithoutNamed ==
  ASSUME domains \in Seq(DomainRecords), NEW name
  PROVE  LET list == WithoutNamed(domains, name)
         IN  /\ list \in Seq(DomainRecords) /\ Len(list) = Len(domains)
             /\ \A j \in DOMAIN domains :
                  /\ list[j].rewards = domains[j].rewards
                  /\ list[j].table = domains[j].table /\ list[j].updates = domains[j].updates
<1> DEFINE list == WithoutNamed(domains, name)
<1>1. Len(domains) \in Nat /\ DOMAIN domains = 1 .. Len(domains)
  OBVIOUS
<1>2. ASSUME NEW j \in DOMAIN domains
      PROVE  /\ list[j] \in DomainRecords /\ list[j].rewards = domains[j].rewards
             /\ list[j].table = domains[j].table /\ list[j].updates = domains[j].updates
  <2>1. domains[j] \in DomainRecords
    BY <1>2
  <2>2. list[j] = [domains[j] EXCEPT !.alive = @ /\ domains[j].name # name]
    BY <1>2 DEF WithoutNamed
  <2> QED BY <2>1, <2>2 DEF DomainRecords
<1>3. DOMAIN list = 1 .. Len(domains)
  BY <1>1 DEF WithoutNamed
<1>4. list = [j \in 1 .. Len(domains) |-> list[j]]
  BY <1>1 DEF WithoutNamed
<1> HIDE DEF list
<1>5. list \in [1 .. Len(domains) -> DomainRecords]
  BY <1>1, <1>2, <1>4
<1>6. list \in Seq(DomainRecords)
  BY <1>1, <1>5
<1>7. Len(list) = Len(domains)
  BY <1>1, <1>3, <1>6
<1> QED BY <1>2, <1>6, <1>7 DEF list

LEMMA ProblemsWithoutNamed ==
  ASSUME problems \in Seq(ProblemRecords), NEW name
  PROVE  LET list == WithoutNamed(problems, name)
         IN  /\ list \in Seq(ProblemRecords) /\ Len(list) = Len(problems)
             /\ \A j \in DOMAIN problems :
                  /\ list[j].domain = problems[j].domain /\ list[j].ready = problems[j].ready
                  /\ list[j].initialised = problems[j].initialised
                  /\ list[j].rewards = problems[j].rewards
                  /\ list[j].resolved = problems[j].resolved
                  /\ list[j].effects = problems[j].effects
                  /\ list[j].goal_reward = problems[j].goal_reward
                  /\ list[j].metric = problems[j].metric
<1> DEFINE list == WithoutNamed(problems, name)
<1>1. Len(problems) \in Nat /\ DOMAIN problems = 1 .. Len(problems)
  OBVIOUS
<1>2. ASSUME NEW j \in DOMAIN problems
      PROVE  /\ list[j] \in ProblemRecords
             /\ list[j].domain = problems[j].domain /\ list[j].ready = problems[j].ready
             /\ list[j].initialised = problems[j].initialised
             /\ list[j].rewards = problems[j].rewards
             /\ list[j].resolved = problems[j].resolved
             /\ list[j].effects = problems[j].effects
             /\ list[j].goal_reward = problems[j].goal_reward
             /\ list[j].metric = problems[j].metric
  <2>1. problems[j] \in ProblemRecords
    BY <1>2
  <2>2. list[j] = [problems[j] EXCEPT !.alive = @ /\ problems[j].name # name]
    BY <1>2 DEF WithoutNamed
  <2> QED BY <2>1, <2>2 DEF ProblemRecords
<1>3. DOMAIN list = 1 .. Len(problems)
  BY <1>1 DEF WithoutNamed
<1>4. list = [j \in 1 .. Len(problems) |-> list[j]]
  BY <1>1 DEF WithoutNamed
<1> HIDE DEF list
<1>5. list \in [1 .. Len(problems) -> ProblemRecords]
  BY <1>1, <1>2, <1>4
<1>6. list \in Seq(ProblemRecords)
  BY <1>1, <1>5
<1>7. Len(list) = Len(problems)
  BY <1>1, <1>3, <1>6
<1> QED BY <1>2, <1>6, <1>7 DEF list

LEMMA EndDomainSound ==
  ASSUME DomainsSound, EndDomain
  PROVE  DomainsSound'
<1>1. /\ stage' = "file"
      /\ UNCHANGED <<domains, problems, domain, size, static_functions_, reward_function>>
  BY DEF EndDomain
<1>2. RecordsTyped' /\ Numbered' /\ UpdatesDynamic'
  BY <1>1 DEF DomainsSound, RecordsTyped, Numbered, UpdatesDynamic, Scored
<1>3. ProblemsRefer' /\ ReadyStand'
  BY <1>1 DEF DomainsSound, ProblemsRefer, Refers, ReadyStand, Stands, MadeStatic, RequiresAlone
<1>4. InDomain' /\ InProblem'
  BY <1>1 DEF InDomain, InProblem
<1> QED BY <1>2, <1>3, <1>4 DEF DomainsSound

LEMMA MakeDomainSound ==
  ASSUME DomainsSound, NEW name \in DomainNames, MakeDomain(name)
  PROVE  DomainsSound'
<1> DEFINE list == WithoutNamed(domains, name)
           new == NewDomain(name)
           last == Len(domains) + 1
<1>1. /\ domains' = Append(list, new) /\ domain' = last /\ size' = size + 2
      /\ stage' = "domain" /\ UNCHANGED <<problems, static_functions_, reward_function>>
  BY DEF MakeDomain
<1>2. /\ RecordsTyped /\ Numbered /\ UpdatesDynamic /\ ProblemsRefer /\ ReadyStand
      /\ domains \in Seq(DomainRecords) /\ size \in Nat /\ static_functions_ \subseteq 1 .. size
  BY DEF DomainsSound, RecordsTyped
<1>3. /\ list \in Seq(DomainRecords) /\ Len(list) = Len(domains)
      /\ \A j \in DOMAIN domains :
           /\ list[j].rewards = domains[j].rewards
           /\ list[j].table = domains[j].table /\ list[j].updates = domains[j].updates
  BY <1>2, DomainsWithoutNamed
<1>4. /\ new \in DomainRecords /\ new.rewards = FALSE /\ new.updates = {}
      /\ DOMAIN new.table = Reserved
      /\ \A f \in Reserved : new.table[f] \in (size + 1) .. (size + 2)
      /\ \A f, g \in Reserved : new.table[f] = new.table[g] => f = g
  <2> DEFINE T == [f \in Reserved |-> IF f = "total-time" THEN size + 1 ELSE size + 2]
  <2>1. /\ T \in [Reserved -> Nat]
        /\ \A f \in Reserved : T[f] \in (size + 1) .. (size + 2)
        /\ \A f, g \in Reserved : T[f] = T[g] => f = g
    BY <1>2 DEF Reserved
  <2>2. T \in TablesOfFunctions
    <3>1. Reserved \in SUBSET AllNames
      BY DEF AllNames
    <3> QED BY <2>1, <3>1 DEF TablesOfFunctions
  <2>3. DOMAIN T = Reserved
    OBVIOUS
  <2> HIDE DEF T
  <2>4. new = [name |-> name, alive |-> TRUE, rewards |-> FALSE, table |-> T,
               updates |-> {}, reads |-> {}]
    BY DEF NewDomain, T
  <2>5. new \in DomainRecords
    BY <2>2, <2>4 DEF DomainRecords
  <2> QED BY <2>1, <2>3, <2>4, <2>5
<1> HIDE DEF list, new
<1>5. /\ domains' \in Seq(DomainRecords) /\ Len(domains') = last
      /\ DOMAIN domains' = 1 .. last /\ domains'[last] = new
      /\ \A j \in 1 .. Len(domains) : domains'[j] = list[j]
      /\ DOMAIN domains = 1 .. Len(domains) /\ Len(domains) \in Nat
  BY <1>1, <1>2, <1>3, <1>4
<1>6. \A j \in DOMAIN domains :
        /\ j \in DOMAIN domains' /\ j # last /\ domains'[j].rewards = domains[j].rewards
        /\ domains'[j].table = domains[j].table /\ domains'[j].updates = domains[j].updates
  BY <1>3, <1>5
<1>7. \A j \in DOMAIN domains' : j \in DOMAIN domains \/ j = last
  BY <1>5
<1>8. RecordsTyped'
  BY <1>1, <1>2, <1>5 DEF RecordsTyped
<1>9. \A j \in DOMAIN domains : \A f \in DOMAIN domains[j].table : domains[j].table[f] \in 1 .. size
  BY <1>2 DEF Numbered
<1>10. Numbered'
  <2>1. ASSUME NEW j \in DOMAIN domains'
        PROVE  /\ Reserved \subseteq DOMAIN domains'[j].table
               /\ \A f \in DOMAIN domains'[j].table : domains'[j].table[f] \in 1 .. size'
               /\ domains'[j].rewards => "reward" \in DOMAIN domains'[j].table
               /\ \A f, g \in DOMAIN domains'[j].table :
                    domains'[j].table[f] = domains'[j].table[g] => f = g
               /\ \A x \in domains'[j].updates : \E f \in DOMAIN domains'[j].table : x = domains'[j].table[f]
    <3>1. CASE j = last
      BY <1>1, <1>2, <1>4, <1>5, <3>1
    <3>2. CASE j \in DOMAIN domains
      <4>1. /\ Reserved \subseteq DOMAIN domains[j].table
            /\ \A f \in DOMAIN domains[j].table : domains[j].table[f] \in 1 .. size
            /\ domains[j].rewards => "reward" \in DOMAIN domains[j].table
            /\ \A f, g \in DOMAIN domains[j].table :
                 domains[j].table[f] = domains[j].table[g] => f = g
            /\ \A x \in domains[j].updates : \E f \in DOMAIN domains[j].table : x = domains[j].table[f]
        BY <1>2, <3>2 DEF Numbered
      <4>2. /\ domains'[j].rewards = domains[j].rewards
            /\ domains'[j].table = domains[j].table /\ domains'[j].updates = domains[j].updates
        BY <1>6, <3>2
      <4>3. 1 .. size \subseteq 1 .. size'
        BY <1>1, <1>2
      <4> QED BY <4>1, <4>2, <4>3
    <3> QED BY <1>7, <3>1, <3>2
  <2>2. ASSUME NEW j \in DOMAIN domains', NEW m \in DOMAIN domains',
               NEW f \in DOMAIN domains'[j].table, NEW g \in DOMAIN domains'[m].table,
               domains'[j].table[f] = domains'[m].table[g]
        PROVE  j = m
    <3>1. CASE j \in DOMAIN domains /\ m \in DOMAIN domains
      BY <1>2, <1>6, <2>2, <3>1 DEF Numbered
    <3>2. CASE j = last /\ m \in DOMAIN domains
      <4>1. domains'[j].table[f] \in (size + 1) .. (size + 2)
        BY <1>4, <1>5, <2>2, <3>2
      <4>2. domains'[m].table[g] \in 1 .. size
        BY <1>6, <1>9, <2>2, <3>2
      <4> QED BY <1>2, <2>2, <4>1, <4>2
    <3>3. CASE j \in DOMAIN domains /\ m = last
      <4>1. domains'[m].table[g] \in (size + 1) .. (size + 2)
        BY <1>4, <1>5, <2>2, <3>3
      <4>2. domains'[j].table[f] \in 1 .. size
        BY <1>6, <1>9, <2>2, <3>3
      <4> QED BY <1>2, <2>2, <4>1, <4>2
    <3> QED BY <1>7, <3>1, <3>2, <3>3
  <2> QED BY <2>1, <2>2 DEF Numbered
<1>11. UpdatesDynamic'
  <2>1. ASSUME NEW j \in DOMAIN domains', NEW x \in domains'[j].updates \cap static_functions_'
        PROVE  /\ Scored(j)' /\ "reward" \in DOMAIN domains'[j].table
               /\ x = domains'[j].table["reward"]
    <3>1. CASE j = last
      BY <1>4, <1>5, <2>1, <3>1
    <3>2. CASE j \in DOMAIN domains
      BY <1>1, <1>2, <1>6, <2>1, <3>2 DEF UpdatesDynamic, Scored
    <3> QED BY <1>7, <3>1, <3>2
  <2> QED BY <2>1 DEF UpdatesDynamic
<1>12. ASSUME NEW i \in DOMAIN problems
       PROVE  Refers(i)' /\ Stands(i)' /\ problems[i].domain # last
  <2>1. problems[i].domain \in DOMAIN domains
    BY <1>2 DEF ProblemsRefer, Refers
  <2>2. KeepsDomain(problems[i].domain)
    BY <1>6, <2>1 DEF KeepsDomain
  <2>3. KeepsProblem(i) /\ KeepsReady(i)
    BY <1>1 DEF KeepsProblem, KeepsReady
  <2>4. Retained
    BY <1>1 DEF Retained
  <2> QED BY <1>2, <1>6, <2>1, <2>2, <2>3, <2>4, ProblemKept
<1>13. ProblemsRefer' /\ ReadyStand'
  BY <1>1, <1>12 DEF ProblemsRefer, ReadyStand
<1>14. InDomain' /\ InProblem'
  BY <1>1, <1>4, <1>5, <1>12 DEF InDomain, InProblem, Current
<1> QED BY <1>8, <1>10, <1>11, <1>13, <1>14 DEF DomainsSound

LEMMA MakeProblemSound ==
  ASSUME DomainsSound, NEW name \in ProblemNames, NEW d, MakeProblem(name, d)
  PROVE  DomainsSound'
<1> DEFINE list == WithoutNamed(problems, name)
           new == NewProblem(name, d, domains[d].rewards, domains[d].table)
           last == Len(problems) + 1
<1>1. /\ problems' = Append(list, new) /\ domain' = d /\ d \in DOMAIN domains
      /\ reward_function' = IF domains[d].rewards THEN domains[d].table["reward"]
                            ELSE reward_function
      /\ stage' = "problem" /\ UNCHANGED <<domains, size, static_functions_>>
  BY DEF MakeProblem
<1>2. /\ RecordsTyped /\ Numbered /\ UpdatesDynamic /\ ProblemsRefer /\ ReadyStand
      /\ problems \in Seq(ProblemRecords) /\ domains \in Seq(DomainRecords)
      /\ reward_function \in Nat /\ size \in Nat
  BY DEF DomainsSound, RecordsTyped
<1>3. /\ list \in Seq(ProblemRecords) /\ Len(list) = Len(problems)
      /\ \A j \in DOMAIN problems :
           /\ list[j].domain = problems[j].domain /\ list[j].ready = problems[j].ready
           /\ list[j].initialised = problems[j].initialised
           /\ list[j].rewards = problems[j].rewards
           /\ list[j].resolved = problems[j].resolved
           /\ list[j].effects = problems[j].effects
           /\ list[j].goal_reward = problems[j].goal_reward
           /\ list[j].metric = problems[j].metric
  BY <1>2, ProblemsWithoutNamed
<1>4. /\ domains[d].rewards \in BOOLEAN /\ d \in Nat
      /\ domains[d].table["total-time"] \in Nat /\ domains[d].table["goal-achieved"] \in Nat
      /\ domains[d].rewards =>
           "reward" \in DOMAIN domains[d].table /\ domains[d].table["reward"] \in Nat
  <2>1. domains[d] \in DomainRecords /\ d \in Nat
    BY <1>1, <1>2
  <2>2. /\ Reserved \subseteq DOMAIN domains[d].table
        /\ \A f \in DOMAIN domains[d].table : domains[d].table[f] \in 1 .. size
        /\ domains[d].rewards => "reward" \in DOMAIN domains[d].table
    BY <1>1, <1>2 DEF Numbered
  <2> QED BY <1>2, <2>1, <2>2 DEF DomainRecords, Reserved
<1>5. /\ new \in ProblemRecords /\ new.domain = d /\ new.ready = FALSE
      /\ new.rewards = domains[d].rewards /\ new.values = {} /\ new.effects = {}
      /\ domains[d].table["total-time"] \in new.initialised
      /\ domains[d].table["goal-achieved"] \in new.initialised
      /\ domains[d].rewards => domains[d].table["reward"] \in new.initialised
  BY <1>4 DEF NewProblem, ProblemRecords, NoFunction
<1> HIDE DEF list, new
<1>6. /\ problems' \in Seq(ProblemRecords) /\ Len(problems') = last
      /\ DOMAIN problems' = 1 .. last /\ problems'[last] = new
      /\ \A j \in 1 .. Len(problems) : problems'[j] = list[j]
      /\ DOMAIN problems = 1 .. Len(problems) /\ Len(problems) \in Nat
  BY <1>1, <1>2, <1>3, <1>5
<1> problems' # <<>>
  <2>1. Len(<<>>) = 0
    OBVIOUS
  <2> QED BY <1>6, <2>1
<1>7. \A j \in DOMAIN problems' : j \in DOMAIN problems \/ j = last
  BY <1>6
<1> Retained
  BY <1>3, <1>6 DEF Retained
<1>8. RecordsTyped' /\ Numbered' /\ UpdatesDynamic'
  <2>1. \A j : Scored(j) => Scored(j)'
    BY DEF Scored, Retained
  <2>2. RecordsTyped' /\ Numbered'
    BY <1>1, <1>2, <1>4, <1>6 DEF RecordsTyped, Numbered
  <2> QED BY <1>1, <1>2, <2>1, <2>2 DEF UpdatesDynamic
<1>9. ASSUME NEW i \in DOMAIN problems
      PROVE  Refers(i)' /\ Stands(i)'
  <2>1. problems[i].domain \in DOMAIN domains
    BY <1>2 DEF ProblemsRefer, Refers
  <2>2. KeepsDomain(problems[i].domain)
    BY <1>1, <2>1 DEF KeepsDomain
  <2>3. problems'[i] = list[i]
    BY <1>6
  <2>4. KeepsProblem(i) /\ KeepsReady(i)
    BY <1>3, <2>3 DEF KeepsProblem, KeepsReady
  <2> QED BY <1>2, <2>2, <2>4, ProblemKept
<1>10. ASSUME NEW i, i = last
       PROVE  Refers(i)' /\ Stands(i)'
  BY <1>1, <1>4, <1>5, <1>6, <1>10 DEF Refers, Stands
<1>11. ProblemsRefer' /\ ReadyStand'
  BY <1>7, <1>9, <1>10 DEF ProblemsRefer, ReadyStand
<1>12. Problem' = new /\ Current' = domains[d]
  BY <1>1, <1>6 DEF Problem, Current
<1>13. InDomain' /\ InProblem'
  BY <1>1, <1>5, <1>6, <1>12 DEF InDomain, InProblem
<1> QED BY <1>8, <1>11, <1>13 DEF DomainsSound

(* A function that was made dynamic is not resolved, except the reward.  Where
   the problem is scored by it, it has no value and the program ends; otherwise
   an earlier problem required it alone. *)
LEMMA EndProblemSound ==
  ASSUME DomainsSound, NEW name \in MetricNames \cup {"default"}, NEW goal_reward \in BOOLEAN,
         EndProblem(name, goal_reward), stage' # "threw"
  PROVE  DomainsSound'
<1> DEFINE goal == IF goal_reward THEN reward_function ELSE NoFunction
           q == [Problem EXCEPT !.metric = Metric(name), !.goal_reward = goal,
                                !.resolved = Used(name) \cap static_functions_',
                                !.ready = TRUE]
<1>1. /\ stage \in {"problem", "init"} /\ stage' = "file"
      /\ name = "default" \/ name \in DOMAIN Current.table
      /\ Used(name) \cap static_functions_' \subseteq Problem.values
      /\ static_functions_' \subseteq static_functions_
      /\ UNCHANGED <<domains, domain, size, reward_function>>
  BY DEF EndProblem
<1>2. problems' = [problems EXCEPT ![Len(problems)] = q]
  BY DEF EndProblem, Problem
<1>3. /\ RecordsTyped /\ Numbered /\ UpdatesDynamic /\ ProblemsRefer /\ ReadyStand
      /\ problems \in Seq(ProblemRecords) /\ problems # <<>> /\ Problem.domain = domain
  BY <1>1 DEF DomainsSound, RecordsTyped, InProblem
<1>4. /\ domain \in DOMAIN domains /\ reward_function \in Nat
      /\ Problem \in ProblemRecords /\ Current \in DomainRecords
      /\ Current.rewards => Problem.rewards
      /\ Problem.rewards =>
           /\ reward_function = Current.table["reward"]
           /\ Current.table["reward"] \notin Problem.values
           /\ "reward" \in DOMAIN Current.table
      /\ Problem.effects \cap static_functions_ = {}
  BY <1>1, ProblemRead
<1>5. /\ Reserved \subseteq DOMAIN Current.table
      /\ \A f \in DOMAIN Current.table : Current.table[f] \in Nat
  BY <1>3, <1>4 DEF Numbered, Current, RecordsTyped
<1>6. Metric(name) \in Nat
  BY <1>1, <1>4, <1>5 DEF Metric, Reserved
<1>7. static_functions_' \in SUBSET Nat
  BY <1>1, <1>3 DEF RecordsTyped
<1>8. goal \in Nat
  BY <1>4 DEF NoFunction
<1> HIDE DEF goal
<1>9. /\ q \in ProblemRecords /\ q.domain = Problem.domain
      /\ q.initialised = Problem.initialised /\ q.effects = Problem.effects
      /\ q.rewards = Problem.rewards /\ q.metric = Metric(name) /\ q.goal_reward = goal
      /\ q.resolved = Used(name) \cap static_functions_'
  BY <1>4, <1>6, <1>7, <1>8 DEF ProblemRecords
<1> HIDE DEF q
<1>10. /\ problems' \in Seq(ProblemRecords) /\ DOMAIN problems' = DOMAIN problems
       /\ Len(problems') = Len(problems) /\ Len(problems) \in DOMAIN problems
       /\ problems'[Len(problems)] = q
       /\ \A i \in DOMAIN problems : i # Len(problems) => problems'[i] = problems[i]
  BY <1>2, <1>3, <1>9, LastReplaced
<1> Retained
  BY <1>9, <1>10 DEF Retained, Problem
<1>11. RecordsTyped' /\ Numbered' /\ UpdatesDynamic'
  <2>1. \A j : Scored(j) => Scored(j)'
    BY DEF Scored, Retained
  <2>2. RecordsTyped' /\ Numbered'
    BY <1>1, <1>3, <1>10 DEF RecordsTyped, Numbered
  <2> QED BY <1>1, <1>3, <2>1, <2>2 DEF UpdatesDynamic
<1>12. ASSUME NEW i \in DOMAIN problems
       PROVE  Refers(i)' /\ (i # Len(problems) => Stands(i)')
  <2>1. KeepsDomain(problems[i].domain)
    BY <1>1, <1>3 DEF ProblemsRefer, Refers, KeepsDomain
  <2>2. KeepsProblem(i) /\ (i # Len(problems) => KeepsReady(i))
    BY <1>9, <1>10 DEF KeepsProblem, KeepsReady, Problem
  <2> QED BY <1>3, <2>1, <2>2, ProblemKept
<1>13. ASSUME NEW i, i = Len(problems)
       PROVE  Stands(i)'
  <2>1. /\ domains'[problems'[i].domain] = Current /\ problems'[i] = q
        /\ problems'[i].initialised = Problem.initialised
    BY <1>1, <1>3, <1>9, <1>10, <1>13 DEF Current
  <2>2. q.resolved \cap Current.updates \subseteq MadeStatic(i)'
    <3>1. SUFFICES ASSUME NEW x \in q.resolved \cap Current.updates
                   PROVE  x \in MadeStatic(i)'
      OBVIOUS
    <3>2. x \in Current.updates \cap static_functions_ /\ x \in Problem.values
      BY <1>1, <1>9, <3>1
    <3>3. Scored(domain) /\ x = Current.table["reward"]
      BY <1>4, <3>2, <1>3 DEF UpdatesDynamic, Current
    <3>4. ~Problem.rewards /\ ~Current.rewards
      BY <1>4, <3>2, <3>3
    <3>5. PICK j \in DOMAIN problems : problems[j].domain = domain /\ problems[j].rewards
      BY <3>3 DEF Scored
    <3>6. j # Len(problems)
      BY <3>4, <3>5 DEF Problem
    <3>7. j \in 1 .. i - 1 /\ problems'[j] = problems[j]
      BY <1>3, <1>10, <1>13, <3>5, <3>6
    <3>8. problems'[i].domain = domain /\ domains' = domains
      BY <1>1, <1>3, <1>9, <1>10, <1>13
    <3> QED BY <3>3, <3>4, <3>5, <3>7, <3>8 DEF MadeStatic, RequiresAlone, Current
  <2>3. q.resolved \cap q.effects = {}
    BY <1>1, <1>4, <1>9
  <2>4. ASSUME Current.rewards
        PROVE  /\ q.goal_reward \in {NoFunction, Current.table["reward"]}
               /\ q.metric # Current.table["reward"] => q.metric \in Problem.initialised
    <3>1. q.goal_reward \in {NoFunction, Current.table["reward"]}
      BY <1>4, <1>9, <2>4 DEF goal
    <3>2. CASE name = "default"
      BY <1>4, <1>9, <2>4, <3>2, <3>1 DEF Metric
    <3>3. CASE name # "default"
      <4>1. q.metric = Current.table[name] /\ name \in {"total-time", "goal-achieved", "reward"}
        BY <1>9, <3>3 DEF Metric, MetricNames, Reserved
      <4>2. Refers(i)
        BY <1>3, <1>10, <1>13 DEF ProblemsRefer
      <4>3. /\ Current.table["total-time"] \in Problem.initialised
            /\ Current.table["goal-achieved"] \in Problem.initialised
        BY <1>3, <1>13, <4>2 DEF Refers, Problem, Current
      <4> QED BY <3>1, <4>1, <4>3
    <3> QED BY <3>2, <3>3
  <2> QED BY <2>1, <2>2, <2>3, <2>4 DEF Stands
<1>14. ProblemsRefer' /\ ReadyStand'
  BY <1>10, <1>12, <1>13 DEF ProblemsRefer, ReadyStand
<1>15. InDomain' /\ InProblem'
  BY <1>1 DEF InDomain, InProblem
<1> QED BY <1>11, <1>14, <1>15 DEF DomainsSound

-----------------------------------------------------------------------------
CorrectTyped == correct \in BOOLEAN

LEMMA DomainInitSound ==
  ASSUME DomainInit
  PROVE  DomainsInv
BY DEF DomainInit, DomainsInv, DomainsSound, RecordsTyped, Numbered, UpdatesDynamic,
       ProblemsRefer, ReadyStand, InDomain, InProblem, NoFunction

(* An error is never taken back, and nothing follows an exception.         *)
LEMMA ErrorsRemain ==
  ASSUME CorrectTyped, DomainNext
  PROVE  stage # "threw" /\ (correct' => correct) /\ CorrectTyped'
<1>1. stage # "threw"
  BY DEF DomainNext, MakeDomain, RequireRewards, EndDomain, DeclareFunction, Condition, Update,
         InitValue, InitEffect, MakeProblem, MakeProblemWithoutDomain, EndProblem
<1>2. \/ correct' = correct
      \/ correct' = FALSE
      \/ \E name \in Names : correct' = (correct /\ Allowed(name, FALSE, FALSE))
      \/ \E name \in Names, kind \in {"increase", "assign"} :
           correct' = (correct /\ Allowed(name, TRUE, FALSE) /\ IncreaseOrAssign(kind, name))
      \/ \E name \in Names :
           correct' = (correct /\ Allowed(name, FALSE, FALSE) /\ IncreaseOrAssign("assign", name))
  BY Zenon DEF DomainNext, MakeDomain, RequireRewards, EndDomain, DeclareFunction, Condition,
     Update, InitValue, InitEffect, MakeProblem, MakeProblemWithoutDomain, EndProblem
<1>3. correct' => correct
  BY <1>2, Zenon DEF CorrectTyped
<1>4. CorrectTyped'
  BY <1>2, Zenon DEF CorrectTyped
<1> QED BY <1>1, <1>3, <1>4

LEMMA DomainStepSound ==
  ASSUME DomainsInv, CorrectTyped, [DomainNext]_domainVars
  PROVE  DomainsInv'
<1>1. CASE UNCHANGED domainVars
  BY <1>1 DEF domainVars, DomainsInv, DomainsSound, RecordsTyped, Numbered, UpdatesDynamic,
              Scored, ProblemsRefer, Refers, ReadyStand, Stands, MadeStatic, RequiresAlone,
              InDomain, InProblem, Problem, Current
<1>2. CASE DomainNext
  <2>1. SUFFICES ASSUME correct', stage' # "threw"
                 PROVE  DomainsSound'
    BY DEF DomainsInv
  <2>2. DomainsSound
    BY <1>2, <2>1, ErrorsRemain DEF DomainsInv
  <2>3. ASSUME NEW name \in ProblemNames, NEW dname \in DomainNames,
               MakeProblemWithoutDomain(name, dname)
        PROVE  FALSE
    BY <2>1, <2>3 DEF MakeProblemWithoutDomain
  <2> QED BY <1>2, <2>1, <2>2, <2>3, MakeDomainSound, RequireRewardsSound, EndDomainSound,
             DeclareFunctionSound, ConditionSound, InitValueSound, InitEffectSound, UpdateSound,
             MakeProblemSound, EndProblemSound DEF DomainNext
<1> QED BY <1>1, <1>2

LEMMA SoundStands ==
  ASSUME DomainsInv
  PROVE  ProblemsStand
<1>1. SUFFICES ASSUME NEW i \in Accepted
               PROVE  /\ problems[i].resolved
                           \cap (domains[problems[i].domain].updates \cup problems[i].effects)
                             \subseteq MadeStatic(i)
                      /\ domains[problems[i].domain].rewards =>
                           LET reward == domains[problems[i].domain].table["reward"]
                           IN  /\ reward \in problems[i].initialised
                               /\ problems[i].goal_reward \in {NoFunction, reward}
                               /\ problems[i].metric # reward
                                    => problems[i].metric \in problems[i].initialised
  BY DEF ProblemsStand, ResolvedStays, RewardIsOne
<1>2. Refers(i) /\ Stands(i) /\ problems[i].ready
  BY DEF DomainsInv, DomainsSound, ProblemsRefer, ReadyStand, Accepted
<1> QED BY <1>2 DEF Refers, Stands

LEMMA CorrectStaysTyped ==
  ASSUME CorrectTyped, [DomainNext]_domainVars
  PROVE  CorrectTyped'
<1>1. CASE DomainNext
  BY <1>1, ErrorsRemain
<1>2. CASE UNCHANGED domainVars
  BY <1>2 DEF domainVars, CorrectTyped
<1> QED BY <1>1, <1>2

(* As long as no error was reported, what instantiation has put a value in for
   is changed by no initial effect of the problem and, with one exception, by
   no action of its domain: the domain's function reward, where an earlier
   problem required :rewards and the domain does not.  And a domain that
   requires rewards has one reward that actions, goal and score mean.  So it is
   whatever domains and problems are defined, in whatever order, again or not,
   whichever of them require :rewards, and whatever their actions name.
   (FunctionTable::add_function, set_dynamic, make_problem,
   Problem::instantiate.) *)
THEOREM ResolvedFunctionsStand == DomainSpec => []ProblemsStand
<1>1. DomainInit => DomainsInv /\ CorrectTyped
  BY DomainInitSound DEF DomainInit, CorrectTyped
<1>2. DomainsInv /\ CorrectTyped /\ [DomainNext]_domainVars => DomainsInv' /\ CorrectTyped'
  BY DomainStepSound, CorrectStaysTyped
<1>3. DomainsInv => ProblemsStand
  BY SoundStands
<1> QED BY <1>1, <1>2, <1>3, PTL DEF DomainSpec
=============================================================================
