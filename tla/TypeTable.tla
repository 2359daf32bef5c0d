----------------------------- MODULE TypeTable -----------------------------
(***************************************************************************)
(* The type hierarchy of a domain: TypeTable (types.cc), filled by the     *)
(* types section of a domain (add_names and make_type of parser.yy).       *)
(*                                                                         *)
(* A type is its index: 0 is the type object, positive indices are the     *)
(* simple types, negative ones the unions.  The subtype relation of the    *)
(* simple types is kept transitively closed in a triangular bit table;     *)
(* subtype_ is the set of its true cells.  add_supertype walks over the    *)
(* components of a union, and for each of them over the types, reading the *)
(* table that it is changing: one step for a component, one for a type.    *)
(***************************************************************************)
EXTENDS Integers, Sequences

CONSTANTS
  MaxTypes,   (* bound: simple types                                        *)
  MaxUnions   (* bound: union types                                         *)

ASSUME TypeTableAssumption == MaxTypes \in Nat /\ MaxUnions \in Nat

VARIABLES
  n,          (* number of simple types, names_.size()                      *)
  subtype_,   (* the true cells of the table                                *)
  utypes,     (* the components of the union types                          *)
  pc,         (* where add_supertype is                                     *)
  type1, type2, (* its arguments                                            *)
  todo,       (* components of type2 that are not visited yet               *)
  super,      (* the component being visited                                *)
  k,          (* the type whose supertypes are being added                  *)
  before,     (* history: the table when the visit of the component began   *)
  declared,   (* history: the pairs of simple types that were accepted      *)
  refused     (* history: the declaration that was last refused              *)

vars == <<n, subtype_, utypes, pc, type1, type2, todo, super, k, before,
          declared, refused>>

OBJECT == 0
Simple == 1 .. n
Unions == {-i : i \in 1 .. Len(utypes)}

(* An off-by-one in the index of the upper half of a row.                  *)
CellOffByOne(a, b) ==
  IF b < a THEN <<a - 2, 2 * a - b - 1>> ELSE <<b - 2, a - 1>>

(* The cell that says whether simple type a is a subtype of simple type b:
   the rows are numbered from 0, the first for the pair of types 1 and 2. *)
Cell(a, b) == IF b < a THEN <<a - 2, 2 * a - b - 2>> ELSE <<b - 2, a - 1>>

(* The cells add_type gives the rows of m types.                           *)
Row(r) == {<<r, c>> : c \in 0 .. 2 * r + 1}
Cells(m) == UNION {Row(r) : r \in 0 .. m - 2}

(* subtype for simple types, object included, in the table t.              *)
LeIn(t, a, b) ==
  \/ a = b
  \/ b = OBJECT
  \/ a # OBJECT /\ Cell(a, b) \in t

Le(a, b) == LeIn(subtype_, a, b)

(* subtype for all types that occur in a hierarchy: the components of a
   union are simple there. *)
Components(t) == IF t < 0 THEN utypes[-t] ELSE {t}
Subtype(a, b) ==
  a = b \/ \A s \in Components(a) : \E t \in Components(b) : Le(s, t)

(* The component add_supertype visits next: a set is in the order of its
   indices. *)
IsNext(c) == c \in todo /\ \A d \in todo : c <= d

Init ==
  /\ n = 0 /\ subtype_ = {} /\ utypes = <<>>
  /\ pc = "idle" /\ type1 = OBJECT /\ type2 = OBJECT /\ todo = {}
  /\ super = OBJECT /\ k = 0
  /\ before = {} /\ declared = {} /\ refused = {}

(* A name that is new to the domain, as a declared type or a supertype.    *)
AddType ==
  /\ pc = "idle" /\ n < MaxTypes
  /\ n' = n + 1
  /\ UNCHANGED <<subtype_, utypes, pc, type1, type2, todo, super, k, before,
                 declared, refused>>

(* (either ...): the members that are simple types, at least two of them.  *)
UnionType ==
  /\ pc = "idle" /\ Len(utypes) < MaxUnions
  /\ \E S \in SUBSET Simple :
       /\ \E a, b \in S : a # b
       /\ utypes' = Append(utypes, S)
  /\ UNCHANGED <<n, subtype_, pc, type1, type2, todo, super, k, before,
                 declared, refused>>

(* A type that is declared with a supertype; object when none is written.  *)
Declare ==
  /\ pc = "idle"
  /\ \E a \in Simple, b \in Simple \cup Unions \cup {OBJECT} :
       /\ type1' = a
       /\ type2' = b
       /\ todo' = Components(b)
  /\ pc' = "component"
  /\ UNCHANGED <<n, subtype_, utypes, super, k, before, declared, refused>>

(* The next component is already a supertype.                              *)
AlreadyDeclared ==
  /\ pc = "component"
  /\ \E c \in todo :
       /\ IsNext(c)
       /\ Le(type1, c)
       /\ todo' = todo \ {c}
  /\ UNCHANGED <<n, subtype_, utypes, pc, type1, type2, super, k, before,
                 declared, refused>>

(* The test for the contrary relation comes first.                         *)
RefuseFirst ==
  /\ pc = "component"
  /\ \E c \in todo : IsNext(c) /\ Le(c, type1)
  /\ refused' = {<<type1, type2>>}
  /\ pc' = "idle"
  /\ todo' = {}
  /\ type1' = OBJECT /\ type2' = OBJECT
  /\ UNCHANGED <<n, subtype_, utypes, super, k, before, declared>>

(* The next component is a subtype of the type: the declaration is refused
   and the parser reports an error, which does not stop it. *)
Refuse ==
  /\ pc = "component"
  /\ \E c \in todo :
       /\ IsNext(c)
       /\ ~Le(type1, c)
       /\ Le(c, type1)
  /\ refused' = {<<type1, type2>>}
  /\ pc' = "idle"
  /\ todo' = {}
  /\ type1' = OBJECT /\ type2' = OBJECT
  /\ UNCHANGED <<n, subtype_, utypes, super, k, before, declared>>

(* The test for the contrary relation is missing.                          *)
StartUnchecked ==
  /\ pc = "component"
  /\ \E c \in todo :
       /\ IsNext(c)
       /\ ~Le(type1, c)
       /\ super' = c
       /\ todo' = todo \ {c}
       /\ declared' = declared \cup {<<type1, c>>}
  /\ k' = 1
  /\ before' = subtype_
  /\ pc' = "types"
  /\ UNCHANGED <<n, subtype_, utypes, type1, type2, refused>>

(* The next component is new: the loop over the types starts.              *)
StartComponent ==
  /\ pc = "component"
  /\ \E c \in todo :
       /\ IsNext(c)
       /\ ~Le(type1, c)
       /\ ~Le(c, type1)
       /\ super' = c
       /\ todo' = todo \ {c}
       /\ declared' = declared \cup {<<type1, c>>}
  /\ k' = 1
  /\ before' = subtype_
  /\ pc' = "types"
  /\ UNCHANGED <<n, subtype_, utypes, type1, type2, refused>>

(* Only the type itself, and not its subtypes, gets the new supertypes.    *)
VisitOnlyType ==
  /\ pc = "types" /\ k <= n
  /\ subtype_' =
       IF k = type1 /\ ~Le(k, super)
         THEN subtype_ \cup {Cell(k, l) : l \in {l \in Simple : Le(super, l)}}
         ELSE subtype_
  /\ k' = k + 1
  /\ UNCHANGED <<n, utypes, pc, type1, type2, todo, super, before, declared,
                 refused>>

(* One turn too many.                                                      *)
VisitTypeTooFar ==
  /\ pc = "types" /\ k <= n + 1
  /\ k' = k + 1
  /\ UNCHANGED <<n, subtype_, utypes, pc, type1, type2, todo, super, before,
                 declared, refused>>

(* One turn of the outer loop: k gets the supertypes of the component.     *)
VisitType ==
  /\ pc = "types" /\ k <= n
  /\ subtype_' =
       IF Le(k, type1) /\ ~Le(k, super)
         THEN subtype_ \cup {Cell(k, l) : l \in {l \in Simple : Le(super, l)}}
         ELSE subtype_
  /\ k' = k + 1
  /\ UNCHANGED <<n, utypes, pc, type1, type2, todo, super, before, declared,
                 refused>>

EndComponent ==
  /\ pc = "types" /\ k > n
  /\ pc' = "component"
  /\ super' = OBJECT /\ k' = 0 /\ before' = {}
  /\ UNCHANGED <<n, subtype_, utypes, type1, type2, todo, declared, refused>>

Accept ==
  /\ pc = "component" /\ todo = {}
  /\ pc' = "idle"
  /\ type1' = OBJECT /\ type2' = OBJECT
  /\ UNCHANGED <<n, subtype_, utypes, todo, super, k, before, declared,
                 refused>>

Next ==
  \/ AddType \/ UnionType \/ Declare
  \/ AlreadyDeclared \/ Refuse \/ StartComponent \/ VisitType \/ EndComponent
  \/ Accept

Spec == Init /\ [][Next]_vars

-----------------------------------------------------------------------------
TypeOK ==
  /\ n \in Nat
  /\ subtype_ \subseteq Int \X Int
  /\ utypes \in Seq(SUBSET Simple)
  /\ pc \in {"idle", "component", "types"}
  /\ type1 \in Nat /\ type1 <= n
  /\ type2 \in Simple \cup Unions \cup {OBJECT}
  /\ todo \subseteq Simple \cup {OBJECT}
  /\ super \in Simple \cup {OBJECT}
  /\ k \in 0 .. n + 1
  /\ before \subseteq Int \X Int
  /\ declared \subseteq Simple \X Simple
  /\ refused \subseteq Int \X Int

(* The triangular indexing is sound: every cell that is ever set lies in the
   row that add_type allocated for the greater of the two types, whatever
   the order in which types are created and declared. *)
InBounds == subtype_ \subseteq Cells(n)

(* Two different types are never subtypes of each other, although the table
   is extended while it is being read: a cyclic hierarchy is refused. *)
NoCycle == \A a, b \in Simple : Le(a, b) /\ Le(b, a) => a = b

(* Both, at every step of a declaration.                                   *)
TableIsSound == InBounds /\ NoCycle

(* The pairs that the accepted declarations imply: b is in every set of
   types that holds a and, with a type, the supertypes declared for it. *)
Closed(U) == \A p \in declared : p[1] \in U => p[2] \in U
Implied(a, b) == \A U \in SUBSET Simple : a \in U /\ Closed(U) => b \in U

(* Between two declarations the table is the reflexive and transitive closure
   of what was declared: nothing is lost by updating it in place, nothing is
   invented, however the declarations are ordered. *)
ClosureOfDeclared ==
  pc # "types" => \A a, b \in Simple : Le(a, b) <=> Implied(a, b)

(* A declaration is refused only if a part of it contradicts what has been
   accepted: the type is a proper supertype of a component. *)
RefusalJustified ==
  \A r \in refused :
    \E c \in Components(r[2]) : c # r[1] /\ Le(c, r[1])

(* types.h: add_supertype "returns false if the second type is a proper
   subtype of the first type".  (Not so for a union: one component is
   enough, and the components before it stay declared.) *)
RefusedMeansSubtype == \A r \in refused : Subtype(r[2], r[1])

=============================================================================
