----------------------------- MODULE Interning -----------------------------
(***************************************************************************)
(* Formulas and effects as the objects they are: counted (refcount.h), and *)
(* shared as far as ground atoms go, which are interned in a table         *)
(* (Atom::make).  The module Formulas takes them for values; here are the  *)
(* same operations with every reference that is taken and given back, and  *)
(* every object that is deleted on the way.                                *)
(*                                                                         *)
(* A heap has the objects by their addresses, which are not used again,    *)
(* the table of ground atoms, and whether anybody has used an object that  *)
(* was deleted.  An operation returns a heap and an address.  The numeric  *)
(* parts of conditions and effects, equalities and probabilistic effects,  *)
(* which are counted in the same way, are left out.                        *)
(***************************************************************************)
EXTENDS Actions

(* Objects: parts are the objects it holds a reference to.                 *)
Object(kind, predicate, terms, parts) ==
  [kind |-> kind, predicate |-> predicate, terms |-> terms, parts |-> parts, count |-> 0]
Nothing == Object("constant", "", <<>>, <<>>)

(* TRUE, FALSE and the empty effect, which hold themselves.                *)
TRUE_ == 1
FALSE_ == 2
EMPTY_ == 3
Statics == {TRUE_, FALSE_, EMPTY_}
NewHeap ==
  [objects |-> [o \in Statics |-> [Nothing EXCEPT !.count = 1]],
   table |-> {}, next |-> 4, dangling |-> FALSE]

Live(h) == DOMAIN h.objects
Result(h, o) == [heap |-> h, at |-> o]
Dangling(h) == [h EXCEPT !.dangling = TRUE]
Lost(h) == Result(Dangling(h), FALSE_)

-----------------------------------------------------------------------------
(* RCObject::ref, and destructive_deref with the destructors it runs.  A
   deleted atom leaves the table only if it is the one that is there. *)
Ref(h, o) ==
  IF o \in Live(h) THEN [h EXCEPT !.objects[o].count = @ + 1] ELSE Dangling(h)

Released(h, o) ==
  [h EXCEPT !.objects = [p \in Live(h) \ {o} |-> @[p]], !.table = @ \ {o}]

RECURSIVE Deref(_, _)
Deref(h, o) ==
  IF o \notin Live(h) THEN Dangling(h)
  ELSE IF h.objects[o].count # 1 THEN [h EXCEPT !.objects[o].count = @ - 1]
  ELSE FoldLeft(Deref, Released(h, o), h.objects[o].parts)

Drop(h, o) == Deref(Ref(h, o), o)

Allocate(h, node) ==
  Result([h EXCEPT !.objects = (h.next :> node) @@ @, !.next = @ + 1], h.next)
New(h, kind, predicate, terms, parts) ==
  Allocate(FoldLeft(Ref, h, parts), Object(kind, predicate, terms, parts))

(* Atom::make.                                                             *)
Equals(h, o, predicate, terms) ==
  h.objects[o].predicate = predicate /\ h.objects[o].terms = terms
Interned(h, predicate, terms) == {o \in h.table : Equals(h, o, predicate, terms)}
Entered(r) == Result([r.heap EXCEPT !.table = @ \cup {r.at}], r.at)

NewAtom(h, predicate, terms) ==
  IF AllObjects(terms) THEN Entered(New(h, "atom", predicate, terms, <<>>))
  ELSE New(h, "atom", predicate, terms, <<>>)
MakeAtom(h, predicate, terms) ==
  LET there == Interned(h, predicate, terms) IN
  IF AllObjects(terms) /\ there # {} THEN Result(h, CHOOSE o \in there : TRUE)
  ELSE NewAtom(h, predicate, terms)

(* The truth of an atom that is looked up in a set of atoms: by address.   *)
ConstantOf(b) == IF b THEN TRUE_ ELSE FALSE_

-----------------------------------------------------------------------------
(* The operators && and || of formulas, and && of effects: what decides the
   result, what does nothing to it, and what it is made of otherwise. *)
Deciding(kind) == CASE kind = "and" -> FALSE_ [] kind = "or" -> TRUE_ [] OTHER -> 0
Neutral(kind) == CASE kind = "and" -> TRUE_ [] kind = "or" -> FALSE_ [] OTHER -> EMPTY_

(* Adds an operand to the object o: its parts, or itself.                  *)
AddPart(r, kind, f) ==
  IF r.heap.dangling \/ f \notin Live(r.heap) THEN Lost(r.heap)
  ELSE LET more == IF r.heap.objects[f].kind = kind THEN r.heap.objects[f].parts ELSE <<f>>
           held == [FoldLeft(Ref, r.heap, more) EXCEPT !.objects[r.at].parts = @ \o more]
       IN  Result(IF more = <<f>> THEN held ELSE Drop(held, f), r.at)

Join(h, kind, f, g) ==
  CASE f = g /\ kind # "both" -> Result(h, f)
    [] f # g /\ f = Deciding(kind) -> Result(Drop(h, g), f)
    [] f # g /\ g = Deciding(kind) -> Result(Drop(h, f), g)
    [] f = Neutral(kind) /\ (f # g \/ kind = "both") -> Result(h, g)
    [] g = Neutral(kind) /\ f # g -> Result(h, f)
    [] OTHER -> AddPart(AddPart(New(h, kind, "", <<>>, <<>>), kind, f), kind, g)

NewNegation(h, f) ==
  CASE f = TRUE_ -> Result(h, FALSE_)
    [] f = FALSE_ -> Result(h, TRUE_)
    [] OTHER -> New(h, "not", "", <<>>, <<f>>)

NewQuantified(h, kind, params, f) ==
  IF params = <<>> \/ f \in Statics THEN Result(h, f) ELSE New(h, kind, "", params, <<f>>)

NewConditional(h, condition, effect) ==
  CASE condition = TRUE_ -> Result(h, effect)
    [] condition = FALSE_ \/ effect = EMPTY_ -> Result(h, EMPTY_)
    [] OTHER -> New(h, "when", "", <<>>, <<condition, effect>>)

(* An operation on what another has made.                                  *)
Into(r, F(_, _)) ==
  IF r.heap.dangling \/ r.at \notin Live(r.heap) THEN Lost(r.heap)
  ELSE F(r.heap, r.at)

-----------------------------------------------------------------------------
(* StateFormula::instantiation, with the set of the (addresses of) atoms that
   are true.  What does not change is returned itself. *)
ResolvesStatic(predicate, state) == predicate \in StaticPredicates  \* mutant of Resolves
Resolves(predicate, state) == state \/ predicate \in StaticPredicates

InstAtomAt(h, o, subst, atoms, state) ==
  LET f == h.objects[o]
      inst == Replace(f.terms, subst)
      settled(r) == IF Resolves(f.predicate, state) /\ AllObjects(inst)
                      THEN Result(r.heap, ConstantOf(r.at \in atoms)) ELSE r
  IN  CASE f.terms = <<>> -> settled(Result(h, o))
        [] f.terms # <<>> /\ Substituted(f.terms, subst) ->
             settled(MakeAtom(h, f.predicate, inst))
        [] OTHER -> Result(h, o)

RECURSIVE InstanceOf(_, _, _, _, _), Expanded(_, _, _, _, _, _, _)

(* The loop of a quantifier from the parameters params on; top is the body as
   instantiated so far, which the stack of the loop holds. *)
Joined(kind) == CASE kind = "exists" -> "or" [] kind = "forall" -> "and" [] OTHER -> "both"

Expanded(h, kind, top, params, acc, atoms, state) ==
  FoldLeft(LAMBDA r, x :
             IF r.heap.dangling \/ r.at = Deciding(Joined(kind)) THEN r
             ELSE Into(InstanceOf(r.heap, top, Head(params) :> x, atoms, state),
                       LAMBDA g, inst :
                         IF Len(params) = 1 THEN Join(g, Joined(kind), r.at, inst)
                         ELSE Into(Expanded(Ref(g, inst), kind, inst, Tail(params), r.at, atoms, state),
                                   LAMBDA k, all : Result(Deref(k, inst), all))),
           Result(h, acc), Compatible[Head(params)])

InstQuantified(h, o, subst, atoms, state) ==
  LET f == h.objects[o]
      none == Neutral(Joined(f.kind))
  IN  IF \E i \in DOMAIN f.terms : Compatible[f.terms[i]] = <<>> THEN Result(h, none)
      ELSE Into(InstanceOf(h, f.parts[1], subst, atoms, state), LAMBDA g, body :
             Into(Expanded(Ref(g, body), f.kind, body, f.terms, none, atoms, state),
                  LAMBDA k, all : Result(Deref(k, body), all)))

(* Effect::instantiation.  An effect on an atom is kept with the atom.     *)
InstSimple(h, o, subst) ==
  LET e == h.objects[o]
      atom == h.objects[e.parts[1]]
  IN  IF ~Substituted(atom.terms, subst) THEN Result(h, o)
      ELSE Into(MakeAtom(h, atom.predicate, Replace(atom.terms, subst)),
                LAMBDA g, inst : New(g, e.kind, "", <<>>, <<inst>>))

InstanceOf(h, o, subst, atoms, state) ==
  IF o \notin Live(h) THEN Lost(h) ELSE
  LET f == h.objects[o]
      part(g, i) == InstanceOf(g, f.parts[i], subst, atoms, state)
  IN
  CASE f.kind = "constant" -> Result(h, o)
    [] f.kind = "atom" -> InstAtomAt(h, o, subst, atoms, state)
    [] f.kind = "not" ->
         Into(part(h, 1), LAMBDA g, inst :
                IF inst = f.parts[1] THEN Result(g, o) ELSE NewNegation(g, inst))
    [] f.kind \in {"and", "or"} ->
         FoldLeft(LAMBDA r, i :
                    IF r.heap.dangling \/ r.at = Deciding(f.kind) THEN r
                    ELSE Into(part(r.heap, i), LAMBDA g, inst : Join(g, f.kind, r.at, inst)),
                  Result(h, Neutral(f.kind)), [i \in DOMAIN f.parts |-> i])
    [] f.kind \in {"add", "delete"} -> InstSimple(h, o, subst)
    [] f.kind = "both" ->
         FoldLeft(LAMBDA r, i :
                    Into(part(r.heap, i), LAMBDA g, inst : AddPart(Result(g, r.at), f.kind, inst)),
                  New(h, f.kind, "", <<>>, <<>>), [i \in DOMAIN f.parts |-> i])
    [] f.kind = "when" ->
         Into(part(h, 1), LAMBDA g, condition :
           Into(part(g, 2), LAMBDA k, effect : NewConditional(k, condition, effect)))
    [] OTHER -> InstQuantified(h, o, subst, atoms, state)

-----------------------------------------------------------------------------
(* StateFormula::holds; what a quantifier is instantiated to is left behind.
   The result has TRUE_ or FALSE_. *)
RECURSIVE Test(_, _, _)
Test(h, o, atoms) ==
  IF o \notin Live(h) THEN Lost(h) ELSE
  LET f == h.objects[o]
      until(answer) ==
        FoldLeft(LAMBDA r, p : IF r.at = answer THEN r ELSE Test(r.heap, p, atoms),
                 Result(h, IF answer = TRUE_ THEN FALSE_ ELSE TRUE_), f.parts)
  IN
  CASE f.kind = "constant" -> Result(h, o)
    [] f.kind = "atom" -> Result(h, ConstantOf(o \in atoms))
    [] f.kind = "not" ->
         Into(Test(h, f.parts[1], atoms), LAMBDA g, b : Result(g, ConstantOf(b = FALSE_)))
    [] f.kind \in {"and", "or"} -> until(Deciding(f.kind))
    [] OTHER ->
         Into(InstanceOf(h, o, NoSubstitution, atoms, TRUE),
              LAMBDA g, all : Result(g, ConstantOf(all = TRUE_)))

(* Effect::state_change: the heap, and the atoms to be added and deleted.  *)
RECURSIVE Changes(_, _, _)
Changes(c, o, atoms) ==
  IF c.heap.dangling \/ o \notin Live(c.heap) THEN [c EXCEPT !.heap = Dangling(@)] ELSE
  LET e == c.heap.objects[o] IN
  CASE e.kind = "add" -> [c EXCEPT !.adds = @ \cup {e.parts[1]}]
    [] e.kind = "delete" -> [c EXCEPT !.deletes = @ \cup {e.parts[1]}]
    [] e.kind = "both" -> FoldLeft(LAMBDA d, p : Changes(d, p, atoms), c, e.parts)
    [] e.kind = "when" ->
         LET r == Test(c.heap, e.parts[1], atoms)
         IN  IF r.at = TRUE_ THEN Changes([c EXCEPT !.heap = r.heap], e.parts[2], atoms)
             ELSE [c EXCEPT !.heap = r.heap]
    [] OTHER -> c

-----------------------------------------------------------------------------
(* The objects that the handlers of the parser make of a text, given as the
   formula or the effect that it is. *)
RECURSIVE Built(_, _), BuiltEffect(_, _)
Built(h, f) ==
  CASE f.kind = "constant" -> Result(h, ConstantOf(f.value))
    [] f.kind = "atom" -> MakeAtom(h, f.predicate, f.terms)
    [] f.kind = "not" -> Into(Built(h, f.negand), NewNegation)
    [] f.kind \in {"and", "or"} ->
         FoldLeft(LAMBDA r, g : Into(Built(r.heap, g),
                                     LAMBDA k, part : Join(k, f.kind, r.at, part)),
                  Result(h, Neutral(f.kind)), f.parts)
    [] OTHER ->
         Into(Built(h, f.body),
              LAMBDA g, body : NewQuantified(g, f.kind, f.parameters, body))

BuiltEffect(h, e) ==
  CASE e = Empty -> Result(h, EMPTY_)
    [] e.kind \in {"add", "delete"} ->
         Into(MakeAtom(h, e.atom.predicate, e.atom.terms),
              LAMBDA g, atom : New(g, e.kind, "", <<>>, <<atom>>))
    [] e.kind = "and" ->
         FoldLeft(LAMBDA r, c : Into(BuiltEffect(r.heap, c),
                                     LAMBDA k, part : Join(k, "both", r.at, part)),
                  Result(h, EMPTY_), e.conjuncts)
    [] e.kind = "when" ->
         Into(Built(h, e.condition), LAMBDA g, condition :
           Into(BuiltEffect(g, e.effect),
                LAMBDA k, effect : NewConditional(k, condition, effect)))
    [] OTHER ->
         Into(BuiltEffect(h, e.effect),
              LAMBDA g, effect : NewQuantified(g, "each", e.parameters, effect))

(* And back: the formula or the effect that an object stands for.          *)
RECURSIVE Denoted(_, _), DenotedEffect(_, _)
Denoted(h, o) ==
  LET f == h.objects[o]
      parts == [k \in DOMAIN f.parts |-> Denoted(h, f.parts[k])]
  IN
  CASE o \in Statics -> Constant(o = TRUE_)
    [] f.kind = "atom" -> Atom(f.predicate, f.terms)
    [] f.kind = "not" -> Not(parts[1])
    [] f.kind = "and" -> Conjunction(parts)
    [] f.kind = "or" -> Disjunction(parts)
    [] OTHER -> Quantified(f.kind, f.terms, parts[1])

DenotedEffect(h, o) ==
  LET e == h.objects[o] IN
  CASE o = EMPTY_ -> Empty
    [] e.kind = "add" -> AddEffect(Denoted(h, e.parts[1]))
    [] e.kind = "delete" -> DeleteEffect(Denoted(h, e.parts[1]))
    [] e.kind = "both" ->
         ConjunctiveEffect([k \in DOMAIN e.parts |-> DenotedEffect(h, e.parts[k])])
    [] e.kind = "when" ->
         ConditionalEffect(Denoted(h, e.parts[1]), DenotedEffect(h, e.parts[2]))
    [] OTHER -> QuantifiedEffect(e.terms, DenotedEffect(h, e.parts[1]))
=============================================================================
