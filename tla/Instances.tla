------------------------------ MODULE Instances ------------------------------
(***************************************************************************)
(* One process and its formulas as counted, shared objects: a problem is   *)
(* read, its schema is instantiated (problems.cc, actions.cc), the problem *)
(* is played by a server or by a client, and the process ends.             *)
(*                                                                         *)
(* The loop of the instantiation is the one of module Odometer, with the   *)
(* objects its stack holds beside the words that stand for them there.     *)
(* Problems are those of module Actions, with one schema, without fluents. *)
(* An object that is used after it was deleted makes anything possible:    *)
(* what follows is left out.                                               *)
(***************************************************************************)
EXTENDS Interning

CONSTANTS
  Problems,           (* the problems                                       *)
  TurnLimit(_)        (* bound: how often a problem's atoms change or arrive *)

VARIABLES
  schema,             (* the problem, whose schema is instantiated          *)
  stage, i, next_arg, args, preconds, actions,  (* the loop (Odometer)      *)
  heap,               (* all formulas and effects of the process            *)
  text,               (* what the parser made of the problem                *)
  held,               (* the objects on the stack of preconditions          *)
  made,               (* the actions of the problem                         *)
  role,               (* "loading", "server", "client", "deciding", "over"  *)
  atoms,              (* the atoms of the current state                     *)
  turn                (* how often they have changed or arrived             *)

Schema_(p) == CHOOSE sc \in p.schemata : TRUE
Parameters(p) == Schema_(p).parameters
Lists(p) == [k \in DOMAIN Parameters(p) |-> Compatible[Parameters(p)[k]]]

(* Whether the bindings of the first parameters make a problem's precondition
   a contradiction, as module Formulas has it. *)
RuledOut(p, word) ==
  Contradiction(InstPrecondition(Schema_(p), word, InitialState(p)))

Loop == INSTANCE Odometer
  WITH Schemata <- Problems, Arguments <- Lists, Contradiction <- RuledOut

ASSUME InstancesAssumption == Loop!OdometerAssumption

loop == <<schema, stage, i, next_arg, args, preconds, actions>>
loaded == <<heap, text, held, made>>
played == <<role, atoms, turn>>
vars == <<loop, loaded, played>>

-----------------------------------------------------------------------------
(* The atoms given are made, and each is held.                             *)
Taken(h, S) ==
  FoldSet(LAMBDA a, r : LET m == MakeAtom(r.heap, a.predicate, a.terms)
                        IN  Result(Ref(m.heap, m.at), r.at \cup {m.at}),
          Result(h, {}), S)
GivenBack(h, S) == FoldSet(LAMBDA o, k : Deref(k, o), h, S)
Kept(r) == Result(Ref(r.heap, r.at), r.at)

(* The domain, and then the problem, as the parser leaves them.            *)
Parsed(p) ==
  LET precondition == Kept(Built(NewHeap, Schema_(p).precondition))
      effect == Kept(BuiltEffect(precondition.heap, Schema_(p).effect))
      init == Taken(effect.heap, p.init_atoms)
      goal == Kept(Built(init.heap, p.goal))
  IN  Result(goal.heap, [precondition |-> precondition.at, effect |-> effect.at,
                         init |-> init.at, goal |-> goal.at])

Init ==
  /\ Loop!Init
  /\ heap = Parsed(schema).heap
  /\ text = Parsed(schema).at
  /\ held = <<>>
  /\ made = {}
  /\ role = "loading"
  /\ atoms = {}
  /\ turn = 0

-----------------------------------------------------------------------------
Bound(k) == Parameters(schema)[k] :> Loop!arguments[k][next_arg[k]]

(* ActionSchema::instantiation: r has the precondition. The new action holds
   it and the instance of the effect. *)
WithAction(r, bindings) ==
  LET kept == Ref(r.heap, r.at)
      effect == Kept(InstanceOf(kept, text.effect, bindings, text.init, FALSE))
  IN  Result(effect.heap,
             [arguments |-> [k \in 1 .. Loop!N |-> bindings[Parameters(schema)[k]]],
              precondition |-> r.at, effect |-> effect.at])

Entering(r, bindings) ==
  IF r.at = FALSE_ THEN heap' = r.heap /\ made' = made
  ELSE LET action == WithAction(r, bindings)
       IN  heap' = action.heap /\ made' = made \cup {action.at}

Ground ==
  /\ Loop!Ground
  /\ Entering(InstanceOf(heap, text.precondition, NoSubstitution, text.init, FALSE),
              NoSubstitution)
  /\ UNCHANGED <<text, held, played>>

NoObjects == Loop!NoObjects /\ UNCHANGED <<loaded, played>>

Enter ==
  /\ Loop!Enter
  /\ held' = <<text.precondition>>
  /\ heap' = Ref(heap, text.precondition)
  /\ UNCHANGED <<text, made, played>>

(* The instance of the precondition on top of the stack, pushed.           *)
Instance == InstanceOf(heap, held[Len(held)], Bound(i), text.init, FALSE)
Pushed == Kept(Instance)
SettledHere == Pushed.at = FALSE_ \/ i = Loop!N

Bind ==
  /\ ~heap.dangling
  /\ Loop!Bind /\ ~SettledHere
  /\ heap' = Pushed.heap
  /\ held' = Append(held, Pushed.at)
  /\ UNCHANGED <<text, made, played>>

(* Elements of the stack s are popped until n are left.                    *)
PoppedUncounted(h, s, n) == h                              \* mutant of Popped
Popped(h, s, n) == FoldLeft(Deref, h, Reverse(SubSeq(s, n + 1, Len(s))))

(* All parameters are bound, or the precondition fails: the action is made,
   and the stack goes back to n elements. *)
Settle(n) ==
  LET bindings == [v \in {Parameters(schema)[k] : k \in 1 .. i} |->
                     Bound(CHOOSE k \in 1 .. i : Parameters(schema)[k] = v)[v]]
      pushed == Append(held, Pushed.at)
      action == WithAction(Pushed, bindings)
  IN  /\ SettledHere
      /\ IF Pushed.at = FALSE_
           THEN heap' = Popped(Pushed.heap, pushed, n) /\ made' = made
           ELSE heap' = Popped(action.heap, pushed, n) /\ made' = made \cup {action.at}
      /\ held' = SubSeq(pushed, 1, n)
      /\ UNCHANGED <<text, played>>

Turn == ~heap.dangling /\ Loop!Turn /\ Settle(Len(preconds'))
Finish == ~heap.dangling /\ Loop!Finish /\ Settle(0)

-----------------------------------------------------------------------------
Ready == stage = "returned" /\ ~heap.dangling

(* A round begins: the initial state, whose goal is tested.  A state does not
   hold its atoms. *)
StartServer ==
  /\ Ready /\ role \in {"loading", "server"} /\ turn < TurnLimit(schema)
  /\ role' = "server"
  /\ atoms' = text.init
  /\ heap' = Test(heap, text.goal, text.init).heap
  /\ turn' = turn + 1
  /\ UNCHANGED <<loop, text, held, made>>

(* Action::enabled and State::next.                                        *)
Changed(h, a) == Changes([heap |-> h, adds |-> {}, deletes |-> {}], a.effect, atoms)
ServerTurn ==
  /\ Ready /\ role = "server" /\ turn < TurnLimit(schema)
  /\ \E a \in made :
       LET enabled == Test(heap, a.precondition, atoms)
           change == Changed(enabled.heap, a)
       IN  /\ enabled.at = TRUE_
           /\ atoms' = (atoms \ change.deletes) \cup change.adds
           /\ heap' = Test(change.heap, text.goal, atoms').heap
  /\ turn' = turn + 1
  /\ UNCHANGED <<loop, text, held, made, role>>

(* The states of a server that plays the problem with a client: after at most
   n turns. *)
NoValues == NoSubstitution
StateOf(S) == [atoms |-> S, values |-> NoValues]
After(S, a) ==
  {Affect(c, StateOf(S)).value.atoms : c \in Possible(a.effect, StateOf(S))}
StatesAfter(p) ==
  LET found == Instances(Schema_(p), InitialState(p))
      states[n \in Nat] ==
        IF n = 0 THEN {p.init_atoms}
        ELSE states[n - 1] \cup
               UNION {UNION {After(S, a) : a \in EnabledActions(found, StateOf(S))} :
                        S \in states[n - 1]}
  IN  states[TurnLimit(p)]
Sent(p) == {{a \in S : a.predicate \notin StaticPredicates} : S \in StatesAfter(p)}

(* getState of the client: the atoms are looked up, or made, and held.     *)
Receive ==
  /\ Ready /\ role \in {"loading", "client"} /\ turn < TurnLimit(schema)
  /\ role' = "deciding"
  /\ \E S \in Sent(schema) :
       LET received == Taken(heap, S)
       IN  atoms' = received.at /\ heap' = received.heap
  /\ turn' = turn + 1
  /\ UNCHANGED <<loop, text, held, made>>

(* decideAction tests all actions; then the atoms are given back.          *)
AllTested ==
  FoldSet(LAMBDA a, h : IF h.dangling THEN h ELSE Test(h, a.precondition, atoms).heap,
          heap, made)
Decide ==
  /\ Ready /\ role = "deciding"
  /\ role' = "client"
  /\ heap' = GivenBack(AllTested, atoms)
  /\ atoms' = {}
  /\ UNCHANGED <<loop, text, held, made, turn>>

(* Problem::clear and Domain::clear.                                       *)
Quit ==
  /\ Ready /\ role \in {"loading", "server", "client"}
  /\ role' = "over"
  /\ atoms' = {}
  /\ made' = {}
  /\ heap' =
       LET unread == Deref(GivenBack(heap, text.init), text.goal)
           unmade == FoldSet(LAMBDA a, h : Deref(Deref(h, a.precondition), a.effect),
                             unread, made)
       IN  Deref(Deref(unmade, text.precondition), text.effect)
  /\ UNCHANGED <<loop, text, held, turn>>

Ended == role = "over" /\ UNCHANGED vars

Next ==
  \/ Ground \/ NoObjects \/ Enter \/ Bind \/ Turn \/ Finish
  \/ StartServer \/ ServerTurn \/ Receive \/ Decide \/ Quit
  \/ Ended

(* The loop goes on until it has returned (weak fairness of its steps, of which
   one can be taken until then); nobody has to play. *)
Running == []<><<TRUE>>_loop \/ <>[](stage = "returned")
InstancesSpec == Init /\ [][Next]_vars /\ Running

-----------------------------------------------------------------------------
(* Nothing that was deleted is used, or kept where it will be used: by the
   problem, the stack, the actions, or the current state. *)
Read == <<text.precondition, text.effect, text.goal>>
Roots ==
  (IF role = "over" THEN {} ELSE ToSet(Read) \cup text.init) \cup ToSet(held)
    \cup UNION {{a.precondition, a.effect} : a \in made} \cup atoms
NothingDangles ==
  /\ ~heap.dangling
  /\ Roots \subseteq Live(heap)
  /\ \A o \in Live(heap) :
       \A k \in DOMAIN heap.objects[o].parts : heap.objects[o].parts[k] \in Live(heap)

(* Every count is the number of references that are held (a server's state
   holds none): whatever is deleted is deleted when the last one goes, and
   what is given back was taken. *)
Times(o, s) == Cardinality({k \in DOMAIN s : s[k] = o})
Counted(b) == IF b THEN 1 ELSE 0
Holders(o) ==
  MapThenSumSet(LAMBDA p : Times(o, heap.objects[p].parts), Live(heap))
    + MapThenSumSet(LAMBDA a : Times(o, <<a.precondition, a.effect>>), made)
    + Times(o, held)
    + Counted(role # "over") * (Times(o, Read) + Counted(o \in text.init))
    + Counted(role = "deciding" /\ o \in atoms) + Counted(o \in Statics)
CountsAreHolders ==
  \A o \in Live(heap) : heap.objects[o].count = Holders(o)

(* The table has every ground atom there is, and none twice: two atoms are the
   same if and only if their addresses are. *)
AtomsAreUnique ==
  /\ heap.table = {o \in Live(heap) : heap.objects[o].kind = "atom"
                                        /\ AllObjects(heap.objects[o].terms)}
  /\ \A o, p \in heap.table :
       Equals(heap, o, heap.objects[p].predicate, heap.objects[p].terms) => o = p

HeapIsSound == NothingDangles /\ CountsAreHolders /\ AtomsAreUnique

(* The objects mean what module Formulas and module Effects compute for the
   same text: the stack, the actions (and there are as many), the test of an
   action and of the goal in the current state, and what an action would make
   of it. *)
StackDenotes ==
  \A k \in DOMAIN held :
    Denoted(heap, held[k]) =
      IF k = 1 THEN Schema_(schema).precondition
      ELSE InstPrecondition(Schema_(schema), preconds[k], InitialState(schema))

ValueOfAction(a) ==
  InstAction(Schema_(schema), a.arguments,
             InstPrecondition(Schema_(schema), a.arguments, InitialState(schema)),
             InitialState(schema))
ActionsDenote ==
  /\ role # "over" =>
       Cardinality(made) = Cardinality(actions)
         /\ {a.arguments : a \in made} = {a.precondition : a \in actions}
  /\ \A a \in made : [name |-> Schema_(schema).name, arguments |-> a.arguments,
                      precondition |-> Denoted(heap, a.precondition),
                      effect |-> DenotedEffect(heap, a.effect)] = ValueOfAction(a)

CurrentState == StateOf({Denoted(heap, o) : o \in atoms})
TestsAgree ==
  role \in {"server", "deciding"} =>
    /\ \A a \in made :
         Test(heap, a.precondition, atoms).at = ConstantOf(Enabled(ValueOfAction(a), CurrentState))
    /\ Test(heap, text.goal, atoms).at = ConstantOf(Holds(schema.goal, CurrentState) = "true")

ChangesAgree ==
  role = "server" =>
    \A a \in made :
      LET change == Changed(heap, a)
          changed == (atoms \ change.deletes) \cup change.adds
      IN  After(CurrentState.atoms, ValueOfAction(a)) = {{Denoted(heap, o) : o \in changed}}

InstancesDenote ==
  NothingDangles => StackDenotes /\ ActionsDenote /\ TestsAgree /\ ChangesAgree

(* What is proved of the loop holds here too.                              *)
AllAndOnly == Loop!AllAndOnly
InStep == Loop!InStep
Returns == Loop!Returns
=============================================================================
