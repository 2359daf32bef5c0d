------------------------------ MODULE Odometer ------------------------------
(***************************************************************************)
(* ActionSchema::instantiations (actions.cc): one action for every tuple   *)
(* of arguments that the precondition does not rule out.  The loop binds   *)
(* the parameters in order, keeps the precondition as instantiated so far  *)
(* on a stack, and turns to the next tuple like an odometer as soon as all *)
(* parameters are bound or the precondition has become a contradiction.    *)
(* The quantifiers of formulas.cc and effects.cc loop in the same way.     *)
(*                                                                         *)
(* An instance of the precondition is represented by the sequence of the   *)
(* objects that have been put into it, the one without any being the       *)
(* precondition itself.  Positions count from 1.  An exception thrown by   *)
(* an instantiation ends the program and is left out here.                 *)
(***************************************************************************)
EXTENDS Integers, Sequences

CONSTANTS
  Objects,            (* the objects of the problem                         *)
  Schemata,           (* the action schemata of its domain                  *)
  Arguments(_),       (* for each parameter, the list of its objects        *)
  Contradiction(_, _) (* whether a precondition becomes a contradiction     *)

(* What is assumed of them.                                                *)
OdometerAssumption ==
  \A s \in Schemata : Arguments(s) \in Seq(Seq(Objects))

VARIABLES
  schema,             (* the schema that is instantiated                    *)
  stage,              (* "called", "looping" or "returned"                  *)
  i,                  (* the parameter to bind                              *)
  next_arg,           (* for each parameter, a position in its list         *)
  args,               (* the bindings, a map from parameters to objects     *)
  preconds,           (* the stack of preconditions                         *)
  actions             (* the actions found                                  *)

vars == <<schema, stage, i, next_arg, args, preconds, actions>>

arguments == Arguments(schema)
N == Len(arguments)

Action(arg, precond) == [arguments |-> arg, precondition |-> precond]
NoArgs == [k \in {} |-> k]

Init ==
  /\ schema \in Schemata
  /\ stage = "called"
  /\ i = 1
  /\ next_arg = [k \in 1 .. N |-> 1]
  /\ args = NoArgs
  /\ preconds = <<>>
  /\ actions = {}

(* A schema without parameters is its own instance.                        *)
Ground ==
  /\ stage = "called" /\ N = 0
  /\ stage' = "returned"
  /\ actions' = IF Contradiction(schema, <<>>) THEN {}
                ELSE {Action(<<>>, <<>>)}
  /\ UNCHANGED <<schema, i, next_arg, args, preconds>>

(* There is no object for one of the parameters.                           *)
NoObjects ==
  /\ stage = "called" /\ \E k \in 1 .. N : arguments[k] = <<>>
  /\ stage' = "returned"
  /\ UNCHANGED <<schema, i, next_arg, args, preconds, actions>>

Enter ==
  /\ stage = "called" /\ N > 0 /\ \A k \in 1 .. N : arguments[k] # <<>>
  /\ stage' = "looping"
  /\ preconds' = << <<>> >>
  /\ UNCHANGED <<schema, i, next_arg, args, actions>>

(* The parameter is bound (a map does not replace a binding it has), in the
   bindings and in the precondition on top of the stack. *)
Object == arguments[i][next_arg[i]]
Bindings ==
  [k \in DOMAIN args \cup {i} |-> IF k \in DOMAIN args THEN args[k] ELSE Object]
Precond == Append(preconds[Len(preconds)], Object)

Settled == i = N \/ Contradiction(schema, Precond)

Bind ==
  /\ stage = "looping" /\ ~Settled
  /\ args' = Bindings
  /\ preconds' = Append(preconds, Precond)
  /\ i' = i + 1
  /\ UNCHANGED <<schema, stage, next_arg, actions>>

Found ==
  IF Contradiction(schema, Precond) THEN actions
  ELSE actions \cup {Action(Bindings, Precond)}

(* Whether there is another object for parameter k after its current one.  *)
RoomButLast(k) == next_arg[k] + 1 < Len(arguments[k])
Room(k) == next_arg[k] < Len(arguments[k])

(* The bindings that remain when parameters from j on are unbound.         *)
KeepBindings(j) == Bindings
Unbind(j) == [k \in DOMAIN Bindings \ (j .. i) |-> Bindings[k]]

(* The parameters after j start again, j stays where it is.                *)
TurnedInPlace(j) ==
  [k \in 1 .. N |-> IF k \in j + 1 .. i THEN 1 ELSE next_arg[k]]

(* The parameters after j start again.                                     *)
Turned(j) ==
  [k \in 1 .. N |-> IF k = j THEN next_arg[k] + 1
                    ELSE IF k \in j + 1 .. i THEN 1 ELSE next_arg[k]]

(* The last of the bound parameters that has another object gets it.       *)
Turn ==
  /\ stage = "looping" /\ Settled
  /\ actions' = Found
  /\ \E j \in 1 .. i :
       /\ Room(j) /\ \A k \in j + 1 .. i : ~Room(k)
       /\ next_arg' = Turned(j)
       /\ args' = Unbind(j)
       /\ preconds' = SubSeq(preconds, 1, j)
       /\ i' = j
  /\ UNCHANGED <<schema, stage>>

(* None has; the loop ends and the stack is emptied.                       *)
Finish ==
  /\ stage = "looping" /\ Settled
  /\ \A k \in 1 .. i : ~Room(k)
  /\ actions' = Found
  /\ next_arg' = Turned(1)
  /\ args' = Unbind(1)
  /\ preconds' = <<>>
  /\ i' = N + 1
  /\ stage' = "returned"
  /\ UNCHANGED schema

Next == Ground \/ NoObjects \/ Enter \/ Bind \/ Turn \/ Finish

(* The loop runs to its end.                                               *)
Spec == Init /\ [][Next]_vars /\ WF_vars(Next)

-----------------------------------------------------------------------------
(* The tuples of positions in the lists of schema s, and the first k objects
   of such a tuple. *)
Places(s) == UNION {1 .. Len(Arguments(s)[k]) : k \in 1 .. Len(Arguments(s))}
Positions(s) ==
  {q \in [1 .. Len(Arguments(s)) -> Places(s)] :
     \A k \in 1 .. Len(Arguments(s)) : q[k] \in 1 .. Len(Arguments(s)[k])}
Word(s, q, k) == [m \in 1 .. k |-> Arguments(s)[m][q[m]]]

(* The tuples that the precondition allows, with no part of them.          *)
Selected(s) ==
  {q \in Positions(s) :
     /\ \A k \in 1 .. Len(Arguments(s)) : ~Contradiction(s, Word(s, q, k))
     /\ Len(Arguments(s)) = 0 => ~Contradiction(s, <<>>)}

ActionFor(s, q) ==
  Action(Word(s, q, Len(Arguments(s))), Word(s, q, Len(Arguments(s))))

(* Every tuple of arguments that the precondition allows gives an action,
   whose bindings are those of its precondition, and no other does. *)
AllAndOnly ==
  stage = "returned" => actions = {ActionFor(schema, q) : q \in Selected(schema)}

(* At the head of the loop the bindings and the stack hold exactly the
   parameters before i, and no list has been read past its end. *)
InStep ==
  stage = "looping" =>
    /\ i \in 1 .. N
    /\ next_arg \in Positions(schema)
    /\ args = Word(schema, next_arg, i - 1)
    /\ preconds = [k \in 1 .. i |-> Word(schema, next_arg, k - 1)]

(* Every call returns.                                                     *)
Returns == <>(stage = "returned")
=============================================================================
