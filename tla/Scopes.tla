------------------------------- MODULE Scopes -------------------------------
(***************************************************************************)
(* Variables in the parser (parser.yy): action schemata, quantified        *)
(* formulas and quantified effects declare parameters, and a name below    *)
(* them stands for one of those.  The parser keeps two stacks for that,    *)
(* the frames of the context and the list quantified, on which the         *)
(* parameters of each open quantifier lie above a marker.  The history     *)
(* variables follow the text: which scopes are open, and what each use of  *)
(* a name refers to there.                                                 *)
(***************************************************************************)
EXTENDS Integers, Sequences, SequencesExt

CONSTANTS
  VariableNames,  (* names of variables                                     *)
  MaxVariables,   (* bound: variables created                               *)
  MaxScopes,      (* bound: scopes opened                                   *)
  MaxUses,        (* bound: uses of names                                   *)
  GoalNames       (* names used in a goal outside its quantifiers           *)

VARIABLES
  text,           (* what is being parsed: "file", "action" or "goal"       *)
  frames,         (* the context: a map from names to variables for each
                     scope                                                  *)
  quantified,     (* variables of the open quantifiers, above markers       *)
  parameters,     (* the parameters of the action                           *)
  created,        (* variable_types_.size()                                 *)
  outcome,        (* "good", "error" when one was reported, or "undefined"  *)
  open,           (* history: the scopes around the current place           *)
  closed,         (* history: the parameters of the scopes that are closed  *)
  uses,           (* history: the places names were used for, and variables *)
  count           (* history: scopes opened, uses counted                   *)

scopeVars == <<text, frames, quantified, parameters, created, outcome, open,
               closed, uses, count>>

Marker == 0
Quantifiers == {"exists", "forall", "effect"}

ScopeInit ==
  /\ text = "file" /\ frames = <<>> /\ quantified = <<>> /\ parameters = <<>>
  /\ created = 0 /\ outcome = "good"
  /\ open = <<>> /\ closed = {} /\ uses = {} /\ count = [scopes |-> 0, uses |-> 0]

(* A scope: what opened it, how long the list quantified was then, the names
   it declares so far, and whether they are complete. *)
Scope(kind) ==
  [kind |-> kind, number |-> count.scopes + 1, from |-> Len(quantified),
   names |-> <<>>, body |-> FALSE]
OpenScope(kind) ==
  /\ count.scopes < MaxScopes
  /\ count' = [count EXCEPT !.scopes = @ + 1]
  /\ open' = Append(IF open = <<>> THEN open
                    ELSE [open EXCEPT ![Len(open)].body = TRUE], Scope(kind))
CloseScope(params) ==
  /\ closed' = closed \cup {[number |-> Last(open).number, parameters |-> params]}
  /\ open' = Front(open)

MakeAction ==
  /\ outcome # "undefined" /\ text = "file"
  /\ OpenScope("action")
  /\ text' = "action"
  /\ frames' = Append(frames, <<>>)
  /\ parameters' = <<>>
  /\ UNCHANGED <<quantified, created, outcome, closed, uses>>

AddAction ==
  /\ outcome # "undefined" /\ text = "action" /\ Len(open) = 1
  /\ CloseScope(parameters)
  /\ text' = "file"
  /\ frames' = Front(frames)
  /\ UNCHANGED <<quantified, parameters, created, outcome, uses, count>>

(* A goal has no scope of its own.                                         *)
StartGoal ==
  /\ outcome # "undefined" /\ text = "file"
  /\ text' = "goal"
  /\ UNCHANGED <<frames, quantified, parameters, created, outcome, open, closed,
                 uses, count>>
EndGoal ==
  /\ outcome # "undefined" /\ text = "goal" /\ open = <<>>
  /\ text' = "file"
  /\ UNCHANGED <<frames, quantified, parameters, created, outcome, open, closed,
                 uses, count>>

(* prepare_exists, prepare_forall and prepare_forall_effect.               *)
PrepareQuantifier(kind) ==
  /\ outcome # "undefined" /\ text # "file"
  /\ kind = "effect" => text = "action"
  /\ OpenScope(kind)
  /\ frames' = Append(frames, <<>>)
  /\ quantified' = Append(quantified, Marker)
  /\ UNCHANGED <<text, parameters, created, outcome, closed, uses>>

(* Variables: those in a list of names get the next numbers; a frame keeps
   the variable it has for a name. *)
Variables(ns) == [i \in 1 .. Len(ns) |-> created + i]
FirstPlace(ns, name) == CHOOSE i \in 1 .. Len(ns) :
                          ns[i] = name /\ \A j \in 1 .. i - 1 : ns[j] # name
Inserted(frame, ns) ==
  [name \in DOMAIN frame \cup ToSet(ns) |->
     IF name \in DOMAIN frame THEN frame[name] ELSE created + FirstPlace(ns, name)]

(* A name that the scope has already is an error, one that a scope around it
   has is at most a warning. *)
AddVariables(ns) ==
  /\ outcome # "undefined" /\ open # <<>> /\ ~Last(open).body
  /\ created + Len(ns) <= MaxVariables
  /\ created' = created + Len(ns)
  /\ frames' = [frames EXCEPT ![Len(frames)] = Inserted(@, ns)]
  /\ IF quantified # <<>>
       THEN quantified' = quantified \o Variables(ns) /\ UNCHANGED parameters
       ELSE parameters' = parameters \o Variables(ns) /\ UNCHANGED quantified
  /\ outcome' = IF IsInjective(ns) /\ ToSet(ns) \cap DOMAIN Last(frames) = {}
                  THEN outcome ELSE "error"
  /\ open' = [open EXCEPT ![Len(open)].names = @ \o ns]
  /\ UNCHANGED <<text, closed, uses, count>>

(* The frames that know a name; the context is searched from the top.      *)
Knowing(name) == {i \in 1 .. Len(frames) : name \in DOMAIN frames[i]}
Outermost(name) == frames[CHOOSE i \in Knowing(name) :
                            \A j \in Knowing(name) : i <= j][name]
Find(name) == frames[CHOOSE i \in Knowing(name) :
                       \A j \in Knowing(name) : j <= i][name]

(* What a name refers to in the text.                                      *)
Declaring(name) == {i \in 1 .. Len(open) : name \in ToSet(open[i].names)}
Innermost(name) == open[CHOOSE i \in Declaring(name) :
                          \A j \in Declaring(name) : j <= i]
Use(name) ==
  [number |-> Innermost(name).number,
   place |-> FirstPlace(Innermost(name).names, name),
   variable |-> Find(name)]

CountUse ==
  /\ count.uses < MaxUses
  /\ count' = [count EXCEPT !.uses = @ + 1]
  /\ open' = IF open = <<>> THEN open ELSE [open EXCEPT ![Len(open)].body = TRUE]

MakeTermBound(name) ==
  /\ outcome # "undefined" /\ text # "file" /\ Knowing(name) # {}
  /\ CountUse
  /\ uses' = IF Declaring(name) = {} THEN uses ELSE uses \cup {Use(name)}
  /\ UNCHANGED <<text, frames, quantified, parameters, created, outcome, closed>>

(* A free variable is put into the frame of the innermost scope and
   reported; outside all scopes there is no frame to put it into. *)
MakeTermFree(name) ==
  /\ outcome # "undefined" /\ text # "file" /\ Knowing(name) = {}
  /\ open = <<>> => name \in GoalNames
  /\ created < MaxVariables
  /\ CountUse
  /\ created' = created + 1
  /\ IF frames = <<>>
       THEN outcome' = "undefined" /\ UNCHANGED frames
       ELSE /\ outcome' = "error"
            /\ frames' = [frames EXCEPT ![Len(frames)] = Inserted(@, <<name>>)]
  /\ UNCHANGED <<text, quantified, parameters, closed, uses>>

(* The topmost marker, and what lies above it.                             *)
TopMarker == CHOOSE i \in 1 .. Len(quantified) :
               /\ quantified[i] = Marker
               /\ \A j \in i + 1 .. Len(quantified) : quantified[j] # Marker
Above == SubSeq(quantified, TopMarker + 1, Len(quantified))

(* make_exists, make_forall and make_forall_effect; a quantifier without
   parameters is left out of the formula. *)
MakeQuantified(kind) ==
  /\ outcome # "undefined" /\ open # <<>> /\ Last(open).kind = kind
  /\ CloseScope(Above)
  /\ frames' = Front(frames)
  /\ quantified' = SubSeq(quantified, 1, TopMarker - 1)
  /\ UNCHANGED <<text, parameters, created, outcome, uses, count>>

ScopeNext ==
  \/ MakeAction \/ AddAction \/ StartGoal \/ EndGoal
  \/ \E kind \in Quantifiers : PrepareQuantifier(kind) \/ MakeQuantified(kind)
  \/ \E m, n \in VariableNames : AddVariables(<<m>>) \/ AddVariables(<<m, n>>)
  \/ \E name \in VariableNames : MakeTermBound(name) \/ MakeTermFree(name)

ScopeSpec == ScopeInit /\ [][ScopeNext]_scopeVars

-----------------------------------------------------------------------------
(* Without an error, every use of a name ends up with the parameter of the
   innermost scope in the text that declares the name, in that scope's own
   list and at its place there, however names are shadowed and scopes nest:
   what the two stacks do separately fits together. *)
BoundWhereWritten ==
  outcome = "good" =>
    \A u \in uses, s \in closed :
      u.number = s.number =>
        u.place \in DOMAIN s.parameters /\ u.variable = s.parameters[u.place]

(* Without an error, no variable is a parameter of two scopes, or twice of
   one: an inner quantifier neither takes from nor adds to the lists around
   it. *)
ParametersAreOwn ==
  outcome = "good" =>
    \A s, t \in closed : \A i \in DOMAIN s.parameters, j \in DOMAIN t.parameters :
      s.parameters[i] = t.parameters[j] => s = t /\ i = j

(* Whatever was reported on the way, nothing is left on the stacks when no
   scope is open, so that one definition cannot disturb the next. *)
NothingIsLeft == open = <<>> => frames = <<>> /\ quantified = <<>>

(* Names are scoped as the text nests (parser.yy:1310-1406): the two stacks
   together bind each use where it was written, share no parameter between
   scopes, and leave nothing behind. *)
ScopesAreLexical == BoundWhereWritten /\ ParametersAreOwn /\ NothingIsLeft

(* parser.yy:1006 reports "free variable used" for a name that no scope
   declares. *)
FreeVariablesAreReported == outcome # "undefined"
=============================================================================
