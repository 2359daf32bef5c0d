------------------------------ MODULE Symbols ------------------------------
(***************************************************************************)
(* Predicates, functions and objects in the parser (parser.yy): what is    *)
(* declared, what is declared by being used, and the check of every atom   *)
(* and fluent against the declaration of its symbol.  The parser keeps the *)
(* symbol that it is in the middle of in static variables.                 *)
(*                                                                         *)
(* A type is the set of its components, flat ones here: the hierarchy is   *)
(* the subject of TypeTable.                                               *)
(***************************************************************************)
EXTENDS Naturals, Sequences, FiniteSets

CONSTANTS
  PredicateNames, FunctionNames, ObjectNames,
  VariableTypes,  (* types of the parameters of actions                     *)
  Types,          (* types that declarations mention                        *)
  MaxParameters,  (* bound: parameters of a symbol                          *)
  MaxTerms,       (* bound: terms of an atom or fluent                      *)
  MaxBuilt        (* bound: atoms and fluents in the text                   *)

ASSUME SymbolsAssumption == "none" \notin PredicateNames \cup FunctionNames

VARIABLES
  part,           (* of the text: "domain", "actions", "objects" or "init"  *)
  predicates, functions,  (* parameter types of the symbols in the tables   *)
  constants,      (* types of the objects in the domain's table             *)
  objects,        (* types of the objects in the problem's table            *)
  declaring,      (* the statics predicate, function, repeated_predicate
                     and repeated_function                                  *)
  atom_predicate, undeclared_atom_predicate,
  fluent_function, undeclared_fluent_function,
  term_parameters,
  success,        (* no error was reported                                  *)
  built           (* history: atoms and fluents                             *)

tables == <<predicates, functions, constants, objects>>
phrase == <<atom_predicate, undeclared_atom_predicate, fluent_function,
            undeclared_fluent_function, term_parameters>>
symbolVars == <<part, tables, declaring, phrase, success, built>>

FLAT_OBJECT == {"object"}
NoName == "none"
Empty == <<>>
NotDeclaring == [table |-> NoName, name |-> NoName, repeated |-> FALSE]

(* TypeTable::subtype and TypeTable::components for flat types.            *)
FlatSubtype(S, T) == \A s \in S : "object" \in T \/ s \in T
FlatComponents(T) == IF T = FLAT_OBJECT THEN {} ELSE T

SymbolInit ==
  /\ part = "domain"
  /\ predicates = Empty /\ functions = Empty /\ constants = Empty /\ objects = Empty
  /\ declaring = NotDeclaring
  /\ atom_predicate = NoName /\ undeclared_atom_predicate = FALSE
  /\ fluent_function = NoName /\ undeclared_fluent_function = FALSE
  /\ term_parameters = <<>>
  /\ success = TRUE
  /\ built = {}

(* The sections of a domain come in any order.                             *)
Following == [domain |-> "actions", actions |-> "objects", objects |-> "init"]
NextPart ==
  /\ part \in DOMAIN Following
  /\ declaring = NotDeclaring /\ atom_predicate = NoName /\ fluent_function = NoName
  /\ part' = Following[part]
  /\ UNCHANGED <<tables, declaring, phrase, success, built>>

-----------------------------------------------------------------------------
(* A table with a name that it may have had.                               *)
Adding(table, name, value) ==
  [x \in DOMAIN table \cup {name} |-> IF x \in DOMAIN table THEN table[x] ELSE value]

MakePredicate(p) ==
  /\ part = "domain" /\ declaring = NotDeclaring
  /\ declaring' = [table |-> "predicate", name |-> p,
                   repeated |-> p \in DOMAIN predicates]
  /\ predicates' = Adding(predicates, p, <<>>)
  /\ UNCHANGED <<part, functions, constants, objects, phrase, success, built>>

MakeFunction(f) ==
  /\ part = "domain" /\ declaring = NotDeclaring
  /\ declaring' = [table |-> "function", name |-> f,
                   repeated |-> f \in DOMAIN functions]
  /\ functions' = Adding(functions, f, <<>>)
  /\ UNCHANGED <<part, predicates, constants, objects, phrase, success, built>>

(* PredicateTable::add_parameter and FunctionTable::add_parameter.         *)
WithParameter(table, name, T) ==
  [table EXCEPT ![name] = Append(@, T)]

(* add_variables in a declaration; those of a repeated one are ignored.    *)
AddParameter(T) ==
  /\ declaring # NotDeclaring
  /\ \/ /\ declaring.repeated
        /\ UNCHANGED <<predicates, functions>>
     \/ /\ declaring.table = "predicate" /\ ~declaring.repeated
        /\ Len(predicates[declaring.name]) < MaxParameters
        /\ predicates' = WithParameter(predicates, declaring.name, T)
        /\ UNCHANGED functions
     \/ /\ declaring.table = "function" /\ ~declaring.repeated
        /\ Len(functions[declaring.name]) < MaxParameters
        /\ functions' = WithParameter(functions, declaring.name, T)
        /\ UNCHANGED predicates
  /\ UNCHANGED <<part, constants, objects, declaring, phrase, success, built>>

EndDeclaration ==
  /\ declaring # NotDeclaring
  /\ declaring' = NotDeclaring
  /\ UNCHANGED <<part, tables, phrase, success, built>>

(* A name that is declared again gets the union of the types.              *)
Declared(table, o, T) ==
  IF o \in DOMAIN table THEN [table EXCEPT ![o] = FlatComponents(@) \cup T]
  ELSE Adding(table, o, T)

DeclareConstant(o, T) ==
  /\ part = "domain" /\ declaring = NotDeclaring
  /\ constants' = Declared(constants, o, T)
  /\ UNCHANGED <<part, predicates, functions, objects, declaring, phrase, success,
                 built>>

(* An object that is a constant of the domain keeps its type.              *)
DeclareObject(o, T) ==
  /\ part = "objects"
  /\ objects' = IF o \in DOMAIN constants THEN objects ELSE Declared(objects, o, T)
  /\ UNCHANGED <<part, predicates, functions, constants, declaring, phrase, success,
                 built>>

-----------------------------------------------------------------------------
InPhrase == part \in {"actions", "init"}
Idle == InPhrase /\ atom_predicate = NoName /\ fluent_function = NoName
             /\ Cardinality(built) < MaxBuilt

(* What was found of the symbol before is not forgotten.                   *)
PrepareAtomStillUndeclared(p) ==
  /\ Idle
  /\ atom_predicate' = p
  /\ undeclared_atom_predicate' = (undeclared_atom_predicate \/ p \notin DOMAIN predicates)
  /\ predicates' = Adding(predicates, p, <<>>)
  /\ term_parameters' = <<>>
  /\ UNCHANGED <<part, functions, constants, objects, declaring, fluent_function,
                 undeclared_fluent_function, success, built>>

PrepareAtom(p) ==
  /\ Idle
  /\ atom_predicate' = p
  /\ undeclared_atom_predicate' = (p \notin DOMAIN predicates)
  /\ predicates' = Adding(predicates, p, <<>>)
  /\ term_parameters' = <<>>
  /\ UNCHANGED <<part, functions, constants, objects, declaring, fluent_function,
                 undeclared_fluent_function, success, built>>

PrepareFluent(f) ==
  /\ Idle
  /\ fluent_function' = f
  /\ undeclared_fluent_function' = (f \notin DOMAIN functions)
  /\ functions' = Adding(functions, f, <<>>)
  /\ term_parameters' = <<>>
  /\ UNCHANGED <<part, predicates, constants, objects, declaring, atom_predicate,
                 undeclared_atom_predicate, success, built>>

(* TermTable::find_object searches the problem's table, then the domain's. *)
Objects == [o \in DOMAIN objects \cup DOMAIN constants |->
              IF o \in DOMAIN objects THEN objects[o] ELSE constants[o]]
Known == IF part = "init" THEN Objects ELSE constants
TypeOfTerm(t) == IF t.object THEN Objects[t.name] ELSE t.type
Object(o) == [object |-> TRUE, name |-> o, type |-> {}]
Variable(T) == [object |-> FALSE, name |-> NoName, type |-> T]

Position == Len(term_parameters) + 1
Expected == IF atom_predicate # NoName THEN predicates[atom_predicate]
            ELSE functions[fluent_function]

(* The type of a name that is not declared: what the predicate expects, but
   object in a fluent. *)
ImplicitType ==
  IF atom_predicate # NoName /\ Position <= Len(Expected) THEN Expected[Position]
  ELSE FLAT_OBJECT

(* make_term: the object is added to the table of the part of the text.    *)
AddImplicit(o) ==
  IF o \in DOMAIN Known THEN UNCHANGED <<constants, objects>>
  ELSE IF part = "init"
         THEN objects' = Adding(objects, o, ImplicitType) /\ UNCHANGED constants
         ELSE constants' = Adding(constants, o, ImplicitType) /\ UNCHANGED objects

(* The term joins the parameters of a symbol that was not declared, and must
   have the type of the parameter of one that was. *)
AddTyped(t, T) ==
  /\ \/ /\ atom_predicate # NoName /\ undeclared_atom_predicate
        /\ predicates' = WithParameter(predicates, atom_predicate, T)
        /\ UNCHANGED <<functions, success>>
     \/ /\ fluent_function # NoName /\ undeclared_fluent_function
        /\ functions' = WithParameter(functions, fluent_function, T)
        /\ UNCHANGED <<predicates, success>>
     \/ /\ IF atom_predicate # NoName THEN ~undeclared_atom_predicate
           ELSE ~undeclared_fluent_function
        /\ success' = (success /\ (Position <= Len(Expected)
                                     => FlatSubtype(T, Expected[Position])))
        /\ UNCHANGED <<predicates, functions>>
  /\ term_parameters' = Append(term_parameters, t)
  /\ UNCHANGED <<part, declaring, atom_predicate, undeclared_atom_predicate,
                 fluent_function, undeclared_fluent_function, built>>

AddTerm ==
  /\ atom_predicate # NoName \/ fluent_function # NoName
  /\ Len(term_parameters) < MaxTerms
  /\ \/ \E o \in ObjectNames :
          /\ AddImplicit(o)
          /\ AddTyped(Object(o), IF o \in DOMAIN Known THEN Known[o] ELSE ImplicitType)
     \/ \E T \in VariableTypes :
          /\ part = "actions"
          /\ AddTyped(Variable(T), T)
          /\ UNCHANGED <<constants, objects>>

(* The number of terms is compared only at the end.                        *)
MakeAtom ==
  /\ atom_predicate # NoName
  /\ success' = (success /\ Len(term_parameters) = Len(Expected))
  /\ built' = built \cup {[table |-> "predicate", name |-> atom_predicate,
                           terms |-> term_parameters]}
  /\ atom_predicate' = NoName
  /\ UNCHANGED <<part, tables, declaring, undeclared_atom_predicate, fluent_function,
                 undeclared_fluent_function, term_parameters>>

MakeFluent ==
  /\ fluent_function # NoName
  /\ success' = (success /\ Len(term_parameters) = Len(Expected))
  /\ built' = built \cup {[table |-> "function", name |-> fluent_function,
                           terms |-> term_parameters]}
  /\ fluent_function' = NoName
  /\ UNCHANGED <<part, tables, declaring, atom_predicate, undeclared_atom_predicate,
                 undeclared_fluent_function, term_parameters>>

SymbolNext ==
  \/ NextPart
  \/ \E p \in PredicateNames : MakePredicate(p) \/ PrepareAtom(p)
  \/ \E f \in FunctionNames : MakeFunction(f) \/ PrepareFluent(f)
  \/ \E T \in Types : AddParameter(T)
  \/ \E o \in ObjectNames, T \in Types : DeclareConstant(o, T) \/ DeclareObject(o, T)
  \/ EndDeclaration \/ AddTerm \/ MakeAtom \/ MakeFluent

SymbolSpec == SymbolInit /\ [][SymbolNext]_symbolVars

-----------------------------------------------------------------------------
ParametersOf(b) ==
  IF b.table = "predicate" THEN predicates[b.name] ELSE functions[b.name]

(* As long as no error was reported, every atom and fluent there is agrees
   with what its symbol is declared as now, in number and in types, whether
   the symbol and its arguments were declared, declared twice, or declared
   by being used. *)
WellFormed ==
  success =>
    \A b \in built :
      /\ Len(b.terms) = Len(ParametersOf(b))
      /\ \A i \in DOMAIN b.terms : FlatSubtype(TypeOfTerm(b.terms[i]), ParametersOf(b)[i])
=============================================================================
