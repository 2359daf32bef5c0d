--------------------------- MODULE MCDeclarations ---------------------------
(***************************************************************************)
(* What the parser keeps while it reads domains and problems: the type     *)
(* table, the variables in scope, the symbols and objects with their       *)
(* types, and the domains and problems themselves.  None reads what        *)
(* another keeps, so that a behaviour exercises one of them.               *)
(***************************************************************************)
EXTENDS TypeTable, Scopes, Symbols, Domains

CONSTANT Tables                 (* which of the four                        *)

VARIABLE what                   (* which of them is exercised               *)

typeVars == vars
allVars == <<what, typeVars, scopeVars, symbolVars, domainVars>>

AllTables == {"types", "scopes", "symbols", "domains"}
OnlyTypes == {"types"}
OnlyScopes == {"scopes"}
OnlyDomains == {"domains"}
SomeTypes == {{"object"}, {"t"}, {"t", "u"}}
SomeVariables == {{"t"}}

DeclarationsInit ==
  what \in Tables /\ Init /\ ScopeInit /\ SymbolInit /\ DomainInit

DeclarationsNext ==
  /\ UNCHANGED what
  /\ \/ what = "types" /\ Next /\ UNCHANGED <<scopeVars, symbolVars, domainVars>>
     \/ what = "scopes" /\ ScopeNext /\ UNCHANGED <<typeVars, symbolVars, domainVars>>
     \/ what = "symbols" /\ SymbolNext /\ UNCHANGED <<typeVars, scopeVars, domainVars>>
     \/ what = "domains" /\ DomainNext /\ UNCHANGED <<typeVars, scopeVars, symbolVars>>

DeclarationsSpec == DeclarationsInit /\ [][DeclarationsNext]_allVars

(* Unions only while there are no more than three simple types; three domains
   and problems, each with actions that name one function; and nothing after
   an error in symbols and domains, whose properties say nothing then. *)
Few ==
  /\ n <= 3 \/ utypes = <<>>
  /\ Len(domains) + Len(problems) <= 3
  /\ \A i \in DOMAIN domains :
       \A f, g \in domains[i].updates \cup domains[i].reads : f = g
  /\ success /\ correct
=============================================================================
