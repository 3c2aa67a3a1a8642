--------------------------- MODULE EntityRegistry ---------------------------
(***************************************************************************)
(* The entities of one document: how mentions and the ends of relations find  *)
(* or make them (the inner functions of build_bookrag_entities,               *)
(* services/bookrag_graph.py).                                                *)
(*                                                                           *)
(* A name is a text; Compact is it without its spaces, Normal what            *)
(* _normalize_entity_name leaves of it.  An entity is its key in entity_index *)
(* (compact canonical name and type), which is one for one with its uuid.     *)
(***************************************************************************)
EXTENDS FiniteSets, Sequences

CONSTANTS
  Names, NoName,
  Normal,        \* function: a name without numbering and brackets, or NoName
  Compact,       \* function: a name without spaces
  Types,
  Labels,        \* function: the names that say no more than the type of an entity
  Dated,         \* types whose entities keep their text as it is (DATE, MONEY)
  Guess          \* function: the type a relation's end has when nothing is known

\* Names and types are texts of bounded length.
ASSUME NamesAssumption ==
  /\ IsFiniteSet(Names) /\ IsFiniteSet(Types)
  /\ NoName \notin Names /\ Dated \subseteq Types /\ Labels \in [Types -> SUBSET Names]
  /\ Normal \in [Names -> Names \cup {NoName}]
  /\ Compact \in [Names -> Names] /\ \A n \in Names : Compact[Compact[n]] = Compact[n]
  /\ Guess \in [Names -> Types]

\* The registry is entity_ids_by_key: pairs of a name and an entity it may stand
\* for.  Every entity of entity_index has a name.
EntitiesOf(registry) == {p[2] : p \in registry}
Called(registry, keys) == EntitiesOf({p \in registry : p[1] \in keys})

LookupKeys(name) == UNION {{n, Compact[n]} : n \in {name, Normal[name]} \ {NoName}}

\* What a name as it is written stands for.
Spelled(registry, name) == Called(registry, {name, Compact[name]})

\* At most one entity: an ambiguous name resolves to none.
Resolved(registry, name) ==
  LET exact == Spelled(registry, name)
      all == exact \cup Called(registry, LookupKeys(name))
  IN IF Cardinality(exact) = 1 THEN exact ELSE IF Cardinality(all) = 1 THEN all ELSE {}

Canonical(name, type) == IF type \in Dated THEN name ELSE Normal[name]

\* get_or_create_entity: the entity, if there is one to make of the name, and
\* what it is called from now on.  An entity that was made before keeps the
\* display name it was made with, whose names it has already.
EntityFor(name, type) ==
  {<<Compact[c], type>> : c \in {n \in {Canonical(name, type)} : n # NoName /\ name \notin Labels[type]}}
NamedFor(made, name, type) ==
  LET c == Canonical(name, type)
      display == IF EntityFor(name, type) \subseteq made THEN {} ELSE LookupKeys(c)
  IN (LookupKeys(name) \cup LookupKeys(Compact[c]) \cup display) \X EntityFor(name, type)
Entered(made, name, type) == IF EntityFor(name, type) = {} THEN {} ELSE NamedFor(made, name, type)

\* resolve_or_create_relation_entity, and the registry after it.
EndOf(registry, name) ==
  IF Resolved(registry, name) # {} THEN Resolved(registry, name) ELSE EntityFor(name, Guess[name])
AfterReplacing(registry, name) == \* Mutant: a name stands for what was called so last.
  LET new == Entered(EntitiesOf(registry), name, Guess[name])
  IN IF Resolved(registry, name) # {} THEN registry
     ELSE {p \in registry : \A q \in new : p[1] # q[1]} \cup new
After(registry, name) ==
  IF Resolved(registry, name) # {} THEN registry
  ELSE registry \cup Entered(EntitiesOf(registry), name, Guess[name])
=============================================================================
