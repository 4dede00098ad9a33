----------------------------- MODULE Federation -----------------------------
(***************************************************************************)
(* fastql/federation/schema.py: _entities over a list of representations.  *)
(*                                                                         *)
(* The reference resolvers are in a dictionary of the process, looked up   *)
(* for one representation after the other; a resolver may be awaited, and  *)
(* in between other code of the process registers or clears resolvers.  A  *)
(* representation is [type, fields], the names of its key fields; the      *)
(* entity a resolver returns is known by the resolver and by the key       *)
(* fields it was given under each parameter.                               *)
(***************************************************************************)
EXTENDS Naturals, Sequences

CONSTANTS
  Representations,  \* what _entities may be asked for: sequences of representations
  Resolvers,        \* reference resolvers: [params, extra, async, by], by = <<name, entity type>>
  EntityTypes       \* names of types with a @key

ASSUME FederationAssumption ==
  /\ \A rs \in Representations : rs \in Seq([type : STRING, fields : SUBSET STRING])
  /\ \A r \in Resolvers : /\ r \in [params : SUBSET STRING, extra : BOOLEAN, async : BOOLEAN,
                                    by : STRING \X STRING]
                        /\ r.by[1] # "nobody"
  /\ EntityTypes \subseteq STRING

VARIABLES
  registry,         \* _reference_resolvers: type name -> resolver or NoResolver
  representations,  \* the argument
  position,         \* how many of them the loop has taken
  results,          \* results: what the representations so far became
  awaiting,         \* the entity the loop is waiting for, or Nobody
  ending            \* "running", "returned" or "raised"

entityVars == <<registry, representations, position, results, awaiting, ending>>

NoResolver == [params |-> {}, extra |-> FALSE, async |-> FALSE, by |-> <<"nobody", "none">>]
Nobody == [by |-> <<"nobody", "none">>, given |-> <<>>]

FederationInit ==
  /\ registry = [t \in EntityTypes |-> NoResolver]
  /\ representations \in Representations
  /\ position = 0
  /\ results = <<>>
  /\ awaiting = Nobody
  /\ ending = "running"

\* reference_resolver(entity)(candidate), and clear_reference_resolvers().
Register(t, resolver) ==
  /\ registry' = [registry EXCEPT ![t] = resolver]
  /\ UNCHANGED <<representations, position, results, awaiting, ending>>
Clear ==
  /\ registry' = [t \in EntityTypes |-> NoResolver]
  /\ UNCHANGED <<representations, position, results, awaiting, ending>>

\* _invoke_reference_resolver: parameters are given the key field of their name, or
\* what they ask for as "info" and "representation"; **kwargs takes the rest.
Bound(resolver, fields) ==
  LET taken == resolver.params \cap (fields \cup {"info", "representation"})
      rest == IF resolver.extra THEN fields \ taken ELSE {}
  IN [p \in taken \cup rest |->
        IF p \in resolver.params /\ p \in {"info", "representation"} THEN <<"injected", p>> ELSE <<"field", p>>]
Entity(resolver, fields) == [by |-> resolver.by, given |-> Bound(resolver, fields)]

Current == representations[position + 1]
ResolverOf(r) == IF r.type \in EntityTypes THEN registry[r.type] ELSE NoResolver

\* One turn of the loop of _resolve_entities.  A parameter that gets nothing, or a
\* resolver that fails, raises for the field as a whole.
BugSkipsUnknown == results
AfterUnknown == Append(results, Nobody)
ResolveReference ==
  LET resolver == ResolverOf(Current)  entity == Entity(resolver, Current.fields) IN
  /\ ending = "running" /\ awaiting = Nobody /\ position < Len(representations)
  /\ position' = position + 1
  /\ \/ /\ resolver = NoResolver
        /\ results' = AfterUnknown
        /\ UNCHANGED <<awaiting, ending>>
     \/ /\ resolver # NoResolver /\ resolver.params \subseteq DOMAIN Bound(resolver, Current.fields)
        /\ IF resolver.async
           THEN awaiting' = entity /\ UNCHANGED results
           ELSE results' = Append(results, entity) /\ UNCHANGED awaiting
        /\ UNCHANGED ending
     \/ /\ resolver # NoResolver
        /\ ending' = "raised"
        /\ UNCHANGED <<results, awaiting>>
  /\ UNCHANGED <<registry, representations>>

ReferenceArrives ==
  /\ ending = "running" /\ awaiting # Nobody
  /\ \/ results' = Append(results, awaiting) /\ UNCHANGED ending
     \/ ending' = "raised" /\ UNCHANGED results
  /\ awaiting' = Nobody
  /\ UNCHANGED <<registry, representations, position>>

ReturnEntities ==
  /\ ending = "running" /\ awaiting = Nobody /\ position = Len(representations)
  /\ ending' = "returned"
  /\ UNCHANGED <<registry, representations, position, results, awaiting>>

FederationNext ==
  \/ ending = "running" /\ (Clear \/ \E t \in EntityTypes, r \in Resolvers : r.by[2] = t /\ Register(t, r))
  \/ ResolveReference \/ ReferenceArrives \/ ReturnEntities

-----------------------------------------------------------------------------
\* "_entities returns the resolved objects in the same order": the gateway matches
\* slots by position, so each holds an entity of a resolver of its representation's
\* type, made from that representation's own key fields, or null where the type has
\* no resolver, whatever is registered or cleared while others are awaited.
EntitiesKeepTheirSlots ==
  /\ \A i \in DOMAIN results :
       LET r == representations[i]  e == results[i] IN
       e # Nobody =>
         /\ e.by[2] = r.type
         /\ \A p \in DOMAIN e.given :
              \/ p \in r.fields /\ e.given[p] = <<"field", p>>
              \/ p \in {"info", "representation"} /\ e.given[p] = <<"injected", p>>
  /\ ending = "returned" => Len(results) = Len(representations)
=============================================================================
