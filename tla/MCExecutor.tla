----------------------------- MODULE MCExecutor -----------------------------
(* Constants of Executor for TLC: { a { x } b } where a is a list of two      *)
(* objects and b a leaf.                                                      *)
EXTENDS Executor

CONSTANTS root, a, i1, i2, x1, x2, b, tA, tItem, tX

MCNodes == {root, a, i1, i2, x1, x2, b}
MCParent == [n \in MCNodes \ {root} |->
  CASE n \in {a, b} -> root [] n \in {i1, i2} -> a [] n = x1 -> i1 [] n = x2 -> i2]
MCShape == [n \in MCNodes |->
  CASE n \in {root, i1, i2} -> "object" [] n = a -> "list" [] OTHER -> "leaf"]
MCRootFields == <<a, b>>
MCTypeRef == [n \in MCNodes \ {root} |->
  CASE n = a -> tA [] n \in {i1, i2} -> tItem [] n \in {x1, x2, b} -> tX]

Queries(N) == {[mode |-> "query", nonNull |-> S] : S \in N}
Mutations(N) == {[mode |-> "mutation", nonNull |-> S] : S \in N}
Subscriptions(N) == {[mode |-> "subscription", nonNull |-> S] : S \in N}

\* A list of non-null items is itself non-null.
StrictLists == {S \in SUBSET {tA, tItem, tX} : tItem \in S => tA \in S}

MCOperations ==
  Queries(StrictLists) \cup Mutations(StrictLists)
    \cup Subscriptions({{tX}, {tA, tItem, tX}})
QueriesWithAnyList == Queries(SUBSET {tA, tItem, tX})
=============================================================================
