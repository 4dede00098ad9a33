------------------------------ MODULE MCObjects ------------------------------
(***************************************************************************)
(* The instance TLC checks.                                                *)
(***************************************************************************)
EXTENDS Objects, TLC

\* Before the list, its first element, one within it, and behind it.
MCCursorOffsets == {-2, -1, 0, 2, 5}

Representation(type, fields) == [type |-> type, fields |-> fields]
Product == Representation("Product", {"id"})
Review == Representation("Review", {"id", "info"})   \* a key field with a special name
Stranger == Representation("Stranger", {"id"})
MCRepresentations ==
  {<<>>} \cup {<<a, b, c>> : a \in {Product, Stranger}, b \in {Product, Review}, c \in {Product, Stranger}}

Resolver(params, extra, async, name, type) ==
  [params |-> params, extra |-> extra, async |-> async, by |-> <<name, type>>]
MCResolvers ==
  { Resolver({"id"}, FALSE, TRUE, "byId", "Product"),
    Resolver({"sku"}, FALSE, FALSE, "bySku", "Product"),
    Resolver({"representation", "info"}, FALSE, FALSE, "whole", "Review"),
    Resolver({"info"}, TRUE, TRUE, "rest", "Review") }

\* {"variables": {"a": null, "list": [null, null]}, "query": "..."}, whose list index
\* n is the key "#n".
Operations ==
  (<<>> :> "object") @@ (<<"a">> :> "null") @@ (<<"list">> :> "list")
  @@ (<<"list", "#0">> :> "null") @@ (<<"list", "#1">> :> "null") @@ (<<"query">> :> "value")
Paths ==
  { <<>>, <<"a">>, <<"a", "x">>, <<"list", "0">>, <<"list", "00">>, <<"list", "1">>, <<"list", "2">>,
    <<"list", "x">>, <<"query">>, <<"list">> }
MCIndex == [s \in {"0", "00", "1", "2", "x", "a", "list", "query"} |->
              IF s \in {"0", "00"} THEN "#0" ELSE IF s = "1" THEN "#1" ELSE IF s = "2" THEN "#2" ELSE NoIndex]

Form(parts, ops, entries) == [parts |-> parts, operations |-> ops, entries |-> entries]
Entry(file, path) == [file |-> file, path |-> path]
Whole == <<"operations", "map", "f", "g">>
MCForms ==
  {Form(Whole, Operations, <<Entry(f, p), Entry("g", q)>>) : f \in {"f", "lost"}, p \in Paths, q \in Paths}
  \cup {Form(Whole, Operations, <<Entry("f", p), Entry("f", q), Entry("g", r)>>) :
          p \in {<<"a">>, <<"list", "00">>}, q \in Paths, r \in Paths}
  \cup {Form(parts, Operations, <<Entry("f", <<"a">>)>>) :
          parts \in {<<"operations", "map">>, <<"operations", "f">>, <<"map", "f">>,
                     <<"operations", "map", "f", "f">>}}
  \cup {Form(Whole, <<>> :> "value", <<>>)}
=============================================================================
