------------------------------ MODULE Samples ------------------------------
(***************************************************************************)
(* Documents for the models of texts and of documents: fields that merge   *)
(* or do not, below each other, side by side and in fragments.             *)
(***************************************************************************)
EXTENDS Ast

IntType == Named("Int")
Leaf(kind, of) == [kind |-> kind, of |-> of]
One == Leaf("int", "1")
List(items) == [kind |-> "list", items |-> items]
Object(fields) == [kind |-> "object", fields |-> fields]
V == Leaf("var", "v")

NamedValue(n, v) == [name |-> n, value |-> v]
If(name, v) == [name |-> name, args |-> <<NamedValue("if", v)>>]
FieldNode(alias, name, args, ds, sub) ==
  [kind |-> "field", alias |-> alias, name |-> name, args |-> args, directives |-> ds, sub |-> sub]
F(name) == FieldNode("", name, <<>>, <<>>, <<>>)
O(name, sub) == FieldNode("", name, <<>>, <<>>, sub)
On(type, ds, sub) == [kind |-> "inline", on |-> type, directives |-> ds, sub |-> sub]
Spread(name, ds) == [kind |-> "spread", name |-> name, directives |-> ds]
Var(name, type) == [name |-> name, type |-> type, default |-> Absent, directives |-> <<>>]

XisY == FieldNode("x", "y", <<>>, <<>>, <<>>)
SkippedY == FieldNode("x", "y", <<>>, <<If("skip", V)>>, <<>>)
Lower == {F("x"), F("a"), XisY, SkippedY, On("A", <<>>, <<F("a")>>), On("B", <<>>, <<XisY>>), O("node", <<F("x")>>),
          O("node", <<XisY>>), Spread("G", <<>>), Spread("G", <<If("defer", V)>>), F("__typename"), F("node")}
Uppers ==
  {<<O("node", <<s, On("Node", <<>>, <<t>>)>>)>> : s \in Lower, t \in {XisY, F("x"), Spread("G", <<>>)}}
  \cup {<<O("node", <<s>>), O("node", <<t>>)>> : s, t \in Lower}
  \cup {<<O("any", <<On(type, <<>>, <<s>>)>>)>> : s \in Lower, type \in {"A", "B", "Node", ""}}
  \cup {<<s, Spread("H", <<>>)>> : s \in {F("x"), XisY, O("node", <<Spread("G", <<>>)>>), O("any", <<F("x")>>)}}

Operation(name, type, v, sub) ==
  [kind |-> "operation", name |-> name, type |-> type, vars |-> v, directives |-> <<>>, sub |-> sub]
Query(v, sub) == Operation("", "query", v, sub)
Fragment(name, on, sub) == [kind |-> "fragment", name |-> name, on |-> on, directives |-> <<>>, sub |-> sub]
Fragments ==
  {<<Fragment("G", on, <<s>>), Fragment("H", "Query", <<O("node", <<t>>)>>), Fragment("K", "Node", <<Spread("G", <<>>)>>)>> :
     on \in {"Node", "A"}, s \in {F("a"), XisY, O("node", <<Spread("G", <<>>)>>), Spread("K", <<>>)}, t \in {Spread("G", <<>>)}}
  \cup {<<Fragment("G", "Node", <<SkippedY>>), Fragment("H", "Query", <<O("node", <<F("y")>>)>>)>>}
=============================================================================
