---------------------------- MODULE MCDocuments ----------------------------
(***************************************************************************)
(* The samples on a small schema: an interface with two object types, a    *)
(* list of their union, and a field with every kind of argument; and a     *)
(* schema where fields of one name lead to different types.                *)
(***************************************************************************)
EXTENDS Documents, Samples

Field(type) == [type |-> type, args |-> <<>>]
Arg(type) == [type |-> type, default |-> Absent]
Scalar == [kind |-> "scalar"]
ObjectType(interfaces, fields) == [kind |-> "object", interfaces |-> interfaces, fields |-> fields]
Scalars == [Int |-> Scalar, Boolean |-> Scalar, ID |-> Scalar, Float |-> Scalar, String |-> Scalar]

MCArgs == [n |-> Arg(NonNullOf(IntType)), l |-> Arg(ListOf(IntType)), e |-> Arg(Named("E")), o |-> Arg(Named("In")),
           s |-> Arg(Named("ID")), d |-> [type |-> Named("Float"), default |-> Leaf("float", "d")]]
NodeFields == [x |-> Field(IntType), y |-> Field(IntType), node |-> Field(Named("Node"))]
MCTypes ==
  [E |-> [kind |-> "enum", values |-> {"P"}],
   In |-> [kind |-> "input",
           inputs |-> [r |-> Arg(NonNullOf(IntType)), l |-> Arg(ListOf(NonNullOf(IntType))),
                       d |-> [type |-> Named("E"), default |-> Leaf("member", "P")]]],
   Node |-> [kind |-> "interface", fields |-> NodeFields],
   U |-> [kind |-> "union", members |-> {"A", "B"}],
   A |-> ObjectType({"Node"}, [a |-> Field(IntType)] @@ NodeFields),
   B |-> ObjectType({"Node"}, [nodes |-> Field(NonNullOf(ListOf(Named("U"))))] @@ NodeFields),
   Query |-> ObjectType({}, [x |-> Field(IntType), node |-> Field(Named("Node")), any |-> Field(Named("U")),
                             g |-> [type |-> IntType, args |-> MCArgs]]),
   Subscription |-> ObjectType({}, [x |-> Field(IntType), y |-> Field(IntType)])] @@ Scalars
MCRootTypes == [query |-> "Query", subscription |-> "Subscription"]
MCDirectives ==
  LET anywhere == {"FIELD", "FRAGMENT_SPREAD", "INLINE_FRAGMENT"}
  IN [skip |-> anywhere, include |-> anywhere, defer |-> anywhere \ {"FIELD"}, stream |-> {"FIELD"}]

-----------------------------------------------------------------------------
In(definitions, raw, incremental) ==
  [definitions |-> definitions, name |-> "", raw |-> raw, incremental |-> incremental]
Booleans == {[v |-> Leaf("bool", "true")], [v |-> Leaf("bool", "false")]}
Merges ==
  {In(<<Query(<<Var("v", NonNullOf(Named("Boolean")))>>, sub)>> \o fs, raw, TRUE) :
     sub \in Uppers, fs \in Fragments, raw \in Booleans}
Undeclared == {In(<<Query(<<>>, <<s>>)>> \o fs, <<>>, FALSE) : s \in {O("node", <<t>>) : t \in Lower}, fs \in Fragments}

\* Two operations, chosen by name or not; and a fragment there are two of.
Several ==
  LET two(a, b) == <<Operation(a, "query", <<>>, <<F("x")>>), Operation(b, "mutation", <<>>, <<F("y")>>)>>
      twice == <<Query(<<>>, <<Spread("G", <<>>)>>), Fragment("G", "Query", <<F("x")>>), Fragment("G", "Query", <<F("x"), F("x")>>)>>
  IN {[In(ds, <<>>, FALSE) EXCEPT !.name = name] :
        ds \in {two("p", "q"), two("p", "p"), two("", "q"), SubSeq(two("p", "q"), 1, 1), twice}, name \in {"", "p", "q", "r"}}

\* One argument after the other, as a literal and through a variable.
MCValues ==
  {Null, One, Leaf("int", "wide"), Leaf("float", "f"), Leaf("string", "P"), Leaf("string", "Q"), Leaf("bool", "true"),
   Leaf("bool", "false"), Leaf("enum", "P"), Leaf("enum", "Q"), V, List(<<>>), List(<<One, Null>>), List(<<One, Leaf("string", "P")>>),
   List(<<One>>), List(<<Null>>), List(<<V>>), Object([r |-> One, l |-> One]), Object([r |-> Null]), Object([l |-> List(<<One>>)]),
   Object([r |-> One, l |-> List(<<Null>>), z |-> One]), Object([r |-> One, d |-> Null]),
   Object([r |-> One, d |-> Leaf("enum", "P")]), Object([r |-> One, d |-> Leaf("string", "P")])}
JSON == {v \in MCValues : /\ v.kind \notin {"enum", "var"}
                         /\ v # List(<<V>>) /\ (v.kind = "object" => Leaf("enum", "P") \notin PartsOf(v.fields))}
ArgTypes == {MCArgs[a].type : a \in DOMAIN MCArgs}
G(a, v) == <<FieldNode("", "g", <<NamedValue(a, v)>>, <<>>, <<>>)>>
Literals == {In(<<Query(<<>>, G(a, v))>>, <<>>, FALSE) : a \in DOMAIN MCArgs, v \in MCValues}
Given ==
  {In(<<Query(<<Var("v", type)>>, G(a, v))>>, raw, FALSE) :
     type \in ArgTypes \cup {NonNullOf(t) : t \in {u \in ArgTypes : ~Is(u, "nonnull")}} \cup {Named("Gone")},
     a \in {"s"}, v \in {V}, raw \in {[v |-> x] : x \in JSON} \cup {<<>>}}
  \cup {In(<<Query(<<[Var("v", type) EXCEPT !.default = x]>>, G("l", List(<<V>>)))>>, <<>>, FALSE) :
          type \in ArgTypes, x \in MCValues \ {V, List(<<V>>)}}
Subscribe(sub) == <<Operation("s", "subscription", <<>>, sub)>>
Roots == {<<F("x")>>, <<F("x"), F("y")>>, <<F("x"), XisY>>, <<F("__typename")>>, <<On("", <<>>, <<F("y")>>)>>}

MCInputs ==
  Merges \cup Undeclared \cup Several \cup Literals \cup Given \cup {In(Subscribe(s), <<>>, FALSE) : s \in Roots}

\* All selections of the inputs, which are nested at most three deep.
Below(selections) == UNION {PartsOf(s.sub) : s \in {t \in selections : t.kind # "spread"}}
NestedIn(inputs) ==
  LET first == UNION {UNION {PartsOf(d.sub) : d \in PartsOf(i.definitions)} : i \in inputs}
  IN first \cup Below(first) \cup Below(Below(first))
MCSelections == NestedIn(MCInputs)

-----------------------------------------------------------------------------
\* Objects of type A have an A as their child, those of other types any Node.
CrossedTypes ==
  LET fields(child) == [x |-> Field(IntType), y |-> Field(IntType), child |-> Field(Named(child))] IN
  [Node |-> [kind |-> "interface", fields |-> fields("Node")],
   A |-> ObjectType({"Node"}, [a |-> Field(Named("A"))] @@ fields("A")),
   Query |-> ObjectType({}, [node |-> Field(Named("Node"))])] @@ Scalars
ASSUME OneTypeAssumption == OneTypePerField <=> Types # CrossedTypes
CrossedRootTypes == [query |-> "Query"]
Chosen(sub) == {<<On(type, <<>>, <<O("child", sub)>>)>> : type \in {"A", "Node"}}
CrossedInputs ==
  {In(<<Query(<<>>, <<O("node", s \o t)>>)>>, <<>>, FALSE) :
     s \in Chosen(<<F("x")>>), t \in Chosen(<<O("a", <<F("x")>>), O("a", <<XisY>>)>>)}
CrossedSelections == LET first == NestedIn(CrossedInputs) IN first \cup Below(first) \cup Below(Below(first))
=============================================================================
