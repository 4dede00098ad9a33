--------------------------- MODULE MCSchemaBuilder ---------------------------
(***************************************************************************)
(* The programs TLC builds schemas of: Q and B refer to each other and to  *)
(* whatever first and second choose; B may have the name or the class of   *)
(* another type, F is a type object that was never registered, under a     *)
(* name of its own, that of A or that of the generic type Page[A].         *)
(***************************************************************************)
EXTENDS SchemaBuilder

Direct(id) == [form |-> "ir", type |-> Declared(id)]
Class(name) == [form |-> "class", class |-> name]
Of(template, ref) == [form |-> "generic", template |-> template, of |-> ref]
Parameter == [form |-> "var"]

Type(kind, name, class, fields, interfaces) ==
  [kind |-> kind, name |-> name, class |-> class, fields |-> fields, interfaces |-> interfaces]
Field(name, ref, args) == [name |-> name, ref |-> ref, args |-> args]

Program(nameOfB, classOfB, nameOfF, first, second, member, fieldsOfA, registered, roots) ==
  [ types |->
      [ Q |-> Type("object", "Q", "Q", <<"first", "back">>, <<>>),
        A |-> Type("object", "A", "A", fieldsOfA, <<"I">>),
        B |-> Type("object", nameOfB, classOfB, <<"second">>, <<>>),
        F |-> Type("object", nameOfF, "F", <<"toA">>, <<>>),
        I |-> Type("interface", "I", "I", <<"self", "kin">>, <<>>),
        U |-> Type("union", "U", "U", <<"member">>, <<>>),
        N |-> Type("input", "N", "N", <<"nested">>, <<>>),
        S |-> Type("scalar", "S", "S", <<>>, <<>>) ],
    fields |->
      [ first  |-> Field("first", first, <<"filter">>),
        filter |-> Field("filter", Class("N"), <<>>),
        back   |-> Field("back", Class("B"), <<>>),
        second |-> Field("second", second, <<>>),
        self   |-> Field("self", Class("A"), <<>>),
        kin    |-> Field("kin", Class("A"), <<>>),
        mine   |-> Field("kin", Parameter, <<>>),
        own    |-> Field("own", Class("B"), <<>>),
        toA    |-> Field("toA", Class("A"), <<>>),
        member |-> Field("member", member, <<>>),
        nested |-> Field("nested", Class("N"), <<>>),
        item   |-> Field("item", Parameter, <<"like">>),
        like   |-> Field("like", Direct("S"), <<>>),
        next   |-> Field("next", Of("Page", Parameter), <<>>),
        node   |-> Field("node", Parameter, <<>>) ],
    templates |->
      [ Page |-> [base |-> "Page", kind |-> "object", fields |-> <<"item", "mine", "next">>, interfaces |-> <<"I">>],
        Edge |-> [base |-> "Edge", kind |-> "interface", fields |-> <<"node">>, interfaces |-> <<>>] ],
    registered |-> registered,
    plain |-> {"Helper"},
    roots |-> roots ]

SomeReferences == {Direct("A"), Direct("F"), Class("B"), Of("Page", Class("A")), Of("Edge", Class("A")), Direct("U")}
References ==
  SomeReferences \cup {Class("Helper"), Class("Missing"), Direct("B"), Of("Page", Direct("B")), Of("Page", Class("Helper"))}

Identities == {<<"B", "B">>, <<"A", "B">>, <<"APage", "B">>, <<"B", "A">>}
InOrder == <<"Q", "A", "B", "I", "U", "N", "S">>
BFirst == <<"Q", "B", "A", "I", "U", "N", "S">>

MCPrograms ==
  { Program(id[1], id[2], "F", first, second, Class("A"), <<"self", "own", "kin">>, InOrder, <<"Q">>) :
      id \in Identities, first \in References, second \in References }
  \cup
  { Program(id[1], id[2], nameOfF, first, Of("Page", Class("A")), member, fields, registered, roots) :
      id \in Identities, nameOfF \in {"F", "A", "APage"}, first \in SomeReferences \cup {Of("Edge", Direct("F"))},
      member \in {Class("A"), Of("Page", Class("B")), Direct("S")},
      fields \in {<<"self", "own", "kin">>, <<"own">>}, registered \in {InOrder, BFirst},
      roots \in {<<"Q">>, <<"F", "Q">>} }
=============================================================================
