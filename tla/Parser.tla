------------------------------- MODULE Parser -------------------------------
(***************************************************************************)
(* fastql/language/parser.py and printer.py: from the tokens of the lexer  *)
(* to the definitions of a document, and back.  A token is [kind, value];  *)
(* punctuation is its own kind and has no value, names and keywords are of *)
(* the kind "name".  What the lexer skips is in no text, and neither are   *)
(* the commas of the printer.                                              *)
(*                                                                         *)
(* The nodes are those of Ast; the fields of an object literal are taken   *)
(* by name, in no order.                                                   *)
(* Each Parse operator takes a text and gives the node at its start and    *)
(* the rest of the text; ok is FALSE where the parser raises.              *)
(*                                                                         *)
(* Operators named Bug... are plausible mistakes in the definition below   *)
(* them; no specification uses them (see PROJECT.json, "mutants").         *)
(***************************************************************************)
EXTENDS Ast

Mark(kind) == [kind |-> kind, value |-> ""]
Word(value) == [kind |-> "name", value |-> value]

SyntaxError == [ok |-> FALSE, node |-> <<>>, rest |-> <<>>]
Node(node, rest) == [ok |-> TRUE, node |-> node, rest |-> rest]
Then(r, next(_, _)) == IF r.ok THEN next(r.node, r.rest) ELSE SyntaxError

Peek(s, kind) == s # <<>> /\ s[1].kind = kind
PeekWord(s, value) == s # <<>> /\ s[1] = Word(value)
Expect(s, kind) == IF Peek(s, kind) THEN Node(s[1].value, Tail(s)) ELSE SyntaxError
ExpectKeyword(s, value) == IF PeekWord(s, value) THEN Node(value, Tail(s)) ELSE SyntaxError

\* What parse reads from s, again and again, until a token that closes.
ReadUntil(s, parse(_), close) ==
  LET RECURSIVE Read(_)
      Read(t) ==
        IF Peek(t, close) THEN Node(<<>>, Tail(t))
        ELSE Then(parse(t), LAMBDA node, rest : Then(Read(rest), LAMBDA nodes, after : Node(<<node>> \o nodes, after)))
  IN Read(s)

\* _any and _many
AnyOf(s, open, parse(_), close) == Then(Expect(s, open), LAMBDA o, rest : ReadUntil(rest, parse, close))
ManyOf(s, open, parse(_), close) ==
  IF Len(s) > 1 /\ Peek(Tail(s), close) THEN SyntaxError ELSE AnyOf(s, open, parse, close)
OptionalMany(s, open, parse(_), close) ==
  IF Peek(s, open) THEN ManyOf(s, open, parse, close) ELSE Node(<<>>, s)

-----------------------------------------------------------------------------
ParseName(s) == Expect(s, "name")
ParseVariable(s) ==
  Then(Expect(s, "$"), LAMBDA d, rest : Then(ParseName(rest), LAMBDA name, after :
    Node([kind |-> "var", of |-> name], after)))

\* parse_argument and parse_object_field: a name, a colon and a value.
RECURSIVE ParseValue(_, _)
ParsePair(s, const) ==
  Then(ParseName(s), LAMBDA name, rest : Then(Expect(rest, ":"), LAMBDA c, value :
    Then(ParseValue(value, const), LAMBDA v, after : Node([name |-> name, value |-> v], after))))

NameValue(name) ==
  CASE name \in {"true", "false"} -> [kind |-> "bool", of |-> name]
    [] name = "null" -> Null
    [] OTHER -> [kind |-> "enum", of |-> name]
FieldsByName(pairs) ==
  [n \in {pairs[i].name : i \in DOMAIN pairs} |-> LastNamed(pairs, n).value]

\* parse_value_literal
ParseValue(s, const) ==
  CASE Peek(s, "[") -> Then(AnyOf(s, "[", LAMBDA t : ParseValue(t, const), "]"), LAMBDA items, rest :
                         Node([kind |-> "list", items |-> items], rest))
    [] Peek(s, "{") -> Then(AnyOf(s, "{", LAMBDA t : ParsePair(t, const), "}"), LAMBDA pairs, rest :
                         Node([kind |-> "object", fields |-> FieldsByName(pairs)], rest))
    [] s # <<>> /\ s[1].kind \in {"int", "float", "string"} -> Node([kind |-> s[1].kind, of |-> s[1].value], Tail(s))
    [] Peek(s, "name") -> Node(NameValue(s[1].value), Tail(s))
    [] Peek(s, "$") /\ ~const -> ParseVariable(s)
    [] OTHER -> SyntaxError

ParseArguments(s, const) == OptionalMany(s, "(", LAMBDA t : ParsePair(t, const), ")")

RECURSIVE ParseDirectives(_, _)
ParseDirectives(s, const) ==
  IF ~Peek(s, "@") THEN Node(<<>>, s)
  ELSE Then(ParseName(Tail(s)), LAMBDA name, rest : Then(ParseArguments(rest, const), LAMBDA args, others :
         Then(ParseDirectives(others, const), LAMBDA ds, after :
           Node(<<[name |-> name, args |-> args]>> \o ds, after))))

\* parse_type_reference
RECURSIVE ParseType(_)
ParseType(s) ==
  Then(IF Peek(s, "[")
       THEN Then(ParseType(Tail(s)), LAMBDA of, rest : Then(Expect(rest, "]"), LAMBDA c, after : Node(ListOf(of), after)))
       ELSE Then(ParseName(s), LAMBDA name, rest : Node(Named(name), rest)),
       LAMBDA type, rest : IF Peek(rest, "!") THEN Node(NonNullOf(type), Tail(rest)) ELSE Node(type, rest))

-----------------------------------------------------------------------------
RECURSIVE ParseSelection(_)
ParseSelectionSet(s) == ManyOf(s, "{", ParseSelection, "}")

ParseField(s) ==
  Then(ParseName(s), LAMBDA first, colon :
    Then(IF Peek(colon, ":") THEN ParseName(Tail(colon)) ELSE Node(first, colon), LAMBDA name, args :
      Then(ParseArguments(args, FALSE), LAMBDA arguments, ds :
        Then(ParseDirectives(ds, FALSE), LAMBDA directives, set :
          Then(IF Peek(set, "{") THEN ParseSelectionSet(set) ELSE Node(<<>>, set), LAMBDA sub, after :
            Node([kind |-> "field", alias |-> IF Peek(colon, ":") THEN first ELSE "", name |-> name,
                  args |-> arguments, directives |-> directives, sub |-> sub], after))))))

\* parse_fragment: "..." and a name other than "on" is a spread.
ParseSpread(s) ==
  Then(ParseName(s), LAMBDA name, ds : Then(ParseDirectives(ds, FALSE), LAMBDA directives, after :
    Node([kind |-> "spread", name |-> name, directives |-> directives], after)))
ParseInline(s) ==
  Then(IF PeekWord(s, "on") THEN ParseName(Tail(s)) ELSE Node("", s), LAMBDA on, ds :
    Then(ParseDirectives(ds, FALSE), LAMBDA directives, set :
      Then(ParseSelectionSet(set), LAMBDA sub, after :
        Node([kind |-> "inline", on |-> on, directives |-> directives, sub |-> sub], after))))

BugOnIsASpread(s) ==
  IF ~Peek(s, "...") THEN ParseField(s)
  ELSE IF Peek(Tail(s), "name") THEN ParseSpread(Tail(s))
  ELSE ParseInline(Tail(s))
ParseSelection(s) ==
  IF ~Peek(s, "...") THEN ParseField(s)
  ELSE IF Peek(Tail(s), "name") /\ ~PeekWord(Tail(s), "on") THEN ParseSpread(Tail(s))
  ELSE ParseInline(Tail(s))

ParseVariableDefinition(s) ==
  Then(ParseVariable(s), LAMBDA var, colon : Then(Expect(colon, ":"), LAMBDA c, type :
    Then(ParseType(type), LAMBDA ref, default :
      Then(IF Peek(default, "=") THEN ParseValue(Tail(default), TRUE) ELSE Node(Absent, default), LAMBDA value, ds :
        Then(ParseDirectives(ds, TRUE), LAMBDA directives, after :
          Node([name |-> var.of, type |-> ref, default |-> value, directives |-> directives], after))))))

OperationTypes == {"query", "mutation", "subscription"}

ParseOperation(s) ==
  LET shorthand == Peek(s, "{")
      afterType == IF shorthand THEN s ELSE Tail(s)
  IN Then(IF Peek(afterType, "name") THEN ParseName(afterType) ELSE Node("", afterType), LAMBDA name, vs :
       Then(OptionalMany(vs, "(", ParseVariableDefinition, ")"), LAMBDA vars, ds :
         Then(ParseDirectives(ds, FALSE), LAMBDA directives, set :
           Then(ParseSelectionSet(set), LAMBDA sub, after :
             Node([kind |-> "operation", name |-> name, type |-> IF shorthand THEN "query" ELSE s[1].value,
                   vars |-> vars, directives |-> directives, sub |-> sub], after)))))

ParseFragmentDefinition(s) ==
  IF PeekWord(Tail(s), "on") THEN SyntaxError
  ELSE Then(ParseName(Tail(s)), LAMBDA name, on : Then(ExpectKeyword(on, "on"), LAMBDA o, type :
         Then(ParseName(type), LAMBDA condition, ds : Then(ParseDirectives(ds, FALSE), LAMBDA directives, set :
           Then(ParseSelectionSet(set), LAMBDA sub, after :
             Node([kind |-> "fragment", name |-> name, on |-> condition, directives |-> directives, sub |-> sub], after))))))

ParseDefinition(s) ==
  IF Peek(s, "{") \/ \E type \in OperationTypes : PeekWord(s, type) THEN ParseOperation(s)
  ELSE IF PeekWord(s, "fragment") THEN ParseFragmentDefinition(s)
  ELSE SyntaxError

\* parse_document: at least one definition, up to the end of the text.
RECURSIVE ParseDefinitions(_)
ParseDefinitions(s) ==
  Then(ParseDefinition(s), LAMBDA d, rest :
    IF rest = <<>> THEN Node(<<d>>, rest)
    ELSE Then(ParseDefinitions(rest), LAMBDA ds, after : Node(<<d>> \o ds, after)))

-----------------------------------------------------------------------------
\* The printer.

Enclosed(open, text, close) == IF text = <<>> THEN <<>> ELSE <<Mark(open)>> \o text \o <<Mark(close)>>
Printed(s, print(_)) == FlattenSeq([i \in DOMAIN s |-> print(s[i])])
PrintName(name) == IF name = "" THEN <<>> ELSE <<Word(name)>>

RECURSIVE PrintValue(_)
PrintPair(p) == <<Word(p.name), Mark(":")>> \o PrintValue(p.value)
PrintValue(v) ==
  CASE v.kind = "var" -> <<Mark("$"), Word(v.of)>>
    [] v.kind = "null" -> <<Word("null")>>
    [] v.kind \in {"bool", "enum"} -> <<Word(v.of)>>
    [] v.kind = "list" -> <<Mark("[")>> \o Printed(v.items, PrintValue) \o <<Mark("]")>>
    [] v.kind = "object" ->
         LET names == SetToSeq(DOMAIN v.fields) IN
         <<Mark("{")>> \o Printed(names, LAMBDA n : PrintPair([name |-> n, value |-> v.fields[n]])) \o <<Mark("}")>>
    [] OTHER -> <<[kind |-> v.kind, value |-> v.of]>>

PrintArguments(args) == Enclosed("(", Printed(args, PrintPair), ")")
PrintDirectives(ds) == Printed(ds, LAMBDA d : <<Mark("@"), Word(d.name)>> \o PrintArguments(d.args))
RECURSIVE PrintType(_)
PrintType(type) ==
  CASE type.wraps = <<>> -> <<Word(type.name)>>
    [] Is(type, "list") -> <<Mark("[")>> \o PrintType(Inner(type)) \o <<Mark("]")>>
    [] Is(type, "nonnull") -> PrintType(Inner(type)) \o <<Mark("!")>>

RECURSIVE PrintSelection(_)
PrintSelectionSet(sub) == Enclosed("{", Printed(sub, PrintSelection), "}")
PrintSelection(s) ==
  CASE s.kind = "field" ->
         (IF s.alias = "" THEN <<>> ELSE <<Word(s.alias), Mark(":")>>)
         \o <<Word(s.name)>> \o PrintArguments(s.args) \o PrintDirectives(s.directives) \o PrintSelectionSet(s.sub)
    [] s.kind = "spread" -> <<Mark("..."), Word(s.name)>> \o PrintDirectives(s.directives)
    [] OTHER ->
         <<Mark("...")>> \o (IF s.on = "" THEN <<>> ELSE <<Word("on"), Word(s.on)>>)
         \o PrintDirectives(s.directives) \o PrintSelectionSet(s.sub)

PrintVariableDefinition(d) ==
  <<Mark("$"), Word(d.name), Mark(":")>> \o PrintType(d.type)
  \o (IF d.default = Absent THEN <<>> ELSE <<Mark("=")>> \o PrintValue(d.default))
  \o PrintDirectives(d.directives)

PrintDefinition(d) ==
  IF d.kind = "fragment"
  THEN <<Word("fragment"), Word(d.name), Word("on"), Word(d.on)>> \o PrintDirectives(d.directives) \o PrintSelectionSet(d.sub)
  ELSE (IF d.type = "query" /\ d.name = "" /\ d.vars = <<>> /\ d.directives = <<>> THEN <<>>
        ELSE <<Word(d.type)>> \o PrintName(d.name) \o Enclosed("(", Printed(d.vars, PrintVariableDefinition), ")")
             \o PrintDirectives(d.directives))
       \o PrintSelectionSet(d.sub)
PrintDocument(definitions) == Printed(definitions, PrintDefinition)
=============================================================================
