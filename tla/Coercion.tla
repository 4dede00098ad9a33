------------------------------ MODULE Coercion ------------------------------
(***************************************************************************)
(* fastql/execution/values.py and types/scalars.py: what a resolver gets   *)
(* for a variable or an argument literal.                                  *)
(*                                                                         *)
(* What recurs over a value is a function of how deep it may still go.     *)
(*                                                                         *)
(* Operators named Bug... are plausible mistakes in the definition below   *)
(* them; no specification uses them (see PROJECT.json, "mutants").         *)
(***************************************************************************)
EXTENDS Ast

CONSTANTS
  Types,     \* the schema's type_map and the built-in scalars
  Values,    \* the JSON values and the literals clients write, with all their parts
  MaxDepth   \* bound: nested values, selection sets or fragments until Python's recursion limit

TypeRefs == [name : DOMAIN Types, wraps : Seq(Wraps)]
Kind(n) == Types[n].kind
InputKinds == {"scalar", "enum", "input"}
Refused == [kind |-> "refused"]  \* a GraphQLError was raised

ASSUME DepthAssumption == MaxDepth \in Nat
ASSUME ValuesAssumption ==
  \A v \in Values :
    /\ v.kind \notin {"refused", "absent"} /\ (v.kind = "null" => v = Null)
    /\ v.kind = "list" => v.items \in Seq(Values)
    /\ v.kind = "object" => \A f \in DOMAIN v.fields : v.fields[f] \in Values

\* GraphQLError leaves at once: one refused part refuses the whole.
PartsOf(f) == {f[x] : x \in DOMAIN f}
Whole(v, f) == IF Refused \in PartsOf(f) THEN Refused ELSE v

-----------------------------------------------------------------------------
\* The built-in scalars: the kinds each takes, in JSON and as a literal, and what
\* comes out; "wide" stands for numbers beyond 32 bits, or not finite.
ScalarKinds ==
  [Int |-> {"int"}, Float |-> {"int", "float"}, String |-> {"string"},
   Boolean |-> {"bool"}, ID |-> {"string", "int"}]
NativeKind ==
  [Int |-> "int", Float |-> "float", String |-> "string", Boolean |-> "bool", ID |-> "string"]
TooWide(name, v) == v.of = "wide" /\ (name = "Int" \/ (name = "Float" /\ v.kind = "float"))
ParseScalar(name, v) ==
  IF v.kind \notin ScalarKinds[name] \/ TooWide(name, v) THEN Refused
  ELSE [kind |-> NativeKind[name], of |-> v.of]

EnumMember(t, name) == IF name \in Types[t].values THEN [kind |-> "member", of |-> name] ELSE Refused

\* A default stands for a missing field; a required field must be there.
DefaultOf(field) ==
  IF field.default # Absent THEN field.default
  ELSE IF Is(field.type, "nonnull") THEN Refused
  ELSE Absent

\* The values a list type takes: of what is no list, the one.
ListItems(v) == IF v.kind = "list" THEN v.items ELSE <<v>>
ListValue(items) == Whole([kind |-> "list", items |-> items], items)

\* The fields of an input object that have a value; unknown ones are passed over.
ObjectValue(value) ==
  LET given == {n \in DOMAIN value : value[n] # Absent}
  IN Whole([kind |-> "object", fields |-> [n \in given |-> value[n]]], value)

\* The parts of a value, coerced one level less deep.
ItemsOf(coerce, v, t) == ListValue([i \in DOMAIN ListItems(v) |-> coerce[ListItems(v)[i]][Inner(t)]])
FieldsIn(coerce, v, inputs) ==
  IF v.kind # "object" THEN Refused
  ELSE ObjectValue([f \in DOMAIN inputs |->
         IF f \in DOMAIN v.fields THEN coerce[v.fields[f]][inputs[f].type] ELSE DefaultOf(inputs[f])])

\* coerce_input_value with _coerce_input_object: JSON against a type, n levels deep.
InputOf(coerce, v, t) ==
  IF Is(t, "nonnull") THEN IF v = Null THEN Refused ELSE coerce[v][Inner(t)]
  ELSE IF v = Null THEN Null
  ELSE IF Is(t, "list") THEN ItemsOf(coerce, v, t)
  ELSE CASE Kind(t.name) = "scalar" -> ParseScalar(t.name, v)
         [] Kind(t.name) = "enum" -> IF v.kind = "string" THEN EnumMember(t.name, v.of) ELSE Refused
         [] Kind(t.name) = "input" -> FieldsIn(coerce, v, Types[t.name].inputs)
         [] OTHER -> v
InputValue[n \in 0..MaxDepth] ==
  IF n = 0 THEN [v \in Values |-> [t \in TypeRefs |-> Refused]]
  ELSE [v \in Values |-> [t \in TypeRefs |-> InputOf(InputValue[n - 1], v, t)]]
CoerceInput(v, t) == InputValue[MaxDepth][v][t]

\* value_from_ast with _input_object_from_ast: a literal against a type, n levels
\* deep.  The variable is taken as it is, whatever it is declared to be.
VariableOr(v, vars, otherwise) ==
  IF v.kind # "var" THEN otherwise ELSE IF v.of \in DOMAIN vars THEN vars[v.of] ELSE Null
BugNullPasses(v) == v
NotNull(v) == IF v = Null THEN Refused ELSE v
LiteralOf(coerce, v, t) ==
  IF Is(t, "nonnull") THEN NotNull(coerce[v][Inner(t)])
  ELSE IF v = Null THEN Null
  ELSE IF Is(t, "list") THEN ItemsOf(coerce, v, t)
  ELSE CASE Kind(t.name) = "scalar" -> ParseScalar(t.name, v)
         [] Kind(t.name) = "enum" -> IF v.kind = "enum" THEN EnumMember(t.name, v.of) ELSE Refused
         [] Kind(t.name) = "input" -> FieldsIn(coerce, v, Types[t.name].inputs)
         [] OTHER -> Null
LiteralValue(vars) ==
  LET value[n \in 0..MaxDepth] ==
        IF n = 0 THEN [v \in Values |-> [t \in TypeRefs |-> VariableOr(v, vars, Refused)]]
        ELSE [v \in Values |-> [t \in TypeRefs |-> VariableOr(v, vars, LiteralOf(value[n - 1], v, t))]]
  IN value
ValueFromAst(v, t, vars) == LiteralValue(vars)[MaxDepth][v][t]

-----------------------------------------------------------------------------
\* coerce_variable_values: declared is the sequence of [name, type, default,
\* directives], raw a function from names to JSON.
VariableValue(d, raw) ==
  IF d.type.name \notin DOMAIN Types THEN Refused
  ELSE IF d.name \in DOMAIN raw THEN CoerceInput(raw[d.name], d.type)
  ELSE IF d.default # Absent THEN ValueFromAst(d.default, d.type, <<>>)
  ELSE IF Is(d.type, "nonnull") THEN Refused
  ELSE Absent

VariablesRefused(declared, raw) == \E i \in DOMAIN declared : VariableValue(declared[i], raw) = Refused
VariableValues(declared, raw) ==
  LET given == {i \in DOMAIN declared : VariableValue(declared[i], raw) # Absent}
  IN [n \in {declared[i].name : i \in given} |->
        VariableValue(declared[CHOOSE i \in given : declared[i].name = n], raw)]

\* coerce_argument_values, for one argument of the field: what the resolver gets.
ArgumentValue(def, name, args, vars) ==
  IF ~HasNamed(args, name) THEN DefaultOf(def)
  ELSE LET v == LastNamed(args, name).value IN
    IF v.kind # "var" THEN ValueFromAst(v, def.type, vars)
    ELSE IF v.of \in DOMAIN vars THEN vars[v.of]
    ELSE def.default

-----------------------------------------------------------------------------
\* What a coerced value must be: the reference the coercions are checked against.
\* A value is given its type, and its parts theirs.
Typed(v, t) == [value |-> v, type |-> t]
BelowTyped(p) ==
  IF Is(p.type, "nonnull") THEN {Typed(p.value, Inner(p.type))}
  ELSE IF p.value = Null THEN {}
  ELSE IF Is(p.type, "list")
  THEN IF p.value.kind = "list" THEN {Typed(x, Inner(p.type)) : x \in PartsOf(p.value.items)} ELSE {}
  ELSE IF Kind(p.type.name) = "input" /\ p.value.kind = "object"
  THEN {Typed(p.value.fields[f], Types[p.type.name].inputs[f].type) :
          f \in DOMAIN Types[p.type.name].inputs \cap DOMAIN p.value.fields}
  ELSE {}
Fits(p) ==
  IF Is(p.type, "nonnull") THEN p.value # Null
  ELSE \/ p.value = Null
       \/ Is(p.type, "list") /\ p.value.kind = "list"
       \/ /\ p.type.wraps = <<>> /\ Kind(p.type.name) = "scalar"
          /\ p.value.kind = NativeKind[p.type.name] /\ ~(p.type.name = "Int" /\ p.value.of = "wide")
       \/ /\ p.type.wraps = <<>> /\ Kind(p.type.name) = "enum"
          /\ p.value.kind = "member" /\ p.value.of \in Types[p.type.name].values
       \/ /\ p.type.wraps = <<>> /\ Kind(p.type.name) = "input" /\ p.value.kind = "object"
          /\ \A f \in DOMAIN Types[p.type.name].inputs \ DOMAIN p.value.fields :
               ~Is(Types[p.type.name].inputs[f].type, "nonnull")
PartsAt(v, t) ==
  LET parts[n \in 0..MaxDepth] == IF n = 0 THEN {Typed(v, t)} ELSE UNION {BelowTyped(p) : p \in parts[n - 1]}
  IN parts
Conforms(v, t) == \A n \in 0..MaxDepth : \A p \in PartsAt(v, t)[n] : Fits(p)

\* What the schema builder gives: the fields of input objects have input types, and
\* their defaults are values of these.
ASSUME InputTypesAssumption ==
  \A n \in DOMAIN Types :
    /\ Kind(n) = "scalar" => n \in DOMAIN ScalarKinds
    /\ Kind(n) = "input" => \A f \in DOMAIN Types[n].inputs :
         LET field == Types[n].inputs[f] IN
         /\ field.type \in TypeRefs /\ Kind(field.type.name) \in InputKinds
         /\ field.default # Refused
         /\ field.default # Absent => Conforms(field.default, field.type)

\* The JSON a client would send for a literal without variables.
Both(v, json) == [literal |-> v, json |-> json]
BelowBoth(p) ==
  CASE p.literal.kind = "list" -> {Both(p.literal.items[i], p.json.items[i]) : i \in DOMAIN p.literal.items}
    [] p.literal.kind = "object" -> {Both(p.literal.fields[f], p.json.fields[f]) : f \in DOMAIN p.literal.fields}
    [] OTHER -> {}
Corresponds(p) ==
  CASE p.literal.kind = "enum" -> p.json = [kind |-> "string", of |-> p.literal.of]
    [] p.literal.kind = "list" -> p.json.kind = "list" /\ DOMAIN p.json.items = DOMAIN p.literal.items
    [] p.literal.kind = "object" -> p.json.kind = "object" /\ DOMAIN p.json.fields = DOMAIN p.literal.fields
    [] OTHER -> p.literal.kind # "var" /\ p.json = p.literal
BothAt(v, json) ==
  LET pairs[n \in 0..MaxDepth] == IF n = 0 THEN {Both(v, json)} ELSE UNION {BelowBoth(p) : p \in pairs[n - 1]}
  IN pairs
IsJson(v, json) == \A n \in 0..MaxDepth : \A p \in BothAt(v, json)[n] : Corresponds(p)
=============================================================================
