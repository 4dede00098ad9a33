----------------------------- MODULE Validation -----------------------------
(***************************************************************************)
(* fastql/validation/rules.py: the rules of _Validator over the documents  *)
(* of FieldCollection.  A rule is an operator that is true when the        *)
(* validator reports no error; Validate gives "valid", "errors", or        *)
(* "raised" where the validator ends in an exception.                      *)
(*                                                                         *)
(* The recursions of the validator are told level by level: what is        *)
(* looked at first, what is looked at from there, and so on.               *)
(***************************************************************************)
EXTENDS FieldCollection

CONSTANTS
  RootTypes,   \* operation type -> the name of the root type, those that are configured
  Directives,  \* directive name -> the locations where it may be used
  MaxSteps     \* bound: selections on one level of field merging

Composite == {n \in DOMAIN Types : Kind(n) \in {"object", "interface", "union"}}
Leafs == {n \in DOMAIN Types : Kind(n) \in {"scalar", "enum"}}
FieldsOf(n) == IF Kind(n) \in {"object", "interface"} THEN Types[n].fields ELSE <<>>
IsListType(type) == Is(type, "list") \/ (Is(type, "nonnull") /\ Is(Inner(type), "list"))

UniqueNames(s) == \A i, j \in DOMAIN s : s[i].name = s[j].name => i = j

\* Fields of any object that the executor answers without the schema.
MetaFields == {"__schema", "__type"}
Untyped == MetaFields \cup {"__typename"}

\* What the schema builder gives: roots and union members are object types, the
\* fields and arguments have types there are for them, and an object has the fields
\* of its interfaces, of whatever types.
ASSUME SchemaAssumption ==
  /\ "" \notin DOMAIN Types
  /\ \A o \in DOMAIN RootTypes : RootTypes[o] \in DOMAIN Types /\ Kind(RootTypes[o]) = "object"
  /\ \A n \in DOMAIN Types :
       /\ Kind(n) = "union" => \A m \in Types[n].members : m \in DOMAIN Types /\ Kind(m) = "object"
       /\ Kind(n) = "object" => \A i \in Types[n].interfaces :
            i \in DOMAIN Types /\ Kind(i) = "interface" /\ DOMAIN Types[i].fields \subseteq DOMAIN Types[n].fields
       /\ \A name \in DOMAIN FieldsOf(n) : LET field == FieldsOf(n)[name] IN
            /\ field.type.name \in Composite \cup Leafs
            /\ \A a \in DOMAIN field.args :
                 field.args[a].type \in TypeRefs /\ Kind(field.args[a].type.name) \in InputKinds
ASSUME StepsAssumption == MaxSteps \in Nat

-----------------------------------------------------------------------------
\* The selection sets of a document: the operation or fragment each stands in, and
\* the type _validate_selection_set looks at it with, "" where it does not.
\* Spreads are not followed.
InOperation(i) == <<"operation", i>>
InFragment(n) == <<"fragment", n>>
SetOf(in, parent, sub) == [in |-> in, parent |-> parent, sub |-> sub]
RootType(op) == IF op.type \in DOMAIN RootTypes THEN RootTypes[op.type] ELSE ""
Outermost(doc) ==
  {SetOf(InOperation(i), RootType(doc.operations[i]), doc.operations[i].sub) : i \in DOMAIN doc.operations}
  \cup {SetOf(InFragment(n), doc.fragments[n].on, doc.fragments[n].sub) : n \in DOMAIN doc.fragments}
TypeOfField(parent, name) ==
  IF name \in DOMAIN FieldsOf(parent) THEN FieldsOf(parent)[name].type.name ELSE ""
TypeBelow(s, parent) ==
  IF parent \notin DOMAIN Types THEN ""
  ELSE IF s.kind = "inline" THEN IF s.on = "" THEN parent ELSE s.on
  ELSE IF s.name \notin Untyped /\ TypeOfField(parent, s.name) \in Composite THEN TypeOfField(parent, s.name)
  ELSE ""
SetsBelow(t) ==
  {SetOf(t.in, TypeBelow(t.sub[i], t.parent), t.sub[i].sub) :
     i \in {j \in DOMAIN t.sub : t.sub[j].kind # "spread" /\ t.sub[j].sub # <<>>}}
SetsAt(doc) ==
  LET sets[n \in 0..MaxDepth] ==
        IF n = 0 THEN Outermost(doc) ELSE sets[n - 1] \cup UNION {SetsBelow(t) : t \in sets[n - 1]}
  IN sets

\* What _Validator has: a document with all its selection sets.
Surveyed(doc) ==
  [operations |-> doc.operations, fragments |-> doc.fragments, sets |-> SetsAt(doc)[MaxDepth]]

\* The selections of an operation or a fragment, those nested in others too.
Nested(doc, in) == UNION {PartsOf(t.sub) : t \in {u \in doc.sets : u.in = in}}
Spreads(doc, in) == {s.name : s \in {n \in Nested(doc, in) : n.kind = "spread"}}

-----------------------------------------------------------------------------
\* _check_lone_anonymous_operation, _check_unique_operation_names
LoneAnonymousOperation(doc) ==
  \A i, j \in DOMAIN doc.operations : i # j => doc.operations[i].name # ""
UniqueOperationNames(doc) ==
  \A i, j \in DOMAIN doc.operations :
    doc.operations[i].name = doc.operations[j].name /\ doc.operations[i].name # "" => i = j

\* _detect_fragment_cycle: down the spreads, the fragments on the way in path.
WalksFrom(doc, w) ==
  {[at |-> target, path |-> w.path \cup {target}] :
     target \in (Spreads(doc, InFragment(w.at)) \cap DOMAIN doc.fragments) \ w.path}
FirstWalks(doc) == {[at |-> name, path |-> {name}] : name \in DOMAIN doc.fragments}
WalksAt(doc) ==
  LET walks[n \in 0..MaxDepth] ==
        IF n = 0 THEN FirstWalks(doc) ELSE walks[n - 1] \cup UNION {WalksFrom(doc, w) : w \in walks[n - 1]}
  IN walks
Walks(doc) == WalksAt(doc)[MaxDepth]
BugOnlyDirectCycles(doc) ==
  \A name \in DOMAIN doc.fragments : name \notin Spreads(doc, InFragment(name))
NoFragmentCycles(doc) == \A w \in Walks(doc) : Spreads(doc, InFragment(w.at)) \cap w.path = {}

\* _check_directives
DirectivesOK(ds, location) ==
  \A i \in DOMAIN ds :
    /\ ds[i].name \in DOMAIN Directives
    /\ location \in Directives[ds[i].name]
    /\ UniqueNames(ds[i].args)
Location == [field |-> "FIELD", spread |-> "FRAGMENT_SPREAD", inline |-> "INLINE_FRAGMENT",
             query |-> "QUERY", mutation |-> "MUTATION", subscription |-> "SUBSCRIPTION"]
KnownDirectives(doc) ==
  /\ \A i \in DOMAIN doc.operations :
       LET op == doc.operations[i] IN
       /\ DirectivesOK(op.directives, Location[op.type])
       /\ \A j \in DOMAIN op.vars : DirectivesOK(op.vars[j].directives, "VARIABLE_DEFINITION")
  /\ \A n \in DOMAIN doc.fragments : DirectivesOK(doc.fragments[n].directives, "FRAGMENT_DEFINITION")
  /\ \A t \in doc.sets : \A i \in DOMAIN t.sub : DirectivesOK(t.sub[i].directives, Location[t.sub[i].kind])

-----------------------------------------------------------------------------
\* _possible_types and _types_overlap
PossibleTypes(n) ==
  CASE Kind(n) = "object" -> {n}
    [] Kind(n) = "union" -> Types[n].members
    [] Kind(n) = "interface" -> {m \in DOMAIN Types : Kind(m) = "object" /\ n \in Types[m].interfaces}
    [] OTHER -> {}
TypesOverlap(a, b) ==
  {a, b} \subseteq Composite => PossibleTypes(a) \cap PossibleTypes(b) # {}

\* _check_argument_value, but for the uniqueness of input fields: the fields of an
\* object literal have distinct names here.  A literal is tried with the parser of
\* the named scalar, whatever wraps it.
ArgumentOK(arg, def) ==
  \/ arg.value.kind \in {"var", "null"}
  \/ Kind(def.type.name) # "scalar"
  \/ ParseScalar(def.type.name, arg.value) # Refused
ArgumentsOK(f, def) ==
  /\ UniqueNames(f.args)
  /\ \A i \in DOMAIN f.args :
       f.args[i].name \in DOMAIN def.args /\ ArgumentOK(f.args[i], def.args[f.args[i].name])

\* _validate_stream_directive
StreamOK(f, def) == HasNamed(f.directives, "stream") => IsListType(def.type)

\* _validate_field, _validate_fragment_spread and _validate_inline_fragment, but for
\* the selection set below, which is a selection set of its own.
FieldOK(f, parent) ==
  \/ f.name = "__typename"
  \/ f.name \in MetaFields /\ "query" \in DOMAIN RootTypes /\ parent = RootTypes.query
  \/ /\ f.name \in DOMAIN FieldsOf(parent)
     /\ LET def == FieldsOf(parent)[f.name] IN
        /\ ArgumentsOK(f, def) /\ StreamOK(f, def)
        /\ def.type.name \in Leafs => f.sub = <<>>
        /\ def.type.name \in Composite => f.sub # <<>>
SpreadOK(doc, s, parent) ==
  /\ s.name \in DOMAIN doc.fragments
  /\ LET on == doc.fragments[s.name].on IN on \in DOMAIN Types => TypesOverlap(parent, on)
InlineOK(s, parent) == s.on # "" => s.on \in Composite /\ TypesOverlap(parent, s.on)
SelectionOK(doc, s, parent) ==
  CASE s.kind = "field" -> FieldOK(s, parent)
    [] s.kind = "spread" -> SpreadOK(doc, s, parent)
    [] s.kind = "inline" -> InlineOK(s, parent)

\* _validate_selection_set, for the operation or the fragment
SelectionsOK(doc, in) ==
  \A t \in {u \in doc.sets : u.in = in /\ u.parent \in DOMAIN Types} :
    \A i \in DOMAIN t.sub : SelectionOK(doc, t.sub[i], t.parent)

FragmentOK(doc, n) == doc.fragments[n].on \in Composite /\ SelectionsOK(doc, InFragment(n))

\* _validate_single_root_field with _root_fields: skip, include and type
\* conditions make no difference.
RootFields(doc, op) ==
  LET selections(sub) == {s \in PartsOf(sub) : s.kind = "inline" \/ (s.kind = "spread" /\ s.name \in DOMAIN doc.fragments)}
      body(s) == IF s.kind = "inline" THEN s.sub ELSE doc.fragments[s.name].sub
      subs[n \in 0..MaxDepth] == IF n = 0 THEN {op.sub} ELSE UNION {{body(s) : s \in selections(sub)} : sub \in subs[n - 1]}
  IN {s \in UNION {PartsOf(sub) : sub \in UNION {subs[n] : n \in 0..MaxDepth}} : s.kind = "field"}
SingleRootField(doc, op) ==
  LET fields == RootFields(doc, op) IN
  /\ \E key \in {ResponseKey(f) : f \in fields} : \A f \in fields : ResponseKey(f) = key
  /\ \A f \in fields : f.name \notin Untyped

-----------------------------------------------------------------------------
\* _fields_by_response_key for a level of merged selection sets: entries are the
\* nodes they belong to, parent the type they are all taken to be on.  It goes
\* through them one selection at a time, as a collection does, into whatever
\* fragments, and groups the fields with the type they were selected on.
Entry(node, parent) == [node |-> node, parent |-> parent]
TypeOrParent(on, parent) == IF on \in DOMAIN Types THEN on ELSE parent
At(sub, parent) == [i \in DOMAIN sub |-> Entry(sub[i], parent)]
MergeSelection(doc, m) ==
  LET s == Head(m.work).node
      parent == Head(m.work).parent
      rest == [m EXCEPT !.work = Tail(@)]
  IN IF s.kind = "field" THEN [rest EXCEPT !.groups = Grouped(@, ResponseKey(s), Head(m.work))]
     ELSE IF s.kind = "inline" THEN [rest EXCEPT !.work = At(s.sub, TypeOrParent(s.on, parent)) \o @]
     ELSE IF s.name \notin DOMAIN doc.fragments \ m.visited THEN rest
     ELSE [rest EXCEPT !.work = At(doc.fragments[s.name].sub, TypeOrParent(doc.fragments[s.name].on, parent)) \o @,
                       !.visited = @ \cup {s.name}]
MergeStep(doc, parent, m) ==
  IF m.work # <<>> THEN MergeSelection(doc, m)
  ELSE IF m.entries # <<>>
  THEN [m EXCEPT !.work = At(Head(m.entries).node.sub, parent), !.entries = Tail(m.entries)]
  ELSE m
StartMerge(entries) == [work |-> <<>>, entries |-> entries, groups |-> <<>>, visited |-> {}]
MergeAt(doc, entries, parent) ==
  LET merge[n \in 0..MaxSteps] ==
        IF n = 0 THEN StartMerge(entries) ELSE MergeStep(doc, parent, merge[n - 1])
  IN merge
Level(doc, depth, entries, parent) ==
  LET end == MergeAt(doc, entries, parent)[MaxSteps]
  IN [depth |-> depth, entries |-> entries, parent |-> parent, groups |-> end.groups,
      complete |-> end.work = <<>> /\ end.entries = <<>>]

\* _arguments_map: arguments by name, the last one of a name.
ArgumentsMap(f) ==
  [n \in {f.args[i].name : i \in DOMAIN f.args} |-> LastNamed(f.args, n).value]
SameField(f, g) == f.name = g.name /\ ArgumentsMap(f) = ArgumentsMap(g)

\* _validate_field_merging: at each level the fields of a key are compared with the
\* first one; those with a selection set are merged below, on the type of the first
\* of them.
WithSub(group) == {i \in DOMAIN group : group[i].node.sub # <<>>}
TypeOfGroup(group) ==
  LET first == CHOOSE i \in WithSub(group) : \A j \in WithSub(group) : i <= j
  IN TypeOfField(group[first].parent, group[first].node.name)
LevelsBelow(doc, level) ==
  {Level(doc, level.depth + 1, level.groups[k], TypeOfGroup(level.groups[k])) :
     k \in {j \in DOMAIN level.groups :
              WithSub(level.groups[j]) # {} /\ TypeOfGroup(level.groups[j]) \in Composite}}
TopLevels(doc) ==
  {Level(doc, 0, <<Entry(op, RootTypes[op.type])>>, RootTypes[op.type]) :
     op \in {o \in PartsOf(doc.operations) : o.type \in DOMAIN RootTypes}}
LevelsAt(doc) ==
  LET levels[n \in 0..MaxDepth] ==
        IF n = 0 THEN TopLevels(doc)
        ELSE levels[n - 1] \cup UNION {LevelsBelow(doc, level) : level \in {l \in levels[n - 1] : l.depth = n - 1}}
  IN levels
Levels(doc) == LevelsAt(doc)[MaxDepth]
Agrees(level) ==
  \A k \in DOMAIN level.groups : \A i \in DOMAIN level.groups[k] :
    SameField(level.groups[k][1].node, level.groups[k][i].node)
BugOnlyFirstLevel(levels) == \A level \in levels : level.depth = 0 => Agrees(level)
FieldMerging(levels) == \A level \in levels : Agrees(level)

-----------------------------------------------------------------------------
\* _variables_in_value, _variables_in_arguments
PartsOfValue(v) ==
  CASE v.kind = "list" -> PartsOf(v.items) [] v.kind = "object" -> PartsOf(v.fields) [] OTHER -> {}
PartsIn(v) ==
  LET parts[n \in 0..MaxDepth] == IF n = 0 THEN {v} ELSE UNION {PartsOfValue(w) : w \in parts[n - 1]}
  IN parts
VariablesIn(v) == {w.of : w \in {u \in UNION {PartsIn(v)[n] : n \in 0..MaxDepth} : u.kind = "var"}}
VariablesInArguments(args) == UNION {VariablesIn(args[i].value) : i \in DOMAIN args}
OwnVariables(s) ==
  (IF s.kind = "field" THEN VariablesInArguments(s.args) ELSE {})
  \cup UNION {VariablesInArguments(s.directives[i].args) : i \in DOMAIN s.directives}

\* _used_variables: through the fragments, each entered once.  What is reached by
\* spreads is the least set of fragments with those and all they spread.
Closed(doc, names) == \A n \in names : Spreads(doc, InFragment(n)) \cap DOMAIN doc.fragments \subseteq names
Reached(doc, in) ==
  {n \in DOMAIN doc.fragments :
     \A names \in SUBSET DOMAIN doc.fragments :
       Spreads(doc, in) \cap DOMAIN doc.fragments \subseteq names /\ Closed(doc, names) => n \in names}
UsedVariables(doc, in) ==
  UNION {OwnVariables(s) : s \in Nested(doc, in) \cup UNION {Nested(doc, InFragment(n)) : n \in Reached(doc, in)}}

\* _validate_operation
OperationOK(doc, i) ==
  LET op == doc.operations[i] IN
  /\ op.type \in DOMAIN RootTypes
  /\ op.type = "subscription" => SingleRootField(doc, op)
  /\ UniqueNames(op.vars)
  /\ SelectionsOK(doc, InOperation(i))
  /\ UsedVariables(doc, InOperation(i)) \subseteq {op.vars[v].name : v \in DOMAIN op.vars}

\* Python's recursion limit ends a validator that goes deeper than MaxDepth.
TooDeep(doc, levels) ==
  \/ \E t \in doc.sets : ~(SetsBelow(t) \subseteq doc.sets)
  \/ \E w \in Walks(doc) : ~(WalksFrom(doc, w) \subseteq Walks(doc))
  \/ \E level \in levels : ~level.complete \/ ~(LevelsBelow(doc, level) \subseteq levels)

\* run()
Run(doc, levels) ==
  IF TooDeep(doc, levels) THEN "raised"
  ELSE IF /\ LoneAnonymousOperation(doc) /\ UniqueOperationNames(doc)
          /\ NoFragmentCycles(doc) /\ KnownDirectives(doc)
          /\ \A i \in DOMAIN doc.operations : OperationOK(doc, i)
          /\ \A n \in DOMAIN doc.fragments : FragmentOK(doc, n)
          /\ FieldMerging(levels)
  THEN "valid" ELSE "errors"
Validate(document) == LET doc == Surveyed(document) IN Run(doc, Levels(doc))
=============================================================================
