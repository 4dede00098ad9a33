----------------------------- MODULE Documents -----------------------------
(***************************************************************************)
(* A document on its way through Validation, Coercion and FieldCollection  *)
(* as execute() of fastql/execution/execute.py takes it once it is parsed: *)
(* its operation chosen, the document validated, its variables coerced,    *)
(* and then the executor at any position below the root, with resolvers    *)
(* that return objects of any type the schema allows.                      *)
(***************************************************************************)
EXTENDS Validation

CONSTANTS
  Selections, \* the selections documents are made of, with all that are nested in them
  Inputs      \* the [definitions, name, raw, incremental] there may be: the name of the
              \* operation or "", the JSON of the variables, and whether fragments
              \* may be deferred

ASSUME SelectionsAssumption ==
  LET sets == Seq(Selections) IN
  \A s \in Selections :
    /\ s.kind \in {"field", "inline", "spread"}
    /\ s.kind # "spread" => s.sub \in sets
    /\ s.kind = "field" => IsSequence(s.args) /\ \A i \in DOMAIN s.args : s.args[i].value \in Values
ASSUME InputsAssumption ==
  LET sets == Seq(Selections) IN
  \A c \in Inputs :
    /\ IsSequence(c.definitions)
    /\ \A i \in DOMAIN c.definitions : LET d == c.definitions[i] IN
         /\ d.kind \in {"operation", "fragment"} /\ d.sub \in sets
         /\ d.kind = "operation" => \A v \in DOMAIN d.vars :
              /\ d.vars[v].type \in [name : {d.vars[v].type.name}, wraps : Seq(Wraps)]
              /\ d.vars[v].default # Absent => d.vars[v].default \in Values /\ VariablesIn(d.vars[v].default) = {}
    /\ \A n \in DOMAIN c.raw : c.raw[n] \in Values

VARIABLES
  input,
  stage,      \* "parsed", "chosen", "valid", "errors", "raised", "refused", "collecting" or "executing"
  chosen,     \* the index of the operation
  variables,  \* the coerced variables
  object,     \* the runtime type of the object at the executor's position
  collected   \* its groups of fields and the deferred fragments, and how far they are collected

vars == <<input, stage, chosen, variables, object, collected>>

document == DocumentOf(input.definitions)
operation == document.operations[chosen]

Init ==
  /\ input \in Inputs
  /\ stage = "parsed"
  /\ chosen = 0
  /\ variables = <<>>
  /\ object = "none"
  /\ collected = StartCollection(<<>>)

\* _get_operation: the only one, or the first of the name.
Candidates ==
  {i \in DOMAIN document.operations :
     IF input.name = "" THEN DOMAIN document.operations = {i} ELSE document.operations[i].name = input.name}
GetOperation ==
  /\ stage = "parsed"
  /\ IF Candidates = {} THEN stage' = "refused" /\ UNCHANGED chosen
     ELSE stage' = "chosen" /\ chosen' = CHOOSE i \in Candidates : \A j \in Candidates : i <= j
  /\ UNCHANGED <<input, variables, object, collected>>

ValidateDocument ==
  /\ stage = "chosen"
  /\ stage' = Validate(document)
  /\ UNCHANGED <<input, chosen, variables, object, collected>>

\* coerce_variable_values, and execute_operation up to the fields of the root.
StartOperation ==
  /\ stage = "valid"
  /\ IF VariablesRefused(operation.vars, input.raw)
     THEN stage' = "refused" /\ UNCHANGED <<variables, object, collected>>
     ELSE /\ stage' = "collecting"
          /\ variables' = VariableValues(operation.vars, input.raw)
          /\ object' = RootTypes[operation.type]
          /\ collected' = StartCollection(<<operation.sub>>)
  /\ UNCHANGED <<input, chosen>>

\* collect_fields and _collect_subfields, one selection after the other.
Collect ==
  /\ stage = "collecting"
  /\ IF collected.work # <<>>
     THEN /\ collected' = CollectSelection(document, object, variables, input.incremental, collected)
          /\ UNCHANGED stage
     ELSE IF collected.sets # <<>> THEN collected' = NextSet(collected) /\ UNCHANGED stage
     ELSE stage' = "executing" /\ UNCHANGED collected
  /\ UNCHANGED <<input, chosen, variables, object>>

\* _execute_field and _complete_value: the field of a group has an object as its
\* value, or an item of its list is one.
Descend(key) ==
  LET group == collected.groups[key]
      name == group[1].name
  IN /\ stage = "executing"
     /\ name \notin Untyped /\ name \in DOMAIN FieldsOf(object)
     /\ FieldsOf(object)[name].type.name \in Composite
     /\ object' \in PossibleTypes(FieldsOf(object)[name].type.name)
     /\ collected' = StartCollection([i \in DOMAIN group |-> group[i].sub])
     /\ stage' = "collecting"
     /\ UNCHANGED <<input, chosen, variables>>

\* A deferred fragment is collected for the object it was met on.
Resume(i) ==
  /\ stage = "executing"
  /\ collected' = StartCollection(<<collected.deferred[i]>>)
  /\ stage' = "collecting"
  /\ UNCHANGED <<input, chosen, variables, object>>

Next ==
  \/ GetOperation
  \/ ValidateDocument
  \/ StartOperation
  \/ Collect
  \/ \E key \in DOMAIN collected.groups : Descend(key)
  \/ \E i \in DOMAIN collected.deferred : Resume(i)

Spec == Init /\ [][Next]_vars

-----------------------------------------------------------------------------
\* A schema where a field that several types have leads to the same type of objects
\* on all of them, if to objects at all: there it makes no difference that field
\* merging takes the fields of a level to be on the type of the first of them.
OneTypePerField ==
  \A p, q \in Composite : \A name \in DOMAIN FieldsOf(p) \cap DOMAIN FieldsOf(q) :
    FieldsOf(p)[name].type.name \in Composite => FieldsOf(q)[name].type.name = FieldsOf(p)[name].type.name

\* "Fields with the same response key" that cannot be merged are rejected before
\* execution: the executor resolves the first field of a group, so that wherever it
\* gets in a valid document, on any object type and for any variables, all fields
\* of a group are the same field with the same arguments.
MergedFieldsAgree ==
  \A key \in DOMAIN collected.groups :
    \A i \in DOMAIN collected.groups[key] : SameField(collected.groups[key][1], collected.groups[key][i])

\* What validation promises to the executor ("unreachable after validation" in
\* _execute_field): a collected field exists on the object at hand, has subfields
\* exactly if its type does, and uses variables of the operation only; no fragment
\* that the operation reaches reaches itself.
ValidExecutes ==
  stage = "executing" =>
    /\ \A key \in DOMAIN collected.groups : \A i \in DOMAIN collected.groups[key] :
         LET f == collected.groups[key][i] IN
         f.name \notin Untyped =>
           /\ f.name \in DOMAIN FieldsOf(object)
           /\ FieldsOf(object)[f.name].type.name \in Composite <=> f.sub # <<>>
           /\ OwnVariables(f) \subseteq {operation.vars[v].name : v \in DOMAIN operation.vars}
    /\ LET doc == Surveyed(document) IN
       \A n \in Reached(doc, InOperation(chosen)) : n \notin Reached(doc, InFragment(n))

\* What a client gives reaches resolvers as its declared type says, whichever way it
\* took: a coerced variable conforms to its declaration, and a literal that is not
\* refused conforms to its argument and becomes what the same value sent as JSON
\* becomes.
InputsConform ==
  stage = "executing" =>
    /\ \A i \in DOMAIN operation.vars : LET d == operation.vars[i] IN
         Kind(d.type.name) \in InputKinds =>
           IF d.name \in DOMAIN variables THEN Conforms(variables[d.name], d.type)
           ELSE ~Is(d.type, "nonnull")
    /\ \A key \in DOMAIN collected.groups : LET f == collected.groups[key][1] IN
         f.name \in DOMAIN FieldsOf(object) =>
           \A a \in DOMAIN FieldsOf(object)[f.name].args :
             LET def == FieldsOf(object)[f.name].args[a]
                 value == ArgumentValue(def, a, f.args, variables)
             IN HasNamed(f.args, a) /\ value # Refused =>
                  \A json \in Values : IsJson(LastNamed(f.args, a).value, json) =>
                    value = CoerceInput(json, def.type) /\ Conforms(value, def.type)

\* openspec/specs/query-validation/spec.md: "Validation SHALL reject documents whose
\* fragment spreads form a cycle", where the validator may recurse without end.
CyclesAreReported == stage # "raised"
=============================================================================
