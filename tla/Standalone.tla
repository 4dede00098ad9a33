----------------------------- MODULE Standalone -----------------------------
(***************************************************************************)
(* The components that meet no other one while they work: what the objects *)
(* of a schema use (Objects), the build of a schema (SchemaBuilder) and    *)
(* the reading of a text (Texts).  They share no state, so a behaviour is  *)
(* a behaviour of one of them.                                             *)
(***************************************************************************)
EXTENDS Objects, SchemaBuilder, Texts

VARIABLE component   \* whose behaviour this is: "objects", "schema" or "text"

vars == <<objectVars, builderVars, textVars, component>>

\* A component that does nothing has one state.
NoObjects == part = "paging" /\ NoPaging /\ ObjectsInit
NoProgram == program = (CHOOSE p \in Programs : TRUE) /\ BuilderInit
NoText == reading = "none" /\ written = <<>> /\ text = <<>> /\ definitions = <<>>

Init ==
  \/ component = "objects" /\ NoProgram /\ NoText /\ ObjectsInit
  \/ component = "schema" /\ NoObjects /\ NoText /\ BuilderInit
  \/ component = "text" /\ NoObjects /\ NoProgram /\ TextInit

Next ==
  \/ component = "objects" /\ ObjectsNext /\ UNCHANGED <<builderVars, textVars, component>>
  \/ component = "schema" /\ BuilderNext /\ UNCHANGED <<objectVars, textVars, component>>
  \/ component = "text" /\ TextNext /\ UNCHANGED <<objectVars, builderVars, component>>

Spec == Init /\ [][Next]_vars
=============================================================================
