---------------------------- MODULE SchemaBuilder ----------------------------
(***************************************************************************)
(* fastql/schema_builder.py and fastql/types/schema.py: how declared types *)
(* become a schema.  The builder walks the types from the roots, depth     *)
(* first, and replaces every reference in place by the type it stands for; *)
(* the Schema then walks the result once more into its type_map.           *)
(*                                                                         *)
(* A type object is known by its identity, apart from its GraphQL name and *)
(* the name of its class, which several may share.  A reference is         *)
(*   [form |-> "ir", type]              a type object                      *)
(*   [form |-> "class", class]          a forward reference by class name  *)
(*   [form |-> "generic", template, of] Template[of], for one parameter    *)
(*   [form |-> "var"]                   that parameter, within a template  *)
(* without the NonNull and List around it, which the walk keeps.           *)
(* The recursion of _resolve_named is the stack of what is left to do.     *)
(*                                                                         *)
(* Operators named Bug... are plausible mistakes in the definition below   *)
(* them; no specification uses them (see PROJECT.json, "mutants").         *)
(***************************************************************************)
EXTENDS Naturals, Sequences

\* What was declared: [types, fields, templates, registered, plain, roots].
\*   types: id -> [kind, name, class, fields, interfaces];  a union's fields are its members
\*   fields: id -> [name, ref, args], of types, templates and arguments
\*   templates: name -> [base, kind, fields, interfaces]
\*   registered: the ids in the registry, in order;  plain: undecorated classes
\*   roots: the ids of the root types and of the types listed explicitly
CONSTANT Programs

Closed(ref) == ref.form # "var" /\ (ref.form = "generic" => ref.of.form # "var")

\* What the decorators can hand over: a type refers to types, fields and templates there
\* are and leaves no parameter open; arguments and members have no arguments.
WellDeclared(p) ==
  LET simple == {[form |-> "ir", type |-> <<"declared", id>>] : id \in DOMAIN p.types} \cup [form : {"class"}, class : STRING]
      open == simple \cup {[form |-> "var"]}
      NoArguments(f) == p.fields[f].args = <<>>
  IN
  /\ p.registered \in Seq(DOMAIN p.types) /\ p.roots \in Seq(DOMAIN p.types)
  /\ \A f \in DOMAIN p.fields :
       /\ p.fields[f].ref \in open \cup [form : {"generic"}, template : DOMAIN p.templates, of : open]
       /\ p.fields[f].args \in Seq({a \in DOMAIN p.fields : NoArguments(a)})
  /\ \A x \in DOMAIN p.templates :
       /\ p.templates[x].kind \in {"object", "interface", "input"}
       /\ p.templates[x].fields \in Seq(DOMAIN p.fields) /\ p.templates[x].interfaces \in Seq(DOMAIN p.types)
  /\ \A id \in DOMAIN p.types :
       LET t == p.types[id] IN
       /\ t.kind \in {"object", "interface", "input", "union", "scalar", "enum"}
       /\ t.fields \in Seq(DOMAIN p.fields) /\ t.interfaces \in Seq(DOMAIN p.types)
       /\ \A i \in DOMAIN t.fields :
            /\ Closed(p.fields[t.fields[i]].ref) /\ (t.kind = "union" => NoArguments(t.fields[i]))
            /\ \A j \in DOMAIN p.fields[t.fields[i]].args : Closed(p.fields[p.fields[t.fields[i]].args[j]].ref)

ASSUME ProgramsAssumption == \A p \in Programs : WellDeclared(p)

VARIABLES
  program,  \* what was declared
  names,    \* registry.types_by_name
  made,     \* _generic_cache: name -> [template, of, interfaces, fields] of the type made
  holds,    \* the reference each field, member and argument holds by now
  stack,    \* what the recursion has left to do
  byName,   \* self.by_name; the types in it are those visited
  typeMap,  \* Schema.type_map
  stage     \* "walking", "collecting", "built", "refused" or "conflict"

builderVars == <<program, names, made, holds, stack, byName, typeMap, stage>>

-----------------------------------------------------------------------------
Declared(id) == <<"declared", id>>
Made(name) == <<"made", name>>
Plain(class) == <<"plain", class>>  \* a class that is no GraphQL type
Unknown == <<"unknown", "">>

IsNamed(t) == t[1] \in {"declared", "made"}
Declaration(t) == IF t[1] = "declared" THEN program.types[t[2]] ELSE program.templates[made[t[2]].template]
NameOf(t) == CASE t[1] = "declared" -> program.types[t[2]].name
               [] t[1] = "made" -> t[2]
               [] OTHER -> "Unknown"
KindOf(t) == IF IsNamed(t) THEN Declaration(t).kind ELSE "none"

\* A field is known by its owner, none for what was declared, so that an object and
\* the interface it inherits a field from have that field in common.
FieldName(f) == program.fields[f[2]].name
ArgsOf(f) == [i \in DOMAIN program.fields[f[2]].args |-> <<f[1], program.fields[f[2]].args[i]>>]

InterfacesOf(t) ==
  IF t[1] = "made" THEN made[t[2]].interfaces
  ELSE [i \in DOMAIN Declaration(t).interfaces |-> Declared(Declaration(t).interfaces[i])]
FieldsOf(t) ==
  IF t[1] = "made" THEN made[t[2]].fields
  ELSE [i \in DOMAIN Declaration(t).fields |-> <<<<>>, Declaration(t).fields[i]>>]

\* dict.update: a field takes the place of one of its name, or comes last.
Put(fs, f) ==
  IF \E i \in DOMAIN fs : FieldName(fs[i]) = FieldName(f)
  THEN [i \in DOMAIN fs |-> IF FieldName(fs[i]) = FieldName(f) THEN f ELSE fs[i]]
  ELSE Append(fs, f)
Update(fs, gs) ==
  LET put[i \in 0..Len(gs)] == IF i = 0 THEN fs ELSE Put(put[i - 1], gs[i]) IN put[Len(gs)]
Inherited(interfaces) ==
  LET merged[i \in 0..Len(interfaces)] ==
        IF i = 0 THEN <<>> ELSE Update(merged[i - 1], FieldsOf(interfaces[i]))
  IN merged[Len(interfaces)]

\* _resolve_ref of a type object: the registered type of its name takes its place.
Final(t) == IF IsNamed(t) /\ NameOf(t) \in DOMAIN names THEN names[NameOf(t)] ELSE t

-----------------------------------------------------------------------------
\* DecoratorRegistry: of the types with one name, or of one class, the last counts.
Registered == {program.types[program.registered[i]] : i \in DOMAIN program.registered}
OfName(name) == {i \in DOMAIN program.registered : program.types[program.registered[i]].name = name}
OfClass(class) == {i \in DOMAIN program.registered : program.types[program.registered[i]].class = class}
Latest(places) == CHOOSE i \in places : \A j \in places : j <= i
LastRegistered(places) == Declared(program.registered[Latest(places)])

\* _lookup_reference: by class name, by GraphQL name, or in the module.
LookUp(class) ==
  IF OfClass(class) # {} THEN LastRegistered(OfClass(class))
  ELSE IF class \in DOMAIN names THEN names[class]
  ELSE IF class \in program.plain THEN Plain(class)
  ELSE Unknown

Simple(ref) == IF ref.form = "ir" THEN Final(ref.type) ELSE Final(LookUp(ref.class))

\* _generic_name, without a name template of its own.
BugNameOfTemplate(template, arg) == program.templates[template].base
GenericName(template, arg) == NameOf(arg) \o program.templates[template].base

\* _substitute_typevars for a field of the template.
Substituted(ref, arg) ==
  CASE ref.form = "var" -> [form |-> "ir", type |-> arg]
    [] ref.form = "generic" /\ ref.of.form = "var" -> [ref EXCEPT !.of = [form |-> "ir", type |-> arg]]
    [] OTHER -> ref

TemplateFields(template) ==
  LET fs == program.templates[template].fields IN
  {fs[i] : i \in DOMAIN fs} \cup UNION {{program.fields[fs[i]].args[j] : j \in DOMAIN program.fields[fs[i]].args} : i \in DOMAIN fs}

-----------------------------------------------------------------------------
Task(do, on) == [do |-> do, on |-> on]
Tasks(do, ons) == [i \in DOMAIN ons |-> Task(do, ons[i])]

\* What _resolve_named, and _collect_named_type after it, does for a type.
TypeTasks(t) ==
  (IF KindOf(t) = "object" THEN Tasks("visit", InterfacesOf(t)) ELSE <<>>)
  \o Tasks(IF KindOf(t) = "union" THEN "member" ELSE "field", FieldsOf(t))

\* What is left to do once a reference is resolved: a field's own type is visited
\* after those of its arguments, a member's at once if it is an object.
BugOwnTypeOnly(task) == <<Task("enqueue", task.on)>>
Remaining(task) ==
  IF task.do = "member" THEN <<Task("admit", task.on)>>
  ELSE Tasks("field", ArgsOf(task.on)) \o <<Task("enqueue", task.on)>>

Roots == [i \in DOMAIN program.roots |-> Task("visit", Declared(program.roots[i]))]
BuilderInit ==
  /\ program \in Programs
  /\ names = [n \in {t.name : t \in Registered} |-> LastRegistered(OfName(n))]
  /\ made = <<>>
  /\ holds = [f \in {<<>>} \X DOMAIN program.fields |-> program.fields[f[2]].ref]
  /\ stack = Roots
  /\ byName = <<>> /\ typeMap = <<>>
  /\ stage = "walking"

With(f, key, value) == [k \in DOMAIN f \cup {key} |-> IF k = key THEN value ELSE f[k]]

Due(at, dos) == stage = at /\ stack # <<>> /\ Head(stack).do \in dos
Refuse == stage' = "refused" /\ UNCHANGED <<program, names, made, holds, stack, byName, typeMap>>

\* _resolve_named
Visit ==
  LET t == Head(stack).on  n == NameOf(t) IN
  /\ Due("walking", {"visit"})
  /\ IF n \in DOMAIN byName
     THEN IF byName[n] = t THEN stack' = Tail(stack) /\ UNCHANGED <<program, names, made, holds, byName, typeMap, stage>>
          ELSE Refuse
     ELSE /\ byName' = With(byName, n, t)
          /\ stack' = TypeTasks(t) \o Tail(stack)
          /\ UNCHANGED <<program, names, made, holds, typeMap, stage>>

\* _resolve_ref of a field, an argument or a member that names a type.
ResolveSimple ==
  LET f == Head(stack).on  t == Simple(holds[f]) IN
  /\ Due("walking", {"field", "member"}) /\ holds[f].form # "generic"
  /\ IF t = Unknown THEN Refuse
     ELSE /\ holds' = [holds EXCEPT ![f] = [form |-> "ir", type |-> t]]
          /\ stack' = Remaining(Head(stack)) \o Tail(stack)
          /\ UNCHANGED <<program, names, made, byName, typeMap, stage>>

\* The type _synthesize_generic makes: an object has the fields of its template's
\* interfaces, and its own, which may take their place.
Concrete(n, template, arg) ==
  LET declared == program.templates[template]
      interfaces == IF declared.kind = "object"
                    THEN [i \in DOMAIN declared.interfaces |-> Final(Declared(declared.interfaces[i]))] ELSE <<>>
      own == [i \in DOMAIN declared.fields |-> <<<<n>>, declared.fields[i]>>]
  IN [template |-> template, of |-> arg, interfaces |-> interfaces, fields |-> Update(Inherited(interfaces), own)]

\* _synthesize_generic: a type of the name is reused, one that was declared too.
ResolveGeneric ==
  LET f == Head(stack).on  ref == holds[f]
      arg == Simple(ref.of)  n == GenericName(ref.template, arg)
      own == {<<n>>} \X TemplateFields(ref.template)
      kept == [holds EXCEPT ![f] = [form |-> "ir", type |-> IF n \in DOMAIN names THEN names[n] ELSE Made(n)]]
  IN /\ Due("walking", {"field", "member"}) /\ ref.form = "generic"
     /\ IF arg = Unknown THEN Refuse
        ELSE /\ IF n \in DOMAIN names
                THEN holds' = kept /\ UNCHANGED <<names, made>>
                ELSE /\ made' = With(made, n, Concrete(n, ref.template, arg))
                     /\ names' = With(names, n, Made(n))
                     /\ holds' = [s \in DOMAIN holds \cup own |->
                                    IF s \in own THEN Substituted(program.fields[s[2]].ref, arg) ELSE kept[s]]
             /\ stack' = Remaining(Head(stack)) \o Tail(stack)
             /\ UNCHANGED <<program, byName, typeMap, stage>>

\* _enqueue: what is no GraphQL type is passed over.  A member must be an object.
Enqueue ==
  LET t == holds[Head(stack).on].type IN
  /\ Due("walking", {"enqueue", "admit"}) /\ (Head(stack).do = "admit" => KindOf(t) = "object")
  /\ stack' = IF IsNamed(t) THEN <<Task("visit", t)>> \o Tail(stack) ELSE Tail(stack)
  /\ UNCHANGED <<program, names, made, holds, byName, typeMap, stage>>
RefuseMember ==
  Due("walking", {"admit"}) /\ KindOf(holds[Head(stack).on].type) # "object" /\ Refuse

\* _validate_interfaces, for the objects visited; then the Schema is created.
Implements(t) ==
  \A i \in DOMAIN InterfacesOf(t) : \A j \in DOMAIN FieldsOf(InterfacesOf(t)[i]) :
    \E k \in DOMAIN FieldsOf(t) : FieldName(FieldsOf(t)[k]) = FieldName(FieldsOf(InterfacesOf(t)[i])[j])
Assemble ==
  /\ stage = "walking" /\ stack = <<>>
  /\ IF \E n \in DOMAIN byName : KindOf(byName[n]) = "object" /\ ~Implements(byName[n])
     THEN Refuse
     ELSE /\ stage' = "collecting"
          /\ stack' = Roots
          /\ UNCHANGED <<program, names, made, holds, byName, typeMap>>

\* _collect_named_type.  What is no type object, such as a reference left unresolved,
\* is passed over.
CollectType ==
  LET t == Head(stack).on  n == NameOf(t) IN
  /\ Due("collecting", {"visit"})
  /\ IF ~IsNamed(t) \/ (n \in DOMAIN typeMap /\ typeMap[n] = t)
     THEN stack' = Tail(stack) /\ UNCHANGED <<typeMap, stage>>
     ELSE IF n \in DOMAIN typeMap
     THEN stage' = "conflict" /\ UNCHANGED <<stack, typeMap>>
     ELSE /\ typeMap' = With(typeMap, n, t)
          /\ stack' = TypeTasks(t) \o Tail(stack)
          /\ UNCHANGED stage
  /\ UNCHANGED <<program, names, made, holds, byName>>

\* _collect_field, _collect_argument, _collect_input_field and the members of a union.
Held(f) == IF holds[f].form = "ir" THEN holds[f].type ELSE Unknown
CollectField ==
  LET f == Head(stack).on IN
  /\ Due("collecting", {"field", "member"})
  /\ stack' = <<Task("visit", Held(f))>> \o Tasks("field", ArgsOf(f)) \o Tail(stack)
  /\ UNCHANGED <<program, names, made, holds, byName, typeMap, stage>>

Finish ==
  /\ stage = "collecting" /\ stack = <<>>
  /\ stage' = "built"
  /\ UNCHANGED <<program, names, made, holds, stack, byName, typeMap>>

BuilderNext ==
  \/ Visit \/ ResolveSimple \/ ResolveGeneric \/ Enqueue \/ RefuseMember
  \/ Assemble \/ CollectType \/ CollectField \/ Finish

BuilderSpec == BuilderInit /\ [][BuilderNext]_builderVars

-----------------------------------------------------------------------------
Built == {typeMap[n] : n \in DOMAIN typeMap}
ReferencesOf(t) ==
  UNION {{f} \cup {ArgsOf(f)[j] : j \in DOMAIN ArgsOf(f)} : f \in {FieldsOf(t)[i] : i \in DOMAIN FieldsOf(t)}}

\* A schema is whole: the second walk finds the types of the first and no two of a
\* name, every reference that any of its types holds is to a type of the schema under
\* its own name, however often and from wherever it was reached, and an object has
\* the fields of its interfaces.  A class that is no GraphQL type passes the walk.
SchemaIsWhole ==
  /\ stage # "conflict"
  /\ stage = "built" =>
       /\ typeMap = byName
       /\ \A n \in DOMAIN typeMap : NameOf(typeMap[n]) = n
       /\ \A t \in Built : \A f \in ReferencesOf(t) :
            holds[f].form = "ir" /\ (IsNamed(holds[f].type) => holds[f].type \in Built)
       /\ \A t \in Built : KindOf(t) = "object" =>
            /\ \A i \in DOMAIN InterfacesOf(t) : InterfacesOf(t)[i] \in Built
            /\ Implements(t)

\* What each reference was written as.
Written(f) ==
  IF f[1] = <<>> THEN program.fields[f[2]].ref ELSE Substituted(program.fields[f[2]].ref, made[f[1][1]].of)

\* The type a reference was written for, by the tables as they were before the walk.
Replacement(t) == IF IsNamed(t) /\ OfName(NameOf(t)) # {} THEN LastRegistered(OfName(NameOf(t))) ELSE t
NamedBy(class) ==
  IF OfClass(class) # {} THEN LastRegistered(OfClass(class))
  ELSE IF OfName(class) # {} THEN LastRegistered(OfName(class))
  ELSE IF class \in program.plain THEN Plain(class)
  ELSE Unknown
Meant(ref) == Replacement(IF ref.form = "ir" THEN ref.type ELSE NamedBy(ref.class))
PromisedName(ref) == NameOf(Meant(ref.of)) \o program.templates[ref.template].base

\* The names of the declared types, and of the classes that are referred to.
Taken ==
  LET refs == {program.fields[f].ref : f \in DOMAIN program.fields}
      simple == refs \cup {r.of : r \in {s \in refs : s.form = "generic"}}
  IN {program.types[id].name : id \in DOMAIN program.types} \cup program.plain
     \cup {r.class : r \in {s \in simple : s.form = "class"}}

\* A generic reference shares its name neither with a type or a class nor with a generic
\* reference to something else.
NamesAreDistinct ==
  LET generic == {Written(f) : f \in {g \in UNION {ReferencesOf(t) : t \in Built} : Written(g).form = "generic"}} IN
  /\ \A r \in generic : PromisedName(r) \notin Taken
  /\ \A r, s \in generic : PromisedName(r) = PromisedName(s) => r.template = s.template /\ Meant(r.of) = Meant(s.of)

\* "the resulting field types point to the correct types": where names are distinct, a
\* reference became the type it was written for, the one registered last if several have
\* its name, through whichever cycle and however many fields share it, and whatever types
\* were made in the meantime; Template[A] became a type made from that template for A.
ReferencesKeepTheirMeaning ==
  stage = "built" /\ NamesAreDistinct =>
    \A t \in Built : \A f \in ReferencesOf(t) :
      LET written == Written(f)  got == holds[f].type IN
      IF written.form = "generic"
      THEN got[1] = "made" /\ made[got[2]].template = written.template /\ made[got[2]].of = Meant(written.of)
      ELSE got = Meant(written)

\* openspec/specs/schema-building/spec.md: "two distinct definitions register the same
\* GraphQL type name" - "build_schema raises an error reporting the duplicated name".
CollisionsAreRefused ==
  stage = "built" =>
    \A i, j \in DOMAIN program.registered :
      program.types[program.registered[i]].name = program.types[program.registered[j]].name => i = j
=============================================================================
