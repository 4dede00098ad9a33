--------------------------- MODULE FieldCollection ---------------------------
(***************************************************************************)
(* fastql/execution/collect_fields.py: the fields a selection set stands   *)
(* for, on an object of a given type and for given variables.              *)
(*                                                                         *)
(* A document is [operations, fragments]: its definitions of either kind,  *)
(* by their place and by their name.                                       *)
(*                                                                         *)
(* _collect goes through a selection set in document order and into the    *)
(* fragments on its way.  It is told one selection at a time: a collection *)
(* has the selections in front of it, the selection sets to begin after    *)
(* them, and what it found.                                                *)
(***************************************************************************)
EXTENDS Coercion

\* The last fragment of a name is the fragment of the name.
DocumentOf(definitions) ==
  LET ofKind(kind) ==
        [i \in {j \in DOMAIN definitions : definitions[j].kind = kind} |-> definitions[i]]
      names == {f.name : f \in PartsOf(ofKind("fragment"))}
  IN [operations |-> ofKind("operation"),
      fragments |-> [n \in names |-> LastNamed(ofKind("fragment"), n)]]

\* _bool_value: "none" for what is neither a Boolean nor a variable that has one.
BoolValue(v, vars) ==
  IF v.kind = "bool" THEN v.of
  ELSE IF v.kind = "var" /\ v.of \in DOMAIN vars /\ vars[v.of] # Null THEN vars[v.of].of
  ELSE "none"

\* _directive_if: the first argument "if" of the directives of the name.
DirectiveIf(ds, name, vars) ==
  LET named == NamedIn(ds, name)
      ifs == FlattenSeq([i \in DOMAIN named |-> NamedIn(named[i].args, "if")])
  IN IF ifs = <<>> THEN "none" ELSE BoolValue(ifs[1].value, vars)

ShouldInclude(ds, vars) ==
  DirectiveIf(ds, "skip", vars) # "true" /\ DirectiveIf(ds, "include", vars) # "false"

\* _defer_arguments: the first @defer decides, by its last argument "if".
Deferred(ds, vars) ==
  LET defers == NamedIn(ds, "defer")
      ifs == NamedIn(defers[1].args, "if")
  IN defers # <<>> /\ (ifs = <<>> \/ BoolValue(ifs[Len(ifs)].value, vars) = "true")

\* _condition_matches with _fragment_applies
FragmentApplies(on, type) ==
  \/ on = "" \/ on = type
  \/ /\ on \in DOMAIN Types
     /\ \/ Types[on].kind = "interface" /\ on \in Types[type].interfaces
        \/ Types[on].kind = "union" /\ type \in Types[on].members

\* setdefault(key, []).append(x)
Grouped(groups, key, x) ==
  [k \in DOMAIN groups \cup {key} |->
     IF k = key THEN Append(IF k \in DOMAIN groups THEN groups[k] ELSE <<>>, x) ELSE groups[k]]

\* collect_fields for one selection set after the other; the groups add up as those
\* of a group's selection sets do in _collect_subfields of the executor.
StartCollection(sets) ==
  [work |-> <<>>, sets |-> sets, groups |-> <<>>, deferred |-> <<>>, visited |-> {}]
NextSet(c) == [c EXCEPT !.work = Head(c.sets), !.sets = Tail(c.sets), !.visited = {}]

\* _collect for the selection in front.  A deferred fragment is recorded before it
\* counts as visited, and a fragment that was visited is not entered again by a
\* spread.
Enter(c, s, sub) ==
  [c EXCEPT !.work = sub \o @, !.visited = IF s.kind = "spread" THEN @ \cup {s.name} ELSE @]
CollectSelection(doc, type, vars, deferring, before) ==
  LET s == Head(before.work)
      c == [before EXCEPT !.work = Tail(@)]
      body == IF s.kind = "spread" THEN doc.fragments[s.name] ELSE s
  IN IF ~ShouldInclude(s.directives, vars) THEN c
     ELSE IF s.kind = "field" THEN [c EXCEPT !.groups = Grouped(@, ResponseKey(s), s)]
     ELSE IF s.kind = "spread" /\ s.name \notin DOMAIN doc.fragments THEN c
     ELSE IF ~FragmentApplies(body.on, type) THEN c
     ELSE IF deferring /\ Deferred(s.directives, vars) THEN [c EXCEPT !.deferred = Append(@, body.sub)]
     ELSE IF s.kind = "spread" /\ s.name \in c.visited THEN c
     ELSE Enter(c, s, body.sub)
=============================================================================
