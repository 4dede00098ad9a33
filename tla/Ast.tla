-------------------------------- MODULE Ast --------------------------------
(***************************************************************************)
(* fastql/language/ast.py: the nodes of a document as records.             *)
(*                                                                         *)
(* A selection has a kind:                                                 *)
(*   "field"   [alias, name, args, directives, sub]                        *)
(*   "inline"  [on, directives, sub]                                       *)
(*   "spread"  [name, directives]                                          *)
(* with sequences of [name, value] as args, of [name, args] as directives, *)
(* and of selections as sub (<<>> for a leaf); "" is no alias and no type  *)
(* condition.                                                              *)
(*                                                                         *)
(* A value has a kind: [kind, of] for a leaf, [kind, items] for a list,    *)
(* [kind, fields] with a function from names for an object.  JSON and      *)
(* literals use the same records; only literals have the kinds "enum" and  *)
(* "var".                                                                  *)
(*                                                                         *)
(* A definition has a kind:                                                *)
(*   "operation"  [name, type, vars, directives, sub]                      *)
(*   "fragment"   [name, on, directives, sub]                              *)
(* with "" for no name and the sequence of [name, type, default,           *)
(* directives] as vars.                                                    *)
(*                                                                         *)
(* A type reference is [name, wraps], wraps being the sequence of "list"   *)
(* and "nonnull" around the named type, the outermost first.               *)
(***************************************************************************)
EXTENDS Naturals, SequencesExt

Wraps == {"list", "nonnull"}
Named(n) == [name |-> n, wraps |-> <<>>]
ListOf(t) == [name |-> t.name, wraps |-> <<"list">> \o t.wraps]
NonNullOf(t) == [name |-> t.name, wraps |-> <<"nonnull">> \o t.wraps]
Is(t, wrap) == t.wraps # <<>> /\ Head(t.wraps) = wrap
Inner(t) == [name |-> t.name, wraps |-> Tail(t.wraps)]

Null == [kind |-> "null"]
Absent == [kind |-> "absent"]    \* no value and no default

IsSequence(s) == Len(s) \in Nat /\ DOMAIN s = 1..Len(s)

\* Of a sequence of what has names: those of the name, and the last of them.
NamedIn(s, name) == SelectSeq(s, LAMBDA x : x.name = name)
HasNamed(s, name) == \E i \in DOMAIN s : s[i].name = name
LastNamed(s, name) ==
  s[CHOOSE i \in DOMAIN s : s[i].name = name /\ \A j \in DOMAIN s : s[j].name = name => j <= i]

ResponseKey(f) == IF f.alias # "" THEN f.alias ELSE f.name
=============================================================================
