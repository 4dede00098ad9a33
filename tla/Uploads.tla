------------------------------- MODULE Uploads -------------------------------
(***************************************************************************)
(* fastql/integrations/multipart.py: how the files of a multipart request  *)
(* take the places the map names in the operations.                        *)
(*                                                                         *)
(* The JSON of operations is a function from paths, which are sequences of *)
(* names and indexes, to "object", "list", "null", "value" or a file.  A   *)
(* path of the map is a sequence of segments; Key reads a segment at a     *)
(* container, a number under several spellings.                            *)
(***************************************************************************)
EXTENDS Naturals, Sequences

CONSTANTS
  Forms,     \* the requests: [parts, operations, entries]
  Index,     \* Index[s]: the list index int(s) of a segment s, or NoIndex
  Files      \* names of file fields

\* An uploaded file is neither a JSON value nor null.
ASSUME UploadsAssumption ==
  /\ Files \cap {"object", "list", "null", "value"} = {}
  /\ \A f \in Forms : /\ f.operations \in [DOMAIN f.operations -> STRING]
                     /\ f.entries \in Seq([file : STRING, path : Seq(STRING)])

VARIABLES
  form,      \* the request
  operations,\* the operations so far, or Rejected
  pending    \* the entries [file, path] still to be placed

uploadVars == <<form, operations, pending>>

NoIndex == "none"
Rejected == [p \in {} |-> "rejected"]

\* The loop over the parts: every part has a name of its own.  The fields
\* "operations" and "map" are JSON: an object or an array, and an object.
WellFormed(f) ==
  /\ \A i, j \in DOMAIN f.parts : f.parts[i] = f.parts[j] => i = j
  /\ \E i \in DOMAIN f.parts : f.parts[i] = "operations"
  /\ \E i \in DOMAIN f.parts : f.parts[i] = "map"
  /\ <<>> \in DOMAIN f.operations /\ f.operations[<<>>] \in {"object", "list"}

\* The key a segment stands for at a container of the operations.
Key(ops, at, segment) == IF ops[at] = "list" THEN Index[segment] ELSE segment
Walkable(ops, at, segment) ==
  /\ at \in DOMAIN ops /\ ops[at] \in {"object", "list"}
  /\ Append(at, Key(ops, at, segment)) \in DOMAIN ops

\* _path_value, segment after segment; <<"nowhere">> once a segment leads nowhere.
Nowhere == <<"nowhere">>
Place(ops, path) ==
  LET at[n \in 0..Len(path)] ==
        IF n = 0 THEN <<>>
        ELSE IF at[n - 1] # Nowhere /\ Walkable(ops, at[n - 1], path[n])
        THEN Append(at[n - 1], Key(ops, at[n - 1], path[n]))
        ELSE Nowhere
  IN at[Len(path)]

\* _replace_placeholder
BugOverwrites(ops, path) == Place(ops, path) # Nowhere
IsPlaceholder(ops, path) == Place(ops, path) # Nowhere /\ ops[Place(ops, path)] = "null"

UploadsInit ==
  /\ form \in Forms
  /\ operations = form.operations
  /\ pending = form.entries

ReadParts ==
  /\ operations = form.operations /\ ~WellFormed(form)
  /\ operations' = Rejected
  /\ UNCHANGED <<form, pending>>

\* One path of the map; a file that was not sent, an entry without paths or a path
\* that leads to no null rejects the request.
PlaceFile ==
  LET entry == Head(pending) IN
  /\ operations # Rejected /\ pending # <<>> /\ WellFormed(form)
  /\ pending' = Tail(pending)
  /\ operations' =
       IF entry.file \in Files /\ (\E i \in DOMAIN form.parts : form.parts[i] = entry.file)
          /\ entry.path # <<>> /\ IsPlaceholder(operations, entry.path)
       THEN [operations EXCEPT ![Place(operations, entry.path)] = entry.file]
       ELSE Rejected
  /\ UNCHANGED form

UploadsNext == ReadParts \/ PlaceFile

-----------------------------------------------------------------------------
\* An accepted request has every file of the map in the place its path names, under
\* whichever spelling of an index, and each place had a null and got one file only;
\* nothing else of the operations has changed.
FilesTakePlaceholders ==
  operations # Rejected /\ pending = <<>> /\ WellFormed(form) =>
    /\ DOMAIN operations = DOMAIN form.operations
    /\ \A i \in DOMAIN form.entries :
         LET place == Place(form.operations, form.entries[i].path) IN
         /\ place # Nowhere /\ form.operations[place] = "null"
         /\ operations[place] = form.entries[i].file
         /\ \A j \in DOMAIN form.entries : Place(form.operations, form.entries[j].path) = place => j = i
    /\ \A p \in DOMAIN operations : operations[p] # form.operations[p] =>
         \E i \in DOMAIN form.entries : Place(form.operations, form.entries[i].path) = p
=============================================================================
