------------------------------- MODULE Objects -------------------------------
(***************************************************************************)
(* The helpers a schema's own objects use: connections (Relay), entities   *)
(* of a subgraph (Federation) and uploaded files (Uploads).  They share no *)
(* state, so a behaviour is a behaviour of one of them.                    *)
(***************************************************************************)
EXTENDS Relay, Federation, Uploads

VARIABLE part   \* whose behaviour this is: "paging", "entities" or "forms"

objectVars == <<pagingVars, entityVars, uploadVars, part>>

\* A client that does not page has one state.
NoPaging == data = <<>> /\ direction = "forward" /\ origin = NoCursor /\ limit = NoCursor

ObjectsInit ==
  /\ part \in {"paging", "entities", "forms"}
  /\ part # "paging" => NoPaging
  /\ part # "entities" => representations = <<>>
  /\ part # "forms" => form = CHOOSE f \in Forms : TRUE
  /\ PagingInit /\ FederationInit /\ UploadsInit

ObjectsNext ==
  \/ part = "paging" /\ PagingNext /\ UNCHANGED <<entityVars, uploadVars, part>>
  \/ part = "entities" /\ FederationNext /\ UNCHANGED <<pagingVars, uploadVars, part>>
  \/ part = "forms" /\ UploadsNext /\ UNCHANGED <<pagingVars, entityVars, part>>

ObjectsSpec == ObjectsInit /\ [][ObjectsNext]_objectVars
=============================================================================
