---------------------------- MODULE MCStandalone ----------------------------
(***************************************************************************)
(* The instance TLC checks.                                                *)
(***************************************************************************)
EXTENDS Standalone, MCObjects, MCSchemaBuilder, MCTexts
=============================================================================
