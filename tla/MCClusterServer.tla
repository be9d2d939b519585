-------------------------- MODULE MCClusterServer --------------------------
(***************************************************************************)
(* The data model engine on the two generated data models.                 *)
(***************************************************************************)
EXTENDS ClusterServer

LitIcd == INSTANCE LitIcdTables
Legacy == INSTANCE LegacyTables

GeneratedConfigs == {"lit_icd", "legacy"}
GeneratedTables == [lit_icd |-> LitIcd!Tables, legacy |-> Legacy!Tables]
=============================================================================
