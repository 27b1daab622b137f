--------------------------- MODULE SwrsPipelineMC ---------------------------
(***************************************************************************)
(* Instances of SwrsPipeline for TLC: with all tasks of the load DAG, or,  *)
(* where grants do not matter, with the two loads and one user's grants.   *)
(***************************************************************************)
EXTENDS SwrsPipeline, TLC

MCPart == {"etl", "etl__1", "readonly"}
=============================================================================
