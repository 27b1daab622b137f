----------------------------- MODULE SwrsLoadMC -----------------------------
(***************************************************************************)
(* Instances of SwrsLoad for TLC.  "v1" and "v2" are two versions of the   *)
(* report of one facility for one year, "draft" is a third one that was    *)
(* not submitted, and "other" is the report of another facility.  "coal"   *)
(* may or may not be mapped.                                               *)
(***************************************************************************)
EXTENDS SwrsLoad, TLC

MCKeyOf == [f \in File |-> IF f = "other" THEN "B" ELSE "A"]
MCRank == [f \in File |-> CASE f = "v2" -> 2 [] f = "draft" -> 3 [] OTHER -> 1]
MCReportable == File \ {"draft"}
MCFuelOf == [f \in File |-> FuelType]

Symmetry == Permutations(Load)
=============================================================================
