------------------------------ MODULE SwrsData ------------------------------
(***************************************************************************)
(* The data the load function moves, reduced to what its tables have to    *)
(* agree on.  A file is a row of swrs_extract.eccc_xml_file: one version   *)
(* of the report of one facility for one year, with the fuels it lists.    *)
(***************************************************************************)
EXTENDS Naturals

CONSTANTS
  File,          \* rows of eccc_xml_file
  FacilityYear,  \* swrs_facility_id and reporting_period_duration
  FuelType,      \* the fuel types found in reports
  KeyOf,         \* the facility and year of a file
  Rank,          \* its swrs_report_id, submission_date and imported_at
  Reportable,    \* submitted, not a SaleClosePurchase, not ignored
  FuelOf         \* the fuel types a file lists

(* imported_at is the time of the insert, one transaction per file: the    *)
(* files of a facility and year are strictly ordered.                      *)
ASSUME DataAssumption ==
  /\ KeyOf \in [File -> FacilityYear]
  /\ Rank \in [File -> Nat]
  /\ Reportable \subseteq File
  /\ FuelOf \in [File -> SUBSET FuelType]
  /\ \A f, g \in File : KeyOf[f] = KeyOf[g] /\ Rank[f] = Rank[g] => f = g

FuelRow == [file : File, type : FuelType, mapped : BOOLEAN]

(* The view final_report: the first row of each partition by facility and  *)
(* year, the latest first.                                                 *)
FinalReport(files) ==
  {f \in files \cap Reportable :
     \A g \in files \cap Reportable :
       KeyOf[g] = KeyOf[f] => Rank[g] <= Rank[f]}

(* load_fuel: the fuels of the final reports, each with the id of the      *)
(* mapping of its type, if there is one.                                   *)
LoadedFuel(fuelView, reportView, mapping) ==
  {x \in FuelRow :
     /\ x.file \in fuelView \cap FinalReport(reportView)
     /\ x.type \in FuelOf[x.file]
     /\ x.mapped = (x.type \in mapping)}

(* create_fuel_mapping_cascade's update of swrs.fuel.                      *)
Linked(fuel, t) ==
  {IF x.type = t THEN [x EXCEPT !.mapped = TRUE] ELSE x : x \in fuel}
=============================================================================
