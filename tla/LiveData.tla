------------------------------ MODULE LiveData ------------------------------
(***************************************************************************)
(* What the load function promises to the people who query the database:   *)
(* the live tables are replaced all at once, by tables computed from the   *)
(* extracted files and from the fuel mappings as they are at that moment,  *)
(* and a new fuel mapping shows at once in the fuels it maps.  There are   *)
(* no locks, no transactions and no intermediate tables here.              *)
(***************************************************************************)
EXTENDS SwrsData

VARIABLES
  report,   \* swrs.report: the final reports
  fuel,     \* swrs.fuel
  history,  \* swrs_history.report: every version of the reports
  mapping,  \* ggircs_parameters.fuel_mapping: the mapped fuel types
  detail    \* those whose fuel_carbon_tax_detail_id is not null

live == <<report, fuel, history, mapping, detail>>

Init ==
  /\ report = {}
  /\ fuel = {}
  /\ history = {}
  /\ mapping \in SUBSET FuelType
  /\ detail = mapping

Publish(reportView, fuelView) ==
  /\ report' = FinalReport(reportView)
  /\ fuel' = LoadedFuel(fuelView, reportView, mapping)
  /\ history' = reportView
  /\ UNCHANGED <<mapping, detail>>

MapFuelType(t) ==
  /\ t \notin mapping
  /\ mapping' = mapping \cup {t}
  /\ detail' = detail \cup {t}
  /\ fuel' = Linked(fuel, t)
  /\ UNCHANGED <<report, history>>

SetDetail(t) ==
  /\ t \in mapping
  /\ detail' \in {detail \cup {t}, detail \ {t}}
  /\ UNCHANGED <<report, fuel, history, mapping>>

Next ==
  \/ \E reportView, fuelView \in SUBSET File : Publish(reportView, fuelView)
  \/ \E t \in FuelType : MapFuelType(t) \/ SetDetail(t)

Spec == Init /\ [][Next]_live
=============================================================================
