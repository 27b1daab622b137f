----------------------------- MODULE WebClientMC -----------------------------
EXTENDS WebClient

MCElsewhere == {[fuel |-> "coal", start |-> 2, end |-> 2]}
MCInitially == {[t \in FuelType |-> IF t = "wood" THEN row ELSE "coal"]
                  : row \in {NoRow, None}}
MCOpenedWith ==
  [First : {NoId, 11}, Second : {NoId, 12}, collapsed : {FALSE}, reversed : BOOLEAN]

-----------------------------------------------------------------------------
(* The properties of the parts, under the names they have there.  Those of *)
(* the middleware are DebounceMutation's own, TimersAreOwn and             *)
(* ImplementsLatestWins.                                                   *)
TypeOK ==
  /\ part = "charges" => Charge!TypeOK
  /\ part = "mappings" => Map!TypeOK
  /\ part = "diff" => Diff!TypeOK
  /\ part = "browser" => Browser!TypeOK
  /\ part = "mutations" => Optimistic!TypeOK

(* A period overlaps one that it was compared with only if it is around it *)
(* (CreateEditFuelChargeRow).                                              *)
OverlapHasACause == part = "charges" => Charge!OverlapHasACause

(* The page of the fuel charges, at rest, shows what its user saved        *)
(* (CarbonTaxActFuelType, createFuelCharge, updateFuelCharge).             *)
SettledChargesAreRight == part = "charges" => Charge!SettledChargesAreRight

(* The page of the fuel mappings, at rest, shows the mappings of the       *)
(* database (UnmappedFuelTypeRow, MappedFuelTypeTable).                    *)
SettledMappingsAreRight == part = "mappings" => Map!SettledMappingsAreRight

(* The list of fuels never stops to answer (FuelSelectionComponent).       *)
SelectionIsNeverStuck == part = "mappings" => Map!SelectionIsNeverStuck

(* The page that compares two reports, at rest, is in agreement with what  *)
(* its selectors and controls show (ReportSelector, DiffControls).         *)
SettledPageAgrees == part = "diff" => Diff!SettledPageAgrees

(* The files below the name of an archive are its own (FileDetails).       *)
ContentsAreOfTheSelected == part = "browser" => Browser!ContentsAreOfTheSelected

(* A client that waits for nothing shows what is in the database           *)
(* (BaseMutation).                                                         *)
SettledShowsTheDatabase == part = "mutations" => Optimistic!SettledShowsTheDatabase
=============================================================================
