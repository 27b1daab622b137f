SPECIFICATION Spec
CONSTANTS
  File = {"v1"}
  FacilityYear = {"A", "B"}
  FuelType = {"coal", "gas"}
  KeyOf <- MCKeyOf
  Rank <- MCRank
  Reportable <- MCReportable
  FuelOf <- MCFuelOf
  Load = {l1}
  Editor = {e1}
  Reader = {r1}
  Direct = {}
  Indirect = {}
  Stacked = {}
  MaxGeneration = 2
  MaxFaults = 1
INVARIANT TypeOK
INVARIANT FuelsAreLinked
INVARIANT UnmappedCanBeMapped
INVARIANT RequestSeesOneLoad
PROPERTY ImplementsLiveData
CHECK_DEADLOCK FALSE
