SPECIFICATION FairSpec
CONSTANTS
  File = {"v1"}
  FacilityYear = {"A", "B"}
  FuelType = {}
  KeyOf <- MCKeyOf
  Rank <- MCRank
  Reportable <- MCReportable
  FuelOf <- MCFuelOf
  Load = {l1, l2}
  Editor = {}
  Reader = {r1}
  Direct = {}
  Indirect = {}
  Stacked = {}
  MaxGeneration = 1
  MaxFaults = 0
PROPERTY LoadsEnd
PROPERTY RequestsEnd
CHECK_DEADLOCK FALSE
