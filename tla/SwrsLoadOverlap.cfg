SPECIFICATION Spec
CONSTANTS
  File = {"v1", "v2", "draft"}
  FacilityYear = {"A", "B"}
  FuelType = {"coal"}
  KeyOf <- MCKeyOf
  Rank <- MCRank
  Reportable <- MCReportable
  FuelOf <- MCFuelOf
  Load = {l1, l2}
  Editor = {e1}
  Reader = {}
  Direct = {"direct", "stacked"}
  Indirect = {}
  Stacked = {"stacked"}
  MaxGeneration = 1
  MaxFaults = 0
INVARIANT LiveTablesAgree
PROPERTY LoadIsFresh
SYMMETRY Symmetry
CHECK_DEADLOCK FALSE
