SPECIFICATION Spec
CONSTANTS
  Part = {"charges", "mappings", "diff", "browser", "mutations"}
  Item = {"coal", "gas"}
  None = None
  MaxVisits = 1
  MaxSaves = 2
  Elsewhere <- MCElsewhere
  MaxDate = 3
  MaxCharge = 2
  MaxEntries = 2
  MaxForeign = 1
  MaxFaults = 1
  FuelType = {"wood", "kerosene"}
  Initially <- MCInitially
  NoRow = NoRow
  MaxDisturbances = 1
  ReportId = {11, 12}
  WrongId = 13
  NoId = 0
  OpenedWith <- MCOpenedWith
  MaxPushes = 3
  Archive = {"a", "b", "c"}
  NoArchive = NoArchive
  MaxClicks = 3
  Key = {"x", "y"}
  MaxRequests = 4
INVARIANTS
  TypeOK
  OverlapHasACause
  SettledChargesAreRight
  SettledMappingsAreRight
  SettledPageAgrees
  ContentsAreOfTheSelected
  TimersAreOwn
  SettledShowsTheDatabase
PROPERTIES
  ImplementsLatestWins
  SelectionIsNeverStuck
CHECK_DEADLOCK FALSE
