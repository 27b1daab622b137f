SPECIFICATION Spec
CONSTANTS
  Extract <- MCExtract
  FuelMapping = {"Coal", "Flared Natural Gas CO2", "Vented Natural Gas CH4"}
  TaxedEmissionType = {"Venting"}
  Attachment <- MCAttachment
INVARIANT LoadSucceeds
INVARIANT NoRowIsLostOrRepeated
INVARIANT RefersToWhatEnclosesIt
INVARIANT StaysInReport
CHECK_DEADLOCK FALSE
