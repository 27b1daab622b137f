SPECIFICATION FairSpec
CONSTANTS
  Run = {r1}
  Url = {"a", "b", "c"}
  Position <- MCPosition
  Name = {"a", "b", "c"}
  BaseName <- MCOwnName
  MaxRetries = 2
  MaxVersion = 1
  MaxFaults = 4
INVARIANT RunsAccount
INVARIANT OutputIsTrue
PROPERTY WrittenOnce
PROPERTY EachUrlIsUploaded
PROPERTY RunsEnd
CHECK_DEADLOCK FALSE
