SPECIFICATION Spec
CONSTANTS
  Object = {"may"}
  Entry = {"a1", "a2"}
  Hash <- MCHash
  NoHash = NoHash
  ZipJob = {z1}
  XmlJob = {x1}
  AttachmentJob = {}
  ObjectHash <- MCObjectHash
  Production <- MCProduction
  NotAnArchive <- MCNotAnArchive
  Members <- MCMembers
  EntryHash <- MCEntryHash
  Quarantined = {}
  Encrypted = {}
  Malformed = {}
  MaxRows = 1
  MaxFaults = 1
INVARIANT ExtractedMeansInserted
CHECK_DEADLOCK FALSE
