SPECIFICATION FairSpec
CONSTANTS
  Object = {"may", "june"}
  Entry = {"a1", "b1", "t1"}
  Hash <- MCHash
  NoHash = NoHash
  ZipJob = {z1}
  XmlJob = {x1}
  AttachmentJob = {y1}
  ObjectHash <- MCObjectHash
  Production <- MCProduction
  NotAnArchive <- MCNotAnArchive
  Members <- MCMembers
  EntryHash <- MCEntryHash
  Quarantined = {}
  Encrypted = {}
  Malformed = {}
  MaxRows = 2
  MaxFaults = 1
PROPERTY ArchivesAreExtracted
CHECK_DEADLOCK FALSE
