SPECIFICATION Spec
CONSTANTS
  Object = {"may", "parts", "notes", "junk"}
  Entry = {"a1", "a2", "b1", "b2"}
  Hash <- MCHash
  NoHash = NoHash
  ZipJob = {z1}
  XmlJob = {x1, x2}
  AttachmentJob = {}
  ObjectHash <- MCObjectHash
  Production <- MCProduction
  NotAnArchive <- MCNotAnArchive
  Members <- MCMembers
  EntryHash <- MCEntryHash
  Quarantined = {"h3"}
  Encrypted = {}
  Malformed = {"a2"}
  MaxRows = 2
  MaxFaults = 2
INVARIANT TypeOK
INVARIANT FlagAccounted
INVARIANT Provenance
INVARIANT ErrorCountIsLocal
PROPERTY KeptForGood
SYMMETRY Symmetry
CHECK_DEADLOCK FALSE
