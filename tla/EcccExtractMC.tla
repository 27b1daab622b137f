--------------------------- MODULE EcccExtractMC ---------------------------
(***************************************************************************)
(* Instances of EcccExtract for TLC.  "may" and "june" are two monthly     *)
(* archives: june resubmits the report a1 of may unchanged (b1, same md5)  *)
(* and holds a second one, b2.  "parts" is june as a composite object, for *)
(* which GCS has no md5, "junk" is not a zip file, and "notes" is not a    *)
(* production archive.                                                     *)
(***************************************************************************)
EXTENDS EcccExtract, TLC

MCProduction == Object \ {"notes"}
MCNotAnArchive == Object \cap {"junk"}

MCObjectHash ==
  [o \in Object |->
     CASE o = "may" -> "hm" [] o = "june" -> "hj"
       [] o = "junk" -> "hx" [] o = "notes" -> "hn" [] o = "parts" -> NoHash]

MCEntryHash ==
  [e \in Entry |->
     CASE e \in {"a1", "b1"} -> "h1" [] e = "a2" -> "h2" [] e = "b2" -> "h3"
       [] OTHER -> "h4"]

MCHash == {"hm", "hj", "hx", "hn", "h1", "h2", "h3", "h4"}

MCXml(o) ==
  CASE o = "may" -> {"a1", "a2"} [] o \in {"june", "parts"} -> {"b1", "b2"}
    [] OTHER -> {}

MCAttachments(o) ==
  CASE o = "may" -> {"t1"} [] o \in {"june", "parts"} -> {"t1", "t2"}
    [] OTHER -> {}

MCMembers ==
  [k \in Kind |-> [o \in Object |->
     Entry \cap IF k = "xml" THEN MCXml(o) ELSE MCAttachments(o)]]

Symmetry == Permutations(XmlJob) \cup Permutations(AttachmentJob)
=============================================================================
