----------------------------- MODULE SwrsBrowser -----------------------------
(***************************************************************************)
(* The page that lists the archives in the bucket and the files of the one *)
(* that is selected (FileList and FileDetails).  Each selection fetches    *)
(* the files of the archive; nothing cancels the fetch of the archive that *)
(* was selected before, and answers come in any order.                     *)
(***************************************************************************)
EXTENDS Naturals, FiniteSets

CONSTANTS
  Archive,    \* the archives in the bucket
  NoArchive,  \* none is selected
  MaxClicks   \* bound: selections

BrowserAssumption == NoArchive \notin Archive /\ MaxClicks \in Nat

VARIABLES
  files,         \* the archives in the list
  selectedFile,  \* the one whose details are shown
  fileContents,  \* the archive whose files are listed below, in a set;
                 \* {} is null, and the spinner
  fetching,      \* the fetches of FileDetails that have not ended
  clicks,        \* history: selections so far; they number the fetches
  outrun         \* history: an answer came after a later selection

vars == <<files, selectedFile, fileContents, fetching, clicks, outrun>>

TypeOK ==
  /\ files \subseteq Archive
  /\ selectedFile \in Archive \cup {NoArchive}
  /\ fileContents \subseteq Archive
  /\ fetching \subseteq [file : Archive, no : 1 .. MaxClicks]
  /\ clicks \in 0 .. MaxClicks
  /\ outrun \in BOOLEAN

Init ==
  /\ files = {}
  /\ selectedFile = NoArchive
  /\ fileContents = {}
  /\ fetching = {}
  /\ clicks = 0
  /\ outrun = FALSE

(* The answer to the fetch of the list.                                    *)
setFiles ==
  /\ files = {}
  /\ files' = Archive
  /\ UNCHANGED <<selectedFile, fileContents, fetching, clicks, outrun>>

\* Mutant of setSelectedFile: the contents are not cleared.
LeavesContents(f) ==
  /\ f \in files \ {selectedFile}
  /\ clicks < MaxClicks
  /\ selectedFile' = f
  /\ clicks' = clicks + 1
  /\ fetching' = fetching \cup {[file |-> f, no |-> clicks + 1]}
  /\ UNCHANGED <<files, fileContents, outrun>>

(* A click on the archive that is selected changes nothing; one on another *)
(* clears the contents and fetches.                                        *)
setSelectedFile(f) ==
  /\ f \in files
  /\ f # selectedFile
  /\ clicks < MaxClicks
  /\ selectedFile' = f
  /\ fileContents' = {}
  /\ clicks' = clicks + 1
  /\ fetching' = fetching \cup {[file |-> f, no |-> clicks + 1]}
  /\ UNCHANGED <<files, outrun>>

setFileContents(x) ==
  /\ x \in fetching
  /\ fetching' = fetching \ {x}
  /\ fileContents' = {x.file}
  /\ outrun' = (outrun \/ x.no < clicks)
  /\ UNCHANGED <<files, selectedFile, clicks>>

(* A fetch that fails leaves what is there: the spinner, for good.         *)
FetchFails(x) ==
  /\ x \in fetching
  /\ fetching' = fetching \ {x}
  /\ UNCHANGED <<files, selectedFile, fileContents, clicks, outrun>>

Next ==
  \/ setFiles
  \/ \E f \in Archive : setSelectedFile(f)
  \/ \E x \in fetching : setFileContents(x) \/ FetchFails(x)

Spec == Init /\ [][Next]_vars

(* The files under the name of an archive are files of that archive, and   *)
(* so the links to download them name an entry it has: unless an answer    *)
(* came after another archive was selected.                                *)
ContentsAreOfTheSelected ==
  ~ outrun => \A f \in fileContents : f = selectedFile
=============================================================================
