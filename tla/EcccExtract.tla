---------------------------- MODULE EcccExtract ----------------------------
(***************************************************************************)
(* The extraction of the SWRS archives (eccc/extract/app).                 *)
(*                                                                         *)
(* Three Python scripts, each the command of a Kubernetes cron job, work   *)
(* on the bucket the archives were uploaded to and on three tables of      *)
(* swrs_extract:                                                           *)
(*   - extract_zips.py registers the objects of the bucket in              *)
(*     eccc_zip_file;                                                      *)
(*   - extract_xml_files.py and extract_attachments.py take the archives   *)
(*     that are not extracted yet, hand every member to a process pool     *)
(*     whose workers insert it into eccc_xml_file or eccc_attachment, and  *)
(*     then set the archive's "extracted" flag and error count.            *)
(*                                                                         *)
(* The two extracting scripts have the same control and differ in the      *)
(* members they take, the table they insert into and its unique key: they  *)
(* are one set of actions here, indexed by a Kind.  Nothing keeps two runs *)
(* of a script from overlapping, so there are several jobs of each kind.   *)
(* A job can stop at any point, a worker can fail in the four ways the     *)
(* code gives it, and a worker the kernel kills leaves its pool waiting    *)
(* for ever.                                                               *)
(***************************************************************************)
EXTENDS Naturals, Sequences, FiniteSets

CONSTANTS
  Object,        \* object names of the bucket
  Entry,         \* members of the archives: a path in one archive
  Hash,          \* md5 hashes
  NoHash,        \* GCS reports no md5 for a composite object
  ZipJob,        \* runs of extract_zips.py
  XmlJob,        \* runs of extract_xml_files.py
  AttachmentJob, \* runs of extract_attachments.py
  ObjectHash,    \* the md5 GCS reports for an object
  Production,    \* objects named GHGBC_PROD_*.zip
  NotAnArchive,  \* production objects that are not zip files
  Members,       \* the members of each kind in the archive of an object
  EntryHash,     \* the md5 of a member's bytes
  Quarantined,   \* the hashes in quarantined_files_md5_hash
  Encrypted,     \* members that none of the passwords opens
  Malformed,     \* members that cannot be decoded or stored as xml
  MaxRows,       \* bound: rows of eccc_zip_file
  MaxFaults      \* bound: faults of the environment in a behaviour

Kind == {"xml", "attachment"}
Job == XmlJob \cup AttachmentJob
KindOf(j) == IF j \in XmlJob THEN "xml" ELSE "attachment"

RowId == 1 .. MaxRows
NoRow == 0

ASSUME ConstantsAssumption ==
  /\ MaxRows \in Nat
  /\ MaxFaults \in Nat
  /\ XmlJob \cap AttachmentJob = {}
  /\ NoHash \notin Hash
  /\ ObjectHash \in [Object -> Hash \cup {NoHash}]
  /\ Production \subseteq Object
  /\ NotAnArchive \subseteq Production
  /\ EntryHash \in [Entry -> Hash]
  /\ Quarantined \subseteq Hash
  /\ Encrypted \subseteq Entry
  /\ Malformed \subseteq Entry
  /\ Members \in [Kind -> [Object -> SUBSET Entry]]
  /\ \A k \in Kind, o \in Object : IsFiniteSet(Members[k][o])

(* The md5 of an object determines its bytes, hence its members.           *)
ASSUME HashAssumption ==
  \A o, p \in Object :
     ObjectHash[o] = ObjectHash[p] /\ ObjectHash[o] # NoHash
       => /\ \A k \in Kind :
               {EntryHash[e] : e \in Members[k][o]}
                 = {EntryHash[e] : e \in Members[k][p]}
          /\ o \in NotAnArchive <=> p \in NotAnArchive

VARIABLES
  bucket,      \* objects in the bucket
  zipFile,     \* eccc_zip_file: name and hash; the id is the position
  extracted,   \* its xml_files_extracted and attachments_extracted flags
  errorCount,  \* its *_extract_error_count columns
  xmlFile,     \* eccc_xml_file: hash, path and zip_file_id
  attachment,  \* eccc_attachment: path and zip_file_id
  listing,     \* per run of extract_zips.py, the objects left to register
  job,         \* per extracting run, what it is doing
  gaveUp,      \* history: attempts <<kind, row, entry>> that ended in failure
  faults       \* faults so far

tables == <<zipFile, extracted, errorCount, xmlFile, attachment>>
vars == <<bucket, tables, listing, job, gaveUp, faults>>

-----------------------------------------------------------------------------
ZipRow == [name : Object, hash : Hash \cup {NoHash}]
XmlRow == [hash : Hash, path : Entry, zip : RowId]
AttachmentRow == [path : Entry, zip : RowId]

(* What a run of an extracting script holds: the rows its query returned   *)
(* and that it has not finished, the row in hand, the members whose task   *)
(* is in the pool, those whose worker was killed, and those whose task     *)
(* returned 1.                                                             *)
JobState == [todo : SUBSET RowId, row : RowId \cup {NoRow}, on : BOOLEAN,
             pending : SUBSET Entry, killed : SUBSET Entry,
             failed : SUBSET Entry]

Idle == [todo |-> {}, row |-> NoRow, on |-> FALSE,
         pending |-> {}, killed |-> {}, failed |-> {}]

TypeOK ==
  /\ bucket \subseteq Object
  /\ zipFile \in Seq(ZipRow)
  /\ Len(zipFile) <= MaxRows
  /\ extracted \in [Kind -> SUBSET RowId]
  /\ errorCount \in [Kind -> [RowId -> Nat]]
  /\ xmlFile \subseteq XmlRow
  /\ attachment \subseteq AttachmentRow
  /\ listing \in [ZipJob -> SUBSET Object]
  /\ job \in [Job -> JobState]
  /\ gaveUp \subseteq Kind \X RowId \X Entry
  /\ faults \in 0 .. MaxFaults

Rows == 1 .. Len(zipFile)
MembersOf(k, r) == Members[k][zipFile[r].name]

(* A member is kept when its key is in its table; the key of an xml file   *)
(* is its hash, whichever archive it first came from.                      *)
Kept(k, r, e) ==
  IF k = "xml" THEN \E x \in xmlFile : x.hash = EntryHash[e]
               ELSE [path |-> e, zip |-> r] \in attachment

Skipped(k, e) == k = "xml" /\ EntryHash[e] \in Quarantined

(* What became of a member that was dealt with.                            *)
Accounted(k, r, e) ==
  Kept(k, r, e) \/ Skipped(k, e) \/ <<k, r, e>> \in gaveUp

-----------------------------------------------------------------------------
Init ==
  /\ bucket = {}
  /\ zipFile = <<>>
  /\ extracted = [k \in Kind |-> {}]
  /\ errorCount = [k \in Kind |-> [r \in RowId |-> 0]]
  /\ xmlFile = {}
  /\ attachment = {}
  /\ listing = [j \in ZipJob |-> {}]
  /\ job = [j \in Job |-> Idle]
  /\ gaveUp = {}
  /\ faults = 0

(* An object appears in the bucket, whole (upload.js).  A name is written  *)
(* once: the upload skips the names that are in the bucket.                *)
Upload(o) ==
  /\ o \notin bucket
  /\ bucket' = bucket \cup {o}
  /\ UNCHANGED <<tables, listing, job, gaveUp, faults>>

Fault ==
  /\ faults < MaxFaults
  /\ faults' = faults + 1

-----------------------------------------------------------------------------
(* extract_zips.py *)

ListBucket(j) ==
  /\ listing[j] = {}
  /\ bucket # {}
  /\ listing' = [listing EXCEPT ![j] = bucket]
  /\ UNCHANGED <<bucket, tables, job, gaveUp, faults>>

Registered(o) ==
  /\ ObjectHash[o] # NoHash
  /\ \E r \in Rows : zipFile[r].hash = ObjectHash[o]

(* process_zip_file: objects that are not production archives are skipped, *)
(* the others are inserted on conflict(zip_file_md5_hash) do nothing.  A   *)
(* null hash conflicts with nothing.                                       *)
InsertZip(o) ==
  IF o \in Production /\ ~Registered(o)
  THEN /\ Len(zipFile) < MaxRows
       /\ zipFile' = Append(zipFile, [name |-> o, hash |-> ObjectHash[o]])
  ELSE UNCHANGED zipFile

ProcessZipFile(j, o) ==
  /\ o \in listing[j]
  /\ InsertZip(o)
  /\ listing' = [listing EXCEPT ![j] = @ \ {o}]
  /\ UNCHANGED <<bucket, extracted, errorCount, xmlFile, attachment, job,
                 gaveUp, faults>>

(* The insert raises: it is rolled back, and the run goes on.              *)
ProcessZipFileError(j, o) ==
  /\ o \in listing[j]
  /\ Fault
  /\ listing' = [listing EXCEPT ![j] = @ \ {o}]
  /\ UNCHANGED <<bucket, tables, job, gaveUp>>

StopZipJob(j) ==
  /\ listing[j] # {}
  /\ Fault
  /\ listing' = [listing EXCEPT ![j] = {}]
  /\ UNCHANGED <<bucket, tables, job, gaveUp>>

-----------------------------------------------------------------------------
(* extract_xml_files.py and extract_attachments.py *)

(* The query for the rows whose flag is false.                             *)
Start(j) ==
  /\ ~job[j].on
  /\ Rows \ extracted[KindOf(j)] # {}
  /\ job' = [job EXCEPT ![j] =
               [Idle EXCEPT !.on = TRUE,
                            !.todo = Rows \ extracted[KindOf(j)]]]
  /\ UNCHANGED <<bucket, tables, listing, gaveUp, faults>>

\* Mutant of OpenArchive: the pool is not joined before the next archive.
OpenArchiveUnjoined(j, r) ==
  /\ r \in job[j].todo \ {job[j].row}
  /\ job' = [job EXCEPT ![j].row = r,
                        ![j].pending = @ \cup MembersOf(KindOf(j), r)]
  /\ UNCHANGED <<bucket, tables, listing, gaveUp, faults>>

\* Mutant of OpenArchive: the error count is the script's, never reset.
OpenArchiveNoReset(j, r) ==
  /\ job[j].row = NoRow
  /\ r \in job[j].todo
  /\ job' = [job EXCEPT ![j] =
               IF zipFile[r].name \in NotAnArchive
               THEN Idle
               ELSE [job[j] EXCEPT !.row = r,
                                   !.pending = MembersOf(KindOf(j), r)]]
  /\ UNCHANGED <<bucket, tables, listing, gaveUp, faults>>

(* The next row: its object is opened by name and every member of the      *)
(* job's kind becomes a task of the pool.  The order of the rows is the    *)
(* database's: the query has no order by.  An object that is not a zip     *)
(* file raises, and the script exits.                                      *)
OpenArchive(j, r) ==
  /\ job[j].row = NoRow
  /\ r \in job[j].todo
  /\ job' = [job EXCEPT ![j] =
               IF zipFile[r].name \in NotAnArchive
               THEN Idle
               ELSE [job[j] EXCEPT !.row = r,
                                   !.pending = MembersOf(KindOf(j), r),
                                   !.failed = {}]]
  /\ UNCHANGED <<bucket, tables, listing, gaveUp, faults>>

\* Mutant of Insert: on conflict do update set zip_file_id.
InsertOverwrite(k, r, e) ==
  IF k = "xml"
  THEN /\ xmlFile' = {x \in xmlFile : x.hash # EntryHash[e]}
                        \cup {[hash |-> EntryHash[e], path |-> e, zip |-> r]}
       /\ UNCHANGED attachment
  ELSE /\ attachment' = attachment \cup {[path |-> e, zip |-> r]}
       /\ UNCHANGED xmlFile

Insert(k, r, e) ==
  IF k = "xml"
  THEN /\ xmlFile' = IF Kept(k, r, e)
                     THEN xmlFile
                     ELSE xmlFile \cup {[hash |-> EntryHash[e],
                                         path |-> e, zip |-> r]}
       /\ UNCHANGED attachment
  ELSE /\ attachment' = attachment \cup {[path |-> e, zip |-> r]}
       /\ UNCHANGED xmlFile

(* The tasks of the pool, process_xml_file and process_report_attachment.  *)
Task(j, e) == e \in job[j].pending
Answered(j, e) == [job[j] EXCEPT !.pending = @ \ {e}]

(* The bytes are read, and either skipped because they are quarantined or  *)
(* inserted (on conflict do nothing) and committed: the task returns 0.    *)
Extract(j, e) ==
  LET k == KindOf(j) IN
  /\ Task(j, e)
  /\ e \notin Encrypted
  /\ \/ Skipped(k, e) /\ UNCHANGED <<xmlFile, attachment>>
     \/ ~Skipped(k, e) /\ e \notin Malformed /\ Insert(k, job[j].row, e)
  /\ job' = [job EXCEPT ![j] = Answered(j, e)]
  /\ UNCHANGED <<bucket, zipFile, extracted, errorCount, listing, gaveUp,
                 faults>>

GiveUp(j, e) == gaveUp' = gaveUp \cup {<<KindOf(j), job[j].row, e>>}

(* read_file swallows every exception, of a wrong password or of the       *)
(* network, and returns None: the task logs an error and returns 0.        *)
Unreadable(j, e) ==
  /\ Task(j, e)
  /\ IF e \in Encrypted THEN UNCHANGED faults ELSE Fault
  /\ GiveUp(j, e)
  /\ job' = [job EXCEPT ![j] = Answered(j, e)]
  /\ UNCHANGED <<bucket, tables, listing>>

(* An exception inside the try: rolled back, and the task returns 1.  A    *)
(* member that is read and not skipped raises when it is malformed; any    *)
(* other one when the archive cannot be opened or the database fails.      *)
Raise(j, e) ==
  /\ Task(j, e)
  /\ IF e \in Malformed \ Encrypted /\ ~Skipped(KindOf(j), e)
       THEN UNCHANGED faults ELSE Fault
  /\ GiveUp(j, e)
  /\ job' = [job EXCEPT ![j] =
               [Answered(j, e) EXCEPT !.failed = @ \cup {e}]]
  /\ UNCHANGED <<bucket, tables, listing>>

(* An exception that leaves the task: connect fails outside the try, or    *)
(* the connection breaks and the rollback in the handler raises too.  The  *)
(* pool drops it, as apply_async has a callback and no error_callback.     *)
(* When it is the commit whose answer was lost, the row is in the table.   *)
Escape(j, e) ==
  /\ Task(j, e)
  /\ Fault
  /\ \/ UNCHANGED <<xmlFile, attachment>>
     \/ /\ e \notin Encrypted \cup Malformed
        /\ ~Skipped(KindOf(j), e)
        /\ Insert(KindOf(j), job[j].row, e)
  /\ GiveUp(j, e)
  /\ job' = [job EXCEPT ![j] = Answered(j, e)]
  /\ UNCHANGED <<bucket, zipFile, extracted, errorCount, listing>>

(* The kernel kills the worker: the pool starts another one, but the task  *)
(* is never answered and pool.join() waits for it.                         *)
KillWorker(j, e) ==
  /\ Task(j, e)
  /\ Fault
  /\ GiveUp(j, e)
  /\ job' = [job EXCEPT ![j] =
               [Answered(j, e) EXCEPT !.killed = @ \cup {e}]]
  /\ UNCHANGED <<bucket, tables, listing>>

\* Mutant of FinishArchive: pool.join() is missing.
FinishArchiveUnjoined(j) ==
  LET k == KindOf(j)
      r == job[j].row
  IN
  /\ r # NoRow
  /\ extracted' = [extracted EXCEPT ![k] = @ \cup {r}]
  /\ errorCount' = [errorCount EXCEPT ![k][r] = Cardinality(job[j].failed)]
  /\ job' = [job EXCEPT ![j].row = NoRow, ![j].todo = @ \ {r},
                        ![j].pending = {}]
  /\ UNCHANGED <<bucket, zipFile, xmlFile, attachment, listing, gaveUp,
                 faults>>

\* Mutant of FinishArchive: the row is let go before its flag is written.
FinishArchiveLate(j) ==
  /\ job[j].row # NoRow
  /\ job[j].pending = {}
  /\ job[j].killed = {}
  /\ job' = [job EXCEPT ![j].row = NoRow, ![j].todo = @ \ {job[j].row}]
  /\ extracted' = [extracted EXCEPT ![KindOf(j)] = @ \cup {job'[j].row}]
  /\ UNCHANGED <<bucket, zipFile, errorCount, xmlFile, attachment, listing,
                 gaveUp, faults>>

(* pool.join() returned: the flag and the error count are written, and     *)
(* the script goes to its next row.                                        *)
FinishArchive(j) ==
  LET k == KindOf(j)
      r == job[j].row
  IN
  /\ r # NoRow
  /\ job[j].pending = {}
  /\ job[j].killed = {}
  /\ extracted' = [extracted EXCEPT ![k] = @ \cup {r}]
  /\ errorCount' = [errorCount EXCEPT ![k][r] = Cardinality(job[j].failed)]
  /\ job' = [job EXCEPT ![j] =
               [job[j] EXCEPT !.row = NoRow, !.todo = @ \ {r}]]
  /\ UNCHANGED <<bucket, zipFile, xmlFile, attachment, listing, gaveUp,
                 faults>>

Finish(j) ==
  /\ job[j].on
  /\ job[j].todo = {}
  /\ job' = [job EXCEPT ![j] = Idle]
  /\ UNCHANGED <<bucket, tables, listing, gaveUp, faults>>

(* The script exits with an exception, or its pod goes away.               *)
Stop(j) ==
  /\ job[j].on
  /\ Fault
  /\ job' = [job EXCEPT ![j] = Idle]
  /\ UNCHANGED <<bucket, tables, listing, gaveUp>>

\* Mutant of Deadline: the cron job sets no activeDeadlineSeconds.
DeadlineNever(j) == FALSE /\ UNCHANGED vars

(* activeDeadlineSeconds ends a job whose pool will never be joined.       *)
Deadline(j) ==
  /\ job[j].killed # {}
  /\ job[j].pending = {}
  /\ job' = [job EXCEPT ![j] = Idle]
  /\ UNCHANGED <<bucket, tables, listing, gaveUp, faults>>

-----------------------------------------------------------------------------
ZipJobStep(j) ==
  \/ ListBucket(j)
  \/ \E o \in Object : ProcessZipFile(j, o)

ZipJobFault(j) ==
  \/ \E o \in Object : ProcessZipFileError(j, o)
  \/ StopZipJob(j)

JobStep(j) ==
  \/ Start(j)
  \/ \E r \in RowId : OpenArchive(j, r)
  \/ \E e \in Entry : Extract(j, e) \/ Unreadable(j, e) \/ Raise(j, e)
  \/ FinishArchive(j)
  \/ Finish(j)
  \/ Deadline(j)

JobFault(j) ==
  \/ \E e \in Entry : Escape(j, e) \/ KillWorker(j, e)
  \/ Stop(j)

Next ==
  \/ \E o \in Object : Upload(o)
  \/ \E j \in ZipJob : ZipJobStep(j) \/ ZipJobFault(j)
  \/ \E j \in Job : JobStep(j) \/ JobFault(j)

Spec == Init /\ [][Next]_vars

(* The daily schedule starts the jobs again and again, Kubernetes runs     *)
(* their containers, and a job past its deadline is ended.                 *)
Fairness ==
  /\ \A j \in ZipJob : WF_vars(ZipJobStep(j))
  /\ \A j \in Job : WF_vars(JobStep(j))

FairSpec == Spec /\ Fairness

-----------------------------------------------------------------------------
(* Properties *)

(* An archive is flagged as extracted only when every member of it was     *)
(* dealt with: it is in the table, or quarantined, or an attempt on it was *)
(* seen to fail.  A job that stops or hangs must not leave the flag behind *)
(* it, and two jobs on one archive must not set it for each other.         *)
FlagAccounted ==
  \A k \in Kind : \A r \in extracted[k] :
    /\ r \in Rows
    /\ \A e \in MembersOf(k, r) : Accounted(k, r, e)

(* A row of eccc_xml_file or eccc_attachment belongs to an archive that    *)
(* has that content, and no quarantined file is stored: the workers are    *)
(* handed the id of a row and the name of an object, and several archives  *)
(* and jobs are in flight.                                                 *)
Provenance ==
  /\ \A x \in xmlFile :
       /\ x.zip \in Rows
       /\ x.path \in MembersOf("xml", x.zip)
       /\ x.hash = EntryHash[x.path]
       /\ x.hash \notin Quarantined
  /\ \A a \in attachment :
       a.zip \in Rows /\ a.path \in MembersOf("attachment", a.zip)

(* The error count of an archive counts failures of its own members only:  *)
(* neither those of the archives the script did before it, nor members     *)
(* that another archive or an earlier run had inserted already.            *)
ErrorCountIsLocal ==
  \A k \in Kind : \A r \in Rows :
    errorCount[k][r]
      <= Cardinality({e \in MembersOf(k, r) : <<k, r, e>> \in gaveUp})

(* What was extracted stays: a report keeps the archive it first came      *)
(* from, even when a later archive holds the same file, and an archive     *)
(* once done is not extracted again.                                       *)
KeptForGood ==
  [][/\ xmlFile \subseteq xmlFile'
     /\ attachment \subseteq attachment'
     /\ \A x, y \in xmlFile' : x.hash = y.hash => x = y
     /\ \A k \in Kind : extracted[k] \subseteq extracted'[k]]_vars

(* Every archive that reaches the bucket is eventually extracted, whatever *)
(* jobs stop, fail or hang on the way: what a run leaves undone, the next  *)
(* one finds again.  (It takes objects that are archives.)                 *)
ArchivesAreExtracted ==
  \A o \in Production \ NotAnArchive, k \in Kind :
    o \in bucket ~> \E r \in extracted[k] : zipFile[r].hash = ObjectHash[o]

-----------------------------------------------------------------------------
(* What a comment on a table says, and the code does not do.               *)

(* eccc_zip_file_001.sql: xml_files_extracted is "true if all xml files    *)
(* contained in the zip file were inserted in the eccc_xml_file table".    *)
ExtractedMeansInserted ==
  \A r \in extracted["xml"] : \A e \in MembersOf("xml", r) :
    Kept("xml", r, e) \/ Skipped("xml", e)
=============================================================================
