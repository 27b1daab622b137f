------------------------- MODULE EcccExtractProofs -------------------------
(***************************************************************************)
(* Theorems of EcccExtract, for every bucket, every content of the         *)
(* archives, any number of overlapping jobs and any number of faults.      *)
(***************************************************************************)
EXTENDS EcccExtract, FiniteSetTheorems, TLAPS

USE ConstantsAssumption

-----------------------------------------------------------------------------
(* Type correctness *)

LEMMA KindType == \A j \in Job : KindOf(j) \in Kind
  BY DEF KindOf, Kind

LEMMA IdleType == Idle \in JobState
  BY DEF Idle, JobState, NoRow

(* The parts of an action that several actions share keep the types.       *)
LEMMA InsertType ==
  ASSUME TypeOK, NEW k \in Kind, NEW r \in RowId, NEW e \in Entry,
         Insert(k, r, e)
  PROVE  /\ xmlFile' \subseteq XmlRow
         /\ attachment' \subseteq AttachmentRow
  <1>1. [hash |-> EntryHash[e], path |-> e, zip |-> r] \in XmlRow
    BY DEF XmlRow
  <1>2. [path |-> e, zip |-> r] \in AttachmentRow
    BY DEF AttachmentRow
  <1>3. QED
    BY <1>1, <1>2 DEF Insert, TypeOK

LEMMA GiveUpType ==
  ASSUME TypeOK, NEW j \in Job, job[j].row \in RowId, NEW e \in Entry,
         GiveUp(j, e)
  PROVE  gaveUp' \subseteq Kind \X RowId \X Entry
  BY KindType DEF TypeOK, GiveUp

LEMMA FaultType ==
  ASSUME TypeOK, Fault \/ UNCHANGED faults
  PROVE  faults' \in 0 .. MaxFaults
  BY DEF TypeOK, Fault

(* An action that only replaces the state of one job by a well-typed one   *)
(* keeps the type of job.                                                  *)
LEMMA JobType ==
  ASSUME TypeOK, NEW j \in Job, NEW s \in JobState,
         job' = [job EXCEPT ![j] = s]
  PROVE  job' \in [Job -> JobState]
  BY DEF TypeOK

(* What a running job knows.  The rows it took are in the table; the tasks *)
(* in the pool are members of the archive in hand; the other members of    *)
(* that archive are accounted for already; and the tasks that returned 1   *)
(* are members of that archive, not of the one before it.                  *)
JobInv(j) ==
  LET k == KindOf(j)
      r == job[j].row
  IN
  /\ job[j].todo \subseteq Rows
  /\ r = NoRow => job[j].pending = {}
  /\ r # NoRow =>
       /\ r \in Rows
       /\ job[j].pending \subseteq MembersOf(k, r)
       /\ \A e \in MembersOf(k, r) :
            e \in job[j].pending \/ Accounted(k, r, e)
       /\ \A e \in job[j].failed :
            e \in MembersOf(k, r) /\ <<k, r, e>> \in gaveUp

JobsInv == \A j \in Job : JobInv(j)

(* The members of a registered archive.                                    *)
LEMMA MembersType ==
  ASSUME TypeOK, NEW k \in Kind, NEW r \in Rows
  PROVE  /\ MembersOf(k, r) \subseteq Entry
         /\ IsFiniteSet(MembersOf(k, r))
  <1>1. zipFile[r] \in ZipRow
    BY DEF TypeOK, Rows
  <1>2. zipFile[r].name \in Object
    BY <1>1 DEF ZipRow
  <1>3. QED
    BY <1>2 DEF MembersOf

(* Members of one archive that were given up: a finite set, which bounds   *)
(* the failures a job has counted.                                         *)
GivenUp(k, r) == {e \in MembersOf(k, r) : <<k, r, e>> \in gaveUp}

LEMMA GivenUpFinite ==
  ASSUME TypeOK, NEW k \in Kind, NEW r \in Rows
  PROVE  IsFiniteSet(GivenUp(k, r))
  BY MembersType, FS_Subset DEF GivenUp

LEMMA FailedFinite ==
  ASSUME TypeOK, JobsInv, NEW j \in Job, job[j].row # NoRow
  PROVE  /\ IsFiniteSet(job[j].failed)
         /\ Cardinality(job[j].failed)
              <= Cardinality(GivenUp(KindOf(j), job[j].row))
  <1>1. job[j].row \in Rows
    BY DEF JobsInv, JobInv
  <1>2. job[j].failed \subseteq GivenUp(KindOf(j), job[j].row)
    BY DEF JobsInv, JobInv, GivenUp
  <1>3. QED
    BY <1>1, <1>2, KindType, GivenUpFinite, FS_Subset

LEMMA InitType == Init => TypeOK /\ JobsInv
  <1> SUFFICES ASSUME Init PROVE TypeOK /\ JobsInv
    OBVIOUS
  <1>1. TypeOK
    BY IdleType DEF Init, TypeOK, RowId
  <1>2. JobsInv
    BY DEF Init, JobsInv, JobInv, Idle
  <1>3. QED
    BY <1>1, <1>2

(* What a task does to its own job: it takes its member off the pool.      *)
LEMMA TaskType ==
  ASSUME TypeOK, JobsInv, NEW j \in Job, NEW e \in Entry, Task(j, e)
  PROVE  /\ job[j] \in JobState
         /\ job[j].row \in RowId
         /\ Answered(j, e) \in JobState
         /\ [Answered(j, e) EXCEPT !.failed = @ \cup {e}] \in JobState
         /\ [Answered(j, e) EXCEPT !.killed = @ \cup {e}] \in JobState
  <1>1. job[j] \in JobState
    BY DEF TypeOK
  <1>2. job[j].row \in RowId
    BY <1>1 DEF JobsInv, JobInv, Task, JobState, NoRow
  <1>3. QED
    BY <1>1, <1>2 DEF JobState, Answered

(* What OpenArchive does to its job.                                       *)
LEMMA OpenType ==
  ASSUME NEW s \in JobState, NEW r \in RowId, NEW S \in SUBSET Entry
  PROVE  [s EXCEPT !.row = r, !.pending = S, !.failed = {}] \in JobState
  BY DEF JobState

LEMMA StepType == TypeOK /\ JobsInv /\ [Next]_vars => TypeOK'
  <1> SUFFICES ASSUME TypeOK, JobsInv, [Next]_vars PROVE TypeOK'
    OBVIOUS
  <1>1. ASSUME NEW o \in Object, Upload(o) PROVE TypeOK'
    BY <1>1 DEF Upload, TypeOK, tables
  <1>2. ASSUME NEW j \in ZipJob, ListBucket(j) PROVE TypeOK'
    BY <1>2 DEF ListBucket, TypeOK, tables
  <1>3. ASSUME NEW j \in ZipJob, NEW o \in Object, ProcessZipFile(j, o)
        PROVE TypeOK'
    <2>1. zipFile' \in Seq(ZipRow) /\ Len(zipFile') <= MaxRows
      <3>1. [name |-> o, hash |-> ObjectHash[o]] \in ZipRow
        BY DEF ZipRow
      <3>2. CASE UNCHANGED zipFile
        BY <3>2 DEF TypeOK
      <3>3. CASE /\ Len(zipFile) < MaxRows
                 /\ zipFile' = Append(zipFile, [name |-> o,
                                               hash |-> ObjectHash[o]])
        BY <3>1, <3>3 DEF TypeOK
      <3>4. QED
        BY <1>3, <3>2, <3>3 DEF ProcessZipFile, InsertZip
    <2>2. QED
      BY <1>3, <2>1 DEF ProcessZipFile, TypeOK
  <1>4. ASSUME NEW j \in ZipJob, ZipJobFault(j) PROVE TypeOK'
    <2>1. faults' \in 0 .. MaxFaults
      BY <1>4, FaultType DEF ZipJobFault, ProcessZipFileError, StopZipJob
    <2>2. listing' \in [ZipJob -> SUBSET Object]
      BY <1>4 DEF ZipJobFault, ProcessZipFileError, StopZipJob, TypeOK
    <2>3. QED
      BY <1>4, <2>1, <2>2
      DEF ZipJobFault, ProcessZipFileError, StopZipJob, TypeOK, tables
  <1>5. ASSUME NEW j \in Job, Start(j) PROVE TypeOK'
    <2>1. Rows \subseteq RowId
      BY DEF Rows, RowId, TypeOK
    <2>2. [Idle EXCEPT !.on = TRUE, !.todo = Rows \ extracted[KindOf(j)]]
            \in JobState
      BY <2>1 DEF Idle, JobState, NoRow
    <2>3. QED
      BY <1>5, <2>2, JobType DEF Start, TypeOK, tables
  <1>6. ASSUME NEW j \in Job, NEW r \in RowId, OpenArchive(j, r) PROVE TypeOK'
    <2>1. r \in Rows
      BY <1>6 DEF OpenArchive, JobsInv, JobInv
    <2>2. MembersOf(KindOf(j), r) \subseteq Entry
      BY <2>1, KindType, MembersType
    <2>3. [job[j] EXCEPT !.row = r, !.pending = MembersOf(KindOf(j), r),
                         !.failed = {}] \in JobState
      <3>1. job[j] \in JobState
        BY DEF TypeOK
      <3>2. QED
        BY <2>2, <3>1, OpenType
    <2>4. job' \in [Job -> JobState]
      BY <1>6, <2>3, IdleType DEF OpenArchive, TypeOK
    <2>5. QED
      BY <1>6, <2>4 DEF OpenArchive, TypeOK, tables
  <1>7. ASSUME NEW j \in Job, NEW e \in Entry,
               Extract(j, e) \/ Escape(j, e)
        PROVE TypeOK'
    <2>1. Task(j, e)
      BY <1>7 DEF Extract, Escape
    <2>2. job' \in [Job -> JobState]
      BY <1>7, <2>1, TaskType, JobType DEF Extract, Escape
    <2>3. /\ xmlFile' \subseteq XmlRow
          /\ attachment' \subseteq AttachmentRow
      BY <1>7, <2>1, TaskType, KindType, InsertType
      DEF Extract, Escape, TypeOK
    <2>4. gaveUp' \subseteq Kind \X RowId \X Entry
      BY <1>7, <2>1, TaskType, GiveUpType DEF Extract, Escape, TypeOK
    <2>5. faults' \in 0 .. MaxFaults
      BY <1>7, FaultType DEF Extract, Escape
    <2>6. QED
      BY <1>7, <2>2, <2>3, <2>4, <2>5 DEF Extract, Escape, TypeOK
  <1>8. ASSUME NEW j \in Job, NEW e \in Entry,
               Unreadable(j, e) \/ Raise(j, e) \/ KillWorker(j, e)
        PROVE TypeOK'
    <2>1. Task(j, e)
      BY <1>8 DEF Unreadable, Raise, KillWorker
    <2>2. job' \in [Job -> JobState]
      BY <1>8, <2>1, TaskType, JobType DEF Unreadable, Raise, KillWorker
    <2>3. gaveUp' \subseteq Kind \X RowId \X Entry
      BY <1>8, <2>1, TaskType, GiveUpType DEF Unreadable, Raise, KillWorker
    <2>4. faults' \in 0 .. MaxFaults
      BY <1>8, FaultType DEF Unreadable, Raise, KillWorker
    <2>5. QED
      BY <1>8, <2>2, <2>3, <2>4
      DEF Unreadable, Raise, KillWorker, TypeOK, tables
  <1>9. ASSUME NEW j \in Job, FinishArchive(j) PROVE TypeOK'
    <2> DEFINE r == job[j].row
    <2>1. job[j] \in JobState /\ KindOf(j) \in Kind
      BY KindType DEF TypeOK
    <2>2. r \in RowId
      BY <1>9, <2>1 DEF FinishArchive, JobState, NoRow
    <2>3. [job[j] EXCEPT !.row = NoRow, !.todo = @ \ {r}] \in JobState
      BY <2>1 DEF JobState
    <2>4. job' \in [Job -> JobState]
      BY <1>9, <2>3, JobType DEF FinishArchive
    <2>5. Cardinality(job[j].failed) \in Nat
      BY <1>9, FailedFinite, FS_CardinalityType DEF FinishArchive
    <2>6. QED
      BY <1>9, <2>1, <2>2, <2>4, <2>5 DEF FinishArchive, TypeOK
  <1>10. ASSUME NEW j \in Job, Finish(j) \/ Stop(j) \/ Deadline(j)
         PROVE TypeOK'
    <2>1. job' \in [Job -> JobState]
      BY <1>10, IdleType, JobType DEF Finish, Stop, Deadline
    <2>2. faults' \in 0 .. MaxFaults
      BY <1>10, FaultType DEF Finish, Stop, Deadline
    <2>3. QED
      BY <1>10, <2>1, <2>2 DEF Finish, Stop, Deadline, TypeOK, tables
  <1>11. CASE UNCHANGED vars
    BY <1>11 DEF vars, tables, TypeOK
  <1>12. QED
    BY <1>1, <1>2, <1>3, <1>4, <1>5, <1>6, <1>7, <1>8, <1>9, <1>10, <1>11
    DEF Next, ZipJobStep, JobStep, JobFault

-----------------------------------------------------------------------------
(* What no step undoes *)

(* No action changes a registered row, deletes an extracted one, or        *)
(* forgets a failure.                                                      *)
Grows ==
  /\ \A r \in Rows : r \in Rows' /\ zipFile'[r] = zipFile[r]
  /\ xmlFile \subseteq xmlFile'
  /\ attachment \subseteq attachment'
  /\ gaveUp \subseteq gaveUp'
  /\ \A k \in Kind : extracted[k] \subseteq extracted'[k]

LEMMA StepGrows == TypeOK /\ JobsInv /\ [Next]_vars => Grows
  <1> SUFFICES ASSUME TypeOK, JobsInv, [Next]_vars PROVE Grows
    OBVIOUS
  <1>1. ASSUME UNCHANGED <<zipFile, extracted>>,
               xmlFile \subseteq xmlFile', attachment \subseteq attachment',
               gaveUp \subseteq gaveUp'
        PROVE  Grows
    BY <1>1 DEF Grows, Rows
  <1>2. ASSUME NEW o \in Object, Upload(o) PROVE Grows
    BY <1>1, <1>2 DEF Upload, tables
  <1>3. ASSUME NEW j \in ZipJob, ListBucket(j) PROVE Grows
    BY <1>1, <1>3 DEF ListBucket, tables
  <1>4. ASSUME NEW j \in ZipJob, NEW o \in Object, ProcessZipFile(j, o)
        PROVE Grows
    <2>1. CASE UNCHANGED zipFile
      BY <1>1, <1>4, <2>1 DEF ProcessZipFile
    <2>2. CASE zipFile' = Append(zipFile, [name |-> o, hash |-> ObjectHash[o]])
      <3>1. \A r \in Rows : r \in Rows' /\ zipFile'[r] = zipFile[r]
        BY <2>2 DEF Rows, TypeOK
      <3>2. QED
        BY <1>4, <3>1 DEF ProcessZipFile, Grows
    <2>3. QED
      BY <1>4, <2>1, <2>2 DEF ProcessZipFile, InsertZip
  <1>5. ASSUME NEW j \in ZipJob, ZipJobFault(j) PROVE Grows
    BY <1>1, <1>5 DEF ZipJobFault, ProcessZipFileError, StopZipJob, tables
  <1>6. ASSUME NEW j \in Job,
               \/ Start(j) \/ Finish(j) \/ Stop(j) \/ Deadline(j)
               \/ \E r \in RowId : OpenArchive(j, r)
        PROVE Grows
    BY <1>1, <1>6 DEF Start, Finish, Stop, Deadline, OpenArchive, tables
  <1>7. ASSUME NEW j \in Job, NEW e \in Entry,
               Extract(j, e) \/ Escape(j, e)
        PROVE Grows
    BY <1>1, <1>7 DEF Extract, Escape, Insert, GiveUp
  <1>8. ASSUME NEW j \in Job, NEW e \in Entry,
               Unreadable(j, e) \/ Raise(j, e) \/ KillWorker(j, e)
        PROVE Grows
    BY <1>1, <1>8 DEF Unreadable, Raise, KillWorker, GiveUp, tables
  <1>9. ASSUME NEW j \in Job, FinishArchive(j) PROVE Grows
    <2>1. KindOf(j) \in Kind
      BY KindType
    <2>2. \A k \in Kind : extracted[k] \subseteq extracted'[k]
      BY <1>9, <2>1 DEF FinishArchive, TypeOK
    <2>3. QED
      BY <1>9, <2>2 DEF FinishArchive, Grows, Rows
  <1>10. CASE UNCHANGED vars
    BY <1>1, <1>10 DEF vars, tables
  <1>11. QED
    BY <1>2, <1>3, <1>4, <1>5, <1>6, <1>7, <1>8, <1>9, <1>10
    DEF Next, ZipJobStep, JobStep, JobFault

(* What was accounted for stays accounted for.                             *)
LEMMA AccountedStable ==
  ASSUME Grows, NEW k \in Kind, NEW r \in Rows
  PROVE  /\ r \in Rows'
         /\ MembersOf(k, r)' = MembersOf(k, r)
         /\ \A e : Accounted(k, r, e) => Accounted(k, r, e)'
  BY DEF Grows, MembersOf, Accounted, Kept, Skipped

(* A job that a step leaves alone keeps what it knows.                     *)
LEMMA JobInvStable ==
  ASSUME Grows, NEW j \in Job, JobInv(j), job'[j] = job[j]
  PROVE  JobInv(j)'
  <1>1. job[j].todo \subseteq Rows'
    BY DEF JobInv, Grows
  <1>2. ASSUME job[j].row # NoRow
        PROVE  /\ job[j].row \in Rows'
               /\ MembersOf(KindOf(j), job[j].row)'
                    = MembersOf(KindOf(j), job[j].row)
               /\ \A e : Accounted(KindOf(j), job[j].row, e)
                            => Accounted(KindOf(j), job[j].row, e)'
    BY <1>2, KindType, AccountedStable DEF JobInv
  <1>3. QED
    BY <1>1, <1>2 DEF JobInv, Grows

-----------------------------------------------------------------------------
(* What the jobs know *)

(* An insert keeps the member it was called for.                           *)
LEMMA InsertKeeps ==
  ASSUME NEW k \in Kind, NEW r, NEW e, Insert(k, r, e)
  PROVE  Kept(k, r, e)'
  <1>1. CASE k = "xml"
    <2>1. CASE Kept(k, r, e)
      BY <1>1, <2>1 DEF Insert, Kept
    <2>2. CASE ~Kept(k, r, e)
      <3> DEFINE x == [hash |-> EntryHash[e], path |-> e, zip |-> r]
      <3>1. x \in xmlFile'
        BY <1>1, <2>2 DEF Insert
      <3>2. x.hash = EntryHash[e]
        OBVIOUS
      <3> HIDE DEF x
      <3>3. QED
        BY <1>1, <3>1, <3>2 DEF Kept
    <2>3. QED
      BY <2>1, <2>2
  <1>2. CASE k # "xml"
    BY <1>2 DEF Insert, Kept
  <1>3. QED
    BY <1>1, <1>2

(* A step of one job that takes a member off the pool once it is accounted *)
(* for, and counts it as failed only when it was given up.                 *)
LEMMA TaskStep ==
  ASSUME TypeOK, JobsInv, Grows, NEW j \in Job, NEW e \in Entry, Task(j, e),
         NEW r \in RowId, r = job[j].row,
         Accounted(KindOf(j), r, e)',
         NEW s \in JobState, job' = [job EXCEPT ![j] = s],
         s.todo = job[j].todo, s.row = r,
         s.pending = job[j].pending \ {e},
         \/ s.failed = job[j].failed
         \/ /\ s.failed = job[j].failed \cup {e}
            /\ <<KindOf(j), r, e>> \in gaveUp'
  PROVE  JobsInv'
  <1> DEFINE k == KindOf(j)
  <1>1. job'[j] = s /\ \A i \in Job \ {j} : job'[i] = job[i]
    BY DEF TypeOK
  <1>2. /\ r # NoRow
        /\ r \in Rows
        /\ e \in MembersOf(k, r)
        /\ job[j].todo \subseteq Rows
        /\ job[j].pending \subseteq MembersOf(k, r)
        /\ \A d \in MembersOf(k, r) :
             d \in job[j].pending \/ Accounted(k, r, d)
        /\ \A d \in job[j].failed :
             d \in MembersOf(k, r) /\ <<k, r, d>> \in gaveUp
    BY DEF Task, JobsInv, JobInv, NoRow, RowId
  <1>3. /\ r \in Rows'
        /\ MembersOf(k, r)' = MembersOf(k, r)
        /\ \A d : Accounted(k, r, d) => Accounted(k, r, d)'
    BY <1>2, KindType, AccountedStable
  <1>4. s.todo \subseteq Rows'
    BY <1>2 DEF Grows
  <1>5. \A d \in MembersOf(k, r) : d \in s.pending \/ Accounted(k, r, d)'
    BY <1>2, <1>3
  <1>6. gaveUp \subseteq gaveUp'
    BY DEF Grows
  <1>7. \A d \in s.failed : d \in MembersOf(k, r) /\ <<k, r, d>> \in gaveUp'
    <2> SUFFICES ASSUME NEW d \in s.failed
                 PROVE  d \in MembersOf(k, r) /\ <<k, r, d>> \in gaveUp'
      OBVIOUS
    <2>1. CASE d \in job[j].failed
      BY <1>2, <1>6, <2>1
    <2>2. CASE d = e /\ <<k, r, e>> \in gaveUp'
      BY <1>2, <2>2
    <2>3. QED
      BY <2>1, <2>2
  <1>8. JobInv(j)'
    BY <1>1, <1>2, <1>3, <1>4, <1>5, <1>7 DEF JobInv
  <1>9. \A i \in Job \ {j} : JobInv(i)'
    BY <1>1, JobInvStable DEF JobsInv
  <1>10. QED
    BY <1>8, <1>9 DEF JobsInv

(* A step that gives one job a new state, of which JobInv holds.           *)
LEMMA OtherStep ==
  ASSUME TypeOK, JobsInv, Grows, NEW j \in Job, NEW s,
         job' = [job EXCEPT ![j] = s], JobInv(j)'
  PROVE  JobsInv'
  <1>1. \A i \in Job \ {j} : job'[i] = job[i]
    BY DEF TypeOK
  <1>2. QED
    BY <1>1, JobInvStable DEF JobsInv

LEMMA StepJobs == TypeOK /\ JobsInv /\ [Next]_vars => JobsInv'
  <1> SUFFICES ASSUME TypeOK, JobsInv, [Next]_vars PROVE JobsInv'
    OBVIOUS
  <1>1. Grows
    BY StepGrows
  <1>2. ASSUME UNCHANGED job PROVE JobsInv'
    BY <1>1, <1>2, JobInvStable DEF JobsInv
  <1>3. ASSUME NEW j \in Job, Start(j) PROVE JobsInv'
    <2>1. job'[j].todo \subseteq Rows /\ job'[j].row = NoRow
            /\ job'[j].pending = {}
      BY <1>3 DEF Start, TypeOK, Idle
    <2>2. JobInv(j)'
      BY <1>1, <2>1 DEF JobInv, Grows
    <2>3. QED
      BY <1>1, <1>3, <2>2, OtherStep DEF Start
  <1>4. ASSUME NEW j \in Job, job' = [job EXCEPT ![j] = Idle] PROVE JobsInv'
    <2>1. job'[j] = Idle
      BY <1>4 DEF TypeOK
    <2>2. JobInv(j)'
      BY <2>1 DEF JobInv, Idle
    <2>3. QED
      BY <1>1, <1>4, <2>2, OtherStep
  <1>5. ASSUME NEW j \in Job, NEW r \in RowId, OpenArchive(j, r)
        PROVE JobsInv'
    <2>1. CASE zipFile[r].name \in NotAnArchive
      BY <1>4, <1>5, <2>1 DEF OpenArchive
    <2>2. CASE zipFile[r].name \notin NotAnArchive
      <3> DEFINE s == [job[j] EXCEPT !.row = r,
                                     !.pending = MembersOf(KindOf(j), r),
                                     !.failed = {}]
      <3>1. job' = [job EXCEPT ![j] = s]
        BY <1>5, <2>2 DEF OpenArchive
      <3>2. job[j] \in JobState
        BY DEF TypeOK
      <3>3. /\ job'[j] = s
            /\ s.todo = job[j].todo /\ s.row = r
            /\ s.pending = MembersOf(KindOf(j), r) /\ s.failed = {}
        BY <3>1, <3>2 DEF TypeOK, JobState
      <3>4. r \in Rows /\ job[j].todo \subseteq Rows
        BY <1>5 DEF OpenArchive, JobsInv, JobInv
      <3>5. /\ r \in Rows'
            /\ job[j].todo \subseteq Rows'
            /\ MembersOf(KindOf(j), r)' = MembersOf(KindOf(j), r)
        BY <1>1, <3>4, KindType, AccountedStable DEF Grows
      <3>6. r # NoRow
        BY DEF RowId, NoRow
      <3>7. JobInv(j)'
        BY <3>3, <3>5, <3>6 DEF JobInv
      <3>8. QED
        BY <1>1, <3>1, <3>7, OtherStep
    <2>3. QED
      BY <2>1, <2>2
  <1>6. ASSUME NEW j \in Job, NEW e \in Entry, Extract(j, e) PROVE JobsInv'
    <2>1. Task(j, e)
      BY <1>6 DEF Extract
    <2> DEFINE r == job[j].row
    <2>6. PICK q \in RowId : q = r
      BY <2>1, TaskType
    <2>2. Accounted(KindOf(j), q, e)'
      <3>1. CASE Skipped(KindOf(j), e)
        BY <3>1 DEF Accounted, Skipped
      <3>2. CASE Insert(KindOf(j), q, e)
        BY <3>2, KindType, InsertKeeps DEF Accounted
      <3>3. QED
        BY <1>6, <2>6, <3>1, <3>2 DEF Extract
    <2>3. Answered(j, e) \in JobState /\ job[j] \in JobState
      BY <2>1, TaskType
    <2>4. /\ Answered(j, e).todo = job[j].todo
          /\ Answered(j, e).row = job[j].row
          /\ Answered(j, e).pending = job[j].pending \ {e}
          /\ Answered(j, e).failed = job[j].failed
      BY <2>3 DEF Answered, JobState
    <2>5. job' = [job EXCEPT ![j] = Answered(j, e)]
      BY <1>6 DEF Extract
    <2>7. QED
      BY <1>1, <2>1, <2>2, <2>3, <2>4, <2>5, <2>6, TaskStep
  <1>7. ASSUME NEW j \in Job, NEW e \in Entry,
               \/ Unreadable(j, e) \/ Raise(j, e)
               \/ Escape(j, e) \/ KillWorker(j, e)
        PROVE JobsInv'
    <2>1. Task(j, e) /\ GiveUp(j, e)
      BY <1>7 DEF Unreadable, Raise, Escape, KillWorker
    <2>7. PICK r \in RowId : r = job[j].row
      BY <2>1, TaskType
    <2>2. /\ <<KindOf(j), r, e>> \in gaveUp'
          /\ Accounted(KindOf(j), r, e)'
      BY <2>1, <2>7 DEF GiveUp, Accounted
    <2>3. PICK s \in {Answered(j, e),
                      [Answered(j, e) EXCEPT !.failed = @ \cup {e}],
                      [Answered(j, e) EXCEPT !.killed = @ \cup {e}]} :
            job' = [job EXCEPT ![j] = s]
      BY <1>7 DEF Unreadable, Raise, Escape, KillWorker
    <2>4. job[j] \in JobState /\ s \in JobState
      <3>1. /\ job[j] \in JobState
            /\ Answered(j, e) \in JobState
            /\ [Answered(j, e) EXCEPT !.failed = @ \cup {e}] \in JobState
            /\ [Answered(j, e) EXCEPT !.killed = @ \cup {e}] \in JobState
        BY <2>1, TaskType
      <3>2. QED
        BY <2>3, <3>1, Zenon
    <2>5. /\ s.todo = job[j].todo
          /\ s.row = job[j].row
          /\ s.pending = job[j].pending \ {e}
          /\ s.failed = job[j].failed \/ s.failed = job[j].failed \cup {e}
      BY <2>4 DEF Answered, JobState
    <2>6. QED
      BY <1>1, <2>1, <2>2, <2>3, <2>4, <2>5, <2>7, TaskStep
  <1>8. ASSUME NEW j \in Job, FinishArchive(j) PROVE JobsInv'
    <2> DEFINE s == [job[j] EXCEPT !.row = NoRow,
                                   !.todo = @ \ {job[j].row}]
    <2>1. job' = [job EXCEPT ![j] = s]
      BY <1>8 DEF FinishArchive
    <2>2. job[j] \in JobState
      BY DEF TypeOK
    <2>3. /\ job'[j] = s
          /\ s.todo \subseteq job[j].todo
          /\ s.row = NoRow
          /\ s.pending = {}
      BY <1>8, <2>1, <2>2 DEF FinishArchive, TypeOK, JobState
    <2>4. JobInv(j)'
      BY <1>1, <2>3 DEF JobInv, JobsInv, Grows
    <2>5. QED
      BY <1>1, <2>1, <2>4, OtherStep
  <1>9. CASE UNCHANGED vars
    BY <1>2, <1>9 DEF vars
  <1>10. ASSUME NEW j \in ZipJob, ZipJobStep(j) \/ ZipJobFault(j)
         PROVE JobsInv'
    BY <1>2, <1>10
    DEF ZipJobStep, ZipJobFault, ListBucket, ProcessZipFile,
        ProcessZipFileError, StopZipJob
  <1>11. ASSUME NEW o \in Object, Upload(o) PROVE JobsInv'
    BY <1>2, <1>11 DEF Upload
  <1>12. ASSUME NEW j \in Job, Finish(j) \/ Stop(j) \/ Deadline(j)
         PROVE JobsInv'
    BY <1>4, <1>12 DEF Finish, Stop, Deadline
  <1>13. QED
    BY <1>3, <1>5, <1>6, <1>7, <1>8, <1>9, <1>10, <1>11, <1>12
    DEF Next, JobStep, JobFault

(* In every reachable state the tables and the jobs have their types, and  *)
(* every job knows what JobInv says: the part of the inductive invariant   *)
(* the other theorems are relative to.                                     *)
THEOREM TypeCorrect == Spec => [](TypeOK /\ JobsInv)
  <1>1. TypeOK /\ JobsInv /\ [Next]_vars => (TypeOK /\ JobsInv)'
    BY StepType, StepJobs
  <1>2. QED
    BY InitType, <1>1, PTL DEF Spec

-----------------------------------------------------------------------------
(* The flag *)

LEMMA StepFlag ==
  TypeOK /\ JobsInv /\ FlagAccounted /\ [Next]_vars => FlagAccounted'
  <1> SUFFICES ASSUME TypeOK, JobsInv, FlagAccounted, [Next]_vars
               PROVE  FlagAccounted'
    OBVIOUS
  <1>1. Grows
    BY StepGrows
  <1>2. ASSUME NEW k \in Kind, NEW r \in extracted[k]
        PROVE  /\ r \in Rows'
               /\ \A e \in MembersOf(k, r)' : Accounted(k, r, e)'
    BY <1>1, AccountedStable DEF FlagAccounted
  <1>3. CASE UNCHANGED extracted
    BY <1>2, <1>3 DEF FlagAccounted
  <1>4. ASSUME NEW j \in Job, FinishArchive(j) PROVE FlagAccounted'
    <2> DEFINE k == KindOf(j)
    <2>1. PICK r : r = job[j].row
      OBVIOUS
    <2>2. r # NoRow /\ job[j].pending = {}
      BY <1>4, <2>1 DEF FinishArchive
    <2>3. r \in Rows /\ \A e \in MembersOf(k, r) : Accounted(k, r, e)
      BY <2>1, <2>2 DEF JobsInv, JobInv
    <2>4. r \in Rows' /\ \A e \in MembersOf(k, r)' : Accounted(k, r, e)'
      BY <1>1, <2>3, KindType, AccountedStable
    <2>5. extracted' = [extracted EXCEPT ![k] = @ \cup {r}]
      BY <1>4, <2>1 DEF FinishArchive
    <2>6. ASSUME NEW m \in Kind, NEW q \in extracted'[m]
          PROVE  q \in extracted[m] \/ (m = k /\ q = r)
      BY <2>5, <2>6 DEF TypeOK
    <2>7. ASSUME NEW m \in Kind, NEW q \in extracted'[m]
          PROVE  /\ q \in Rows'
                 /\ \A e \in MembersOf(m, q)' : Accounted(m, q, e)'
      BY <1>2, <2>4, <2>6
    <2>8. QED
      BY <2>7 DEF FlagAccounted
  <1>5. UNCHANGED extracted \/ \E j \in Job : FinishArchive(j)
    BY DEF Next, ZipJobStep, ZipJobFault, JobStep, JobFault, Upload,
           ListBucket, ProcessZipFile, ProcessZipFileError, StopZipJob, Start,
           OpenArchive, Extract, Unreadable, Raise, Escape, KillWorker, Finish,
           Stop, Deadline, tables, vars
  <1>6. QED
    BY <1>3, <1>4, <1>5

(* An archive is flagged as extracted only once every member of it is in   *)
(* its table, quarantined, or was seen to fail, for any number of jobs     *)
(* that overlap on it, stop before they set the flag, or hang.             *)
THEOREM FlagIsAccounted == Spec => []FlagAccounted
  <1>1. Init => FlagAccounted
    BY DEF Init, FlagAccounted
  <1>2. QED
    BY <1>1, TypeCorrect, StepFlag, PTL DEF Spec

-----------------------------------------------------------------------------
(* The rows *)

LEMMA StepProvenance ==
  TypeOK /\ JobsInv /\ Provenance /\ [Next]_vars => Provenance'
  <1> SUFFICES ASSUME TypeOK, JobsInv, Provenance, [Next]_vars
               PROVE  Provenance'
    OBVIOUS
  <1>1. Grows
    BY StepGrows
  <1>2. "xml" \in Kind /\ "attachment" \in Kind
    BY DEF Kind
  <1>3. ASSUME NEW x \in xmlFile
        PROVE  /\ x.zip \in Rows'
               /\ x.path \in MembersOf("xml", x.zip)'
               /\ x.hash = EntryHash[x.path]
               /\ x.hash \notin Quarantined
    BY <1>1, <1>2, AccountedStable DEF Provenance
  <1>4. ASSUME NEW a \in attachment
        PROVE  a.zip \in Rows' /\ a.path \in MembersOf("attachment", a.zip)'
    BY <1>1, <1>2, AccountedStable DEF Provenance
  <1>5. CASE UNCHANGED <<xmlFile, attachment>>
    BY <1>3, <1>4, <1>5 DEF Provenance
  <1>6. ASSUME NEW j \in Job, NEW e \in Entry, Task(j, e),
               ~Skipped(KindOf(j), e), Insert(KindOf(j), job[j].row, e)
        PROVE  Provenance'
    <2>1. PICK r \in RowId : r = job[j].row
      BY <1>6, TaskType
    <2>2. r \in Rows /\ e \in MembersOf(KindOf(j), r)
      BY <1>6, <2>1 DEF JobsInv, JobInv, Task
    <2>3. r \in Rows' /\ e \in MembersOf(KindOf(j), r)'
      BY <1>1, <2>2, KindType, AccountedStable
    <2>4. CASE KindOf(j) = "xml"
      <3>1. EntryHash[e] \notin Quarantined
        BY <1>6, <2>4 DEF Skipped
      <3>2. UNCHANGED attachment
        BY <1>6, <2>4 DEF Insert
      <3>3. ASSUME NEW x \in xmlFile'
            PROVE  x \in xmlFile
                   \/ x = [hash |-> EntryHash[e], path |-> e, zip |-> r]
        BY <1>6, <2>1, <2>4 DEF Insert
      <3>4. QED
        BY <1>3, <1>4, <2>3, <2>4, <3>1, <3>2, <3>3 DEF Provenance
    <2>5. CASE KindOf(j) = "attachment"
      <3>1. UNCHANGED xmlFile
        BY <1>6, <2>5 DEF Insert
      <3>2. ASSUME NEW a \in attachment'
            PROVE  a \in attachment \/ a = [path |-> e, zip |-> r]
        BY <1>6, <2>1, <2>5 DEF Insert
      <3>3. QED
        BY <1>3, <1>4, <2>3, <2>5, <3>1, <3>2 DEF Provenance
    <2>6. QED
      BY <2>4, <2>5, KindType DEF Kind
  <1>7. ASSUME NEW j \in Job, NEW e \in Entry,
               Extract(j, e) \/ Escape(j, e)
        PROVE  Provenance'
    BY <1>5, <1>6, <1>7 DEF Extract, Escape
  <1>8. \/ UNCHANGED <<xmlFile, attachment>>
        \/ \E j \in Job, e \in Entry : Extract(j, e) \/ Escape(j, e)
    BY DEF Next, ZipJobStep, ZipJobFault, JobStep, JobFault, Upload,
           ListBucket, ProcessZipFile, ProcessZipFileError, StopZipJob, Start,
           OpenArchive, FinishArchive, Unreadable, Raise, KillWorker, Finish,
           Stop, Deadline, tables, vars
  <1>9. QED
    BY <1>5, <1>7, <1>8

(* Every row of eccc_xml_file and eccc_attachment belongs to the archive   *)
(* that holds it, and no quarantined file is among them.                   *)
THEOREM ProvenanceHolds == Spec => []Provenance
  <1>1. Init => Provenance
    BY DEF Init, Provenance
  <1>2. QED
    BY <1>1, TypeCorrect, StepProvenance, PTL DEF Spec

-----------------------------------------------------------------------------
(* What is extracted stays *)

UniqueHash == \A x, y \in xmlFile : x.hash = y.hash => x = y

LEMMA StepUnique == TypeOK /\ UniqueHash /\ [Next]_vars => UniqueHash'
  <1> SUFFICES ASSUME TypeOK, UniqueHash, [Next]_vars
               PROVE  UniqueHash'
    OBVIOUS
  <1>1. CASE UNCHANGED xmlFile
    BY <1>1 DEF UniqueHash
  <1>2. ASSUME NEW k, NEW r, NEW e, Insert(k, r, e)
        PROVE  UniqueHash'
    <2> DEFINE x == [hash |-> EntryHash[e], path |-> e, zip |-> r]
    <2>1. CASE xmlFile' = xmlFile \cup {x} /\ k = "xml" /\ ~Kept(k, r, e)
      <3>1. \A y \in xmlFile : y.hash # x.hash
        BY <2>1 DEF Kept
      <3>2. QED
        BY <2>1, <3>1 DEF UniqueHash
    <2>2. QED
      BY <1>1, <1>2, <2>1 DEF Insert
  <1>3. \/ UNCHANGED xmlFile
        \/ \E k, r, e : Insert(k, r, e)
    <2>1. CASE \E j \in Job : JobStep(j) \/ JobFault(j)
      <3>1. ASSUME NEW j \in Job, NEW e, Extract(j, e) \/ Escape(j, e)
            PROVE  \/ UNCHANGED xmlFile
                   \/ \E k, r, f : Insert(k, r, f)
        BY <3>1 DEF Extract, Escape
      <3>2. ASSUME NEW j \in Job, NEW e,
                   Unreadable(j, e) \/ Raise(j, e) \/ KillWorker(j, e)
            PROVE  UNCHANGED xmlFile
        BY <3>2 DEF Unreadable, Raise, KillWorker, tables
      <3>3. ASSUME NEW j \in Job,
                   \/ Start(j) \/ FinishArchive(j) \/ Finish(j) \/ Stop(j)
                   \/ Deadline(j) \/ \E r : OpenArchive(j, r)
            PROVE  UNCHANGED xmlFile
        BY <3>3 DEF Start, OpenArchive, FinishArchive, Finish, Stop, Deadline,
                    tables
      <3>4. QED
        BY <2>1, <3>1, <3>2, <3>3 DEF JobStep, JobFault
    <2>2. CASE \E j \in ZipJob : ZipJobStep(j) \/ ZipJobFault(j)
      BY <2>2 DEF ZipJobStep, ZipJobFault, ListBucket, ProcessZipFile,
                  ProcessZipFileError, StopZipJob, tables
    <2>3. QED
      BY <2>1, <2>2 DEF Next, Upload, tables, vars
  <1>4. QED
    BY <1>1, <1>2, <1>3

(* No step deletes a row, moves a report to another archive, stores a      *)
(* report twice or clears a flag.                                          *)
THEOREM ExtractedIsKept == Spec => KeptForGood
  <1>1. Init => UniqueHash
    BY DEF Init, UniqueHash
  <1>2. TypeOK /\ JobsInv /\ UniqueHash /\ UniqueHash' /\ [Next]_vars =>
          [/\ xmlFile \subseteq xmlFile'
           /\ attachment \subseteq attachment'
           /\ \A x, y \in xmlFile' : x.hash = y.hash => x = y
           /\ \A k \in Kind : extracted[k] \subseteq extracted'[k]]_vars
    BY StepGrows DEF Grows, UniqueHash
  <1>3. QED
    BY <1>1, <1>2, TypeCorrect, StepUnique, PTL DEF Spec, KeptForGood

-----------------------------------------------------------------------------
(* The error count                                                         *)

UncountedRows == \A k \in Kind : \A r \in RowId \ Rows : errorCount[k][r] = 0

LEMMA StepCount ==
  TypeOK /\ TypeOK' /\ JobsInv /\ ErrorCountIsLocal /\ UncountedRows
      /\ [Next]_vars
    => ErrorCountIsLocal' /\ UncountedRows'
  <1> SUFFICES ASSUME TypeOK, TypeOK', JobsInv, ErrorCountIsLocal, UncountedRows,
                      [Next]_vars
               PROVE  ErrorCountIsLocal' /\ UncountedRows'
    OBVIOUS
  <1>1. Grows
    BY StepGrows
  <1>2. ASSUME NEW k \in Kind, NEW r \in Rows'
        PROVE  IsFiniteSet(GivenUp(k, r)') /\ Cardinality(GivenUp(k, r)') \in Nat
    <2>1. zipFile'[r].name \in Object
      <3>1. zipFile' \in Seq(ZipRow) /\ r \in 1 .. Len(zipFile')
        BY DEF TypeOK, Rows
      <3>2. zipFile'[r] \in ZipRow
        BY <3>1
      <3>3. QED
        BY <3>2 DEF ZipRow
    <2>2. IsFiniteSet(MembersOf(k, r)')
      BY <2>1 DEF MembersOf
    <2>3. GivenUp(k, r)' \subseteq MembersOf(k, r)'
      BY DEF GivenUp
    <2>4. QED
      BY <2>2, <2>3, FS_Subset, FS_CardinalityType
  <1>3. ASSUME NEW k \in Kind, NEW r \in Rows
        PROVE  /\ r \in Rows'
               /\ Cardinality(GivenUp(k, r)) \in Nat
               /\ Cardinality(GivenUp(k, r)) <= Cardinality(GivenUp(k, r)')
    <2>1. r \in Rows' /\ GivenUp(k, r) \subseteq GivenUp(k, r)'
      BY <1>1, AccountedStable DEF GivenUp, Grows
    <2>2. Cardinality(GivenUp(k, r)) \in Nat
      BY GivenUpFinite, FS_CardinalityType
    <2>3. QED
      BY <1>2, <2>1, <2>2, FS_Subset
  <1>4. Rows \subseteq RowId /\ Rows' \subseteq RowId
    BY DEF TypeOK, Rows, RowId
  <1>5. ASSUME NEW k \in Kind, NEW r \in Rows',
               \/ errorCount'[k][r] = errorCount[k][r]
               \/ r \in Rows /\ errorCount'[k][r] <= Cardinality(GivenUp(k, r))
        PROVE  errorCount'[k][r] <= Cardinality(GivenUp(k, r)')
    <2>1. errorCount[k][r] \in Nat /\ errorCount'[k][r] \in Nat
      BY <1>4 DEF TypeOK
    <2>2. CASE r \in Rows
      <3>1. errorCount[k][r] <= Cardinality(GivenUp(k, r))
        BY <2>2 DEF ErrorCountIsLocal, GivenUp
      <3>2. errorCount'[k][r] <= Cardinality(GivenUp(k, r))
        BY <1>5, <3>1
      <3>3. QED
        BY <1>2, <1>3, <2>1, <2>2, <3>2
    <2>3. CASE r \notin Rows
      <3>1. errorCount'[k][r] = 0
        BY <1>4, <1>5, <2>3 DEF UncountedRows
      <3>2. QED
        BY <1>2, <3>1
    <2>4. QED
      BY <2>2, <2>3
  <1>6. CASE UNCHANGED errorCount
    <2>1. ErrorCountIsLocal'
      BY <1>5, <1>6 DEF ErrorCountIsLocal, GivenUp
    <2>2. UncountedRows'
      BY <1>3, <1>6 DEF UncountedRows, Kind
    <2>3. QED
      BY <2>1, <2>2
  <1>7. ASSUME NEW j \in Job, FinishArchive(j)
        PROVE  ErrorCountIsLocal' /\ UncountedRows'
    <2> DEFINE m == KindOf(j)
               q == job[j].row
    <2>1. m \in Kind /\ q # NoRow /\ q \in Rows /\ q \in RowId
      BY <1>4, <1>7, KindType DEF FinishArchive, JobsInv, JobInv
    <2>2. /\ errorCount'[m][q] = Cardinality(job[j].failed)
          /\ \A k \in Kind : \A r \in RowId :
               k # m \/ r # q => errorCount'[k][r] = errorCount[k][r]
      BY <1>7, <2>1 DEF FinishArchive, TypeOK
    <2>3. errorCount'[m][q] <= Cardinality(GivenUp(m, q))
      BY <2>1, <2>2, FailedFinite
    <2>4. ErrorCountIsLocal'
      <3>1. ASSUME NEW k \in Kind, NEW r \in Rows'
            PROVE  errorCount'[k][r] <= Cardinality(GivenUp(k, r)')
        BY <1>4, <1>5, <2>1, <2>2, <2>3
      <3>2. QED
        BY <3>1 DEF ErrorCountIsLocal, GivenUp
    <2>5. UncountedRows'
      BY <1>3, <2>1, <2>2 DEF UncountedRows
    <2>6. QED
      BY <2>4, <2>5
  <1>8. UNCHANGED errorCount \/ \E j \in Job : FinishArchive(j)
    BY DEF Next, ZipJobStep, ZipJobFault, JobStep, JobFault, Upload,
           ListBucket, ProcessZipFile, ProcessZipFileError, StopZipJob, Start,
           OpenArchive, Extract, Unreadable, Raise, Escape, KillWorker, Finish,
           Stop, Deadline, tables, vars
  <1>9. QED
    BY <1>6, <1>7, <1>8

(* The error count of an archive is at most the number of its own members  *)
(* that were seen to fail: a count of the archive before it is reset, and  *)
(* jobs that overlap on an archive do not add theirs up.                   *)
THEOREM CountIsLocal == Spec => []ErrorCountIsLocal
  <1>1. Init => ErrorCountIsLocal /\ UncountedRows
    BY DEF Init, ErrorCountIsLocal, UncountedRows, Rows
  <1>2. QED
    BY <1>1, TypeCorrect, StepCount, PTL DEF Spec

=============================================================================
