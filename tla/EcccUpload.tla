----------------------------- MODULE EcccUpload -----------------------------
(***************************************************************************)
(* The job that copies the archives of the ECCC web site to the bucket:    *)
(* init.sh lists the site, and upload.js streams, one after the other, the *)
(* URLs whose name is not in the bucket yet.  Retries share one counter,   *)
(* anything else that goes wrong ends the run, and the DAG starts the job  *)
(* again the next day.  The pod can be started by hand as well, so runs    *)
(* can overlap.                                                            *)
(***************************************************************************)
EXTENDS Naturals

CONSTANTS
  Run,          \* pods of the job
  Url,          \* the URLs the site may list
  Position,     \* where sort | uniq puts each of them
  Name,         \* names of objects
  BaseName,     \* the name of a URL's object
  MaxRetries,   \* the number of retries of a run (20 in the code)
  MaxVersion,   \* bound: how often the content of the site changes
  MaxFaults     \* bound: faults of the network, the bucket and the pod

ASSUME UploadAssumption ==
  /\ Position \in [Url -> Nat]
  /\ \A u, v \in Url : Position[u] = Position[v] => u = v
  /\ BaseName \in [Url -> Name]
  /\ MaxRetries \in Nat
  /\ MaxVersion \in Nat
  /\ MaxFaults \in Nat

VARIABLES
  site,     \* the URLs on the site now, with the version of their content
  version,  \* how often the content changed
  bucket,   \* the objects, each with the URL and version it was read from
  run,      \* per pod, what it does
  output,   \* uploadOutput.json on the volume of the job
  faults

vars == <<site, version, bucket, run, output, faults>>

-----------------------------------------------------------------------------
Version == 0 .. MaxVersion
Content == [url : Url, version : Version]
Object == [name : Name, content : Content]

OnSite == {s.url : s \in site}
Names == {o.name : o \in bucket}

Output == [uploaded : SUBSET Url, skipped : SUBSET Url]

(* "spider" is init.sh, "list" waits for getFiles, "fetch" for the answer  *)
(* of the first URL to do, "stream" for the upload of its content, which   *)
(* is held in got, and "write" for the write of the output.  A run in      *)
(* "hang" waits for a promise that nothing will resolve.                   *)
RunState ==
  [pc : {"idle", "spider", "list", "fetch", "stream", "write", "hang"},
   found : SUBSET Url,
   todo : SUBSET Url,
   skipped : SUBSET Url,
   uploaded : SUBSET Url,
   got : SUBSET Content,
   retries : 0 .. MaxRetries]

Idle == [pc |-> "idle", found |-> {}, todo |-> {}, skipped |-> {},
         uploaded |-> {}, got |-> {}, retries |-> 0]

TypeOK ==
  /\ site \subseteq Content
  /\ version \in Version
  /\ bucket \subseteq Object
  /\ run \in [Run -> RunState]
  /\ output \in Output
  /\ faults \in 0 .. MaxFaults

Init ==
  /\ site \in {{[url |-> u, version |-> 0] : u \in S} : S \in SUBSET Url}
  /\ version = 0
  /\ bucket = {}
  /\ run = [r \in Run |-> Idle]
  /\ output = [uploaded |-> {}, skipped |-> {}]
  /\ faults = 0

-----------------------------------------------------------------------------
(* The environment *)

Fault == faults < MaxFaults /\ faults' = faults + 1

(* ECCC publishes an archive, or replaces its content.                     *)
Publish(u) ==
  /\ version < MaxVersion
  /\ version' = version + 1
  /\ site' = {s \in site : s.url # u} \cup {[url |-> u, version |-> version + 1]}
  /\ UNCHANGED <<bucket, run, output, faults>>

-----------------------------------------------------------------------------
(* A run *)

RunOnly == UNCHANGED <<site, version, bucket, output>>

(* The URL in hand: the first one of those that are left.                  *)
Current(r, u) ==
  /\ u \in run[r].todo
  /\ \A v \in run[r].todo : Position[u] <= Position[v]

(* Airflow triggers the cron job, or somebody does.                        *)
StartRun(r) ==
  /\ run[r].pc = "idle"
  /\ run' = [run EXCEPT ![r] = [Idle EXCEPT !.pc = "spider"]]
  /\ UNCHANGED faults
  /\ RunOnly

(* wget-spider: what it finds is on the site, all of it if nothing fails.  *)
(* upload.js starts with its own counter of retries at zero.               *)
Spider(r) ==
  /\ run[r].pc = "spider"
  /\ \E seen \in SUBSET OnSite :
       /\ seen # {}
       /\ IF seen = OnSite THEN UNCHANGED faults ELSE Fault
       /\ run' = [run EXCEPT ![r] = [Idle EXCEPT !.pc = "list", !.found = seen]]
  /\ RunOnly

(* Nothing was found: again, and exit 1 when that was the last try.        *)
SpiderFinds0(r) ==
  /\ run[r].pc = "spider"
  /\ IF OnSite = {} THEN UNCHANGED faults ELSE Fault
  /\ run' = [run EXCEPT ![r] =
       IF run[r].retries + 1 >= MaxRetries THEN Idle
       ELSE [run[r] EXCEPT !.retries = @ + 1]]
  /\ RunOnly

(* The URL in hand is done; the next one is asked for at once.             *)
Advance(s, u) ==
  [s EXCEPT !.todo = @ \ {u}, !.uploaded = @ \cup {u}, !.got = {},
            !.pc = IF s.todo = {u} THEN "write" ELSE "fetch"]

\* Mutant of List: nothing is skipped.
ListNothing(r) ==
  /\ run[r].pc = "list"
  /\ run' = [run EXCEPT ![r] =
       [run[r] EXCEPT !.todo = run[r].found, !.pc = "fetch"]]
  /\ UNCHANGED faults
  /\ RunOnly

(* getFiles, and the two filters.                                          *)
List(r) ==
  LET known == {u \in run[r].found : BaseName[u] \in Names} IN
  /\ run[r].pc = "list"
  /\ run' = [run EXCEPT ![r] =
       [run[r] EXCEPT !.todo = run[r].found \ known,
                      !.skipped = known,
                      !.pc = IF run[r].found = known THEN "write" ELSE "fetch"]]
  /\ UNCHANGED faults
  /\ RunOnly

(* Status 200: the content is piped to an object of the URL's name, which  *)
(* exists when the stream is finished.                                     *)
Fetch(r) ==
  /\ run[r].pc = "fetch"
  /\ \E s \in site :
       /\ Current(r, s.url)
       /\ run' = [run EXCEPT ![r] = [run[r] EXCEPT !.pc = "stream", !.got = {s}]]
  /\ UNCHANGED faults
  /\ RunOnly

\* Mutant of Reject: the retry takes the URL that comes next.
RejectAndSkip(r) ==
  /\ run[r].pc = "fetch"
  /\ run[r].retries < MaxRetries
  /\ Fault
  /\ \E u \in run[r].todo :
       /\ Current(r, u)
       /\ run' = [run EXCEPT ![r] = [Advance(run[r], u) EXCEPT !.retries = @ + 1]]
  /\ RunOnly

(* Another status: after two seconds the URL is asked for again, as long   *)
(* as the run has retries left.                                            *)
Reject(r) ==
  /\ run[r].pc = "fetch"
  /\ run[r].retries < MaxRetries
  /\ Fault
  /\ run' = [run EXCEPT ![r] = [run[r] EXCEPT !.retries = @ + 1]]
  /\ RunOnly

(* No retry is left: the promise is rejected, main logs the error, and the *)
(* pod succeeds without a new output.                                      *)
RejectForGood(r) ==
  /\ run[r].pc = "fetch"
  /\ run[r].retries = MaxRetries
  /\ Fault
  /\ run' = [run EXCEPT ![r] = Idle]
  /\ RunOnly

\* Mutant of Store: the promise is resolved before the stream is finished.
StoreEarly(r) ==
  /\ run[r].pc = "stream"
  /\ \E c \in run[r].got : run' = [run EXCEPT ![r] = Advance(run[r], c.url)]
  /\ UNCHANGED <<site, version, output, faults, bucket>>

(* The stream is finished: the object is there, in the place of one of the *)
(* same name.                                                              *)
Store(r) ==
  /\ run[r].pc = "stream"
  /\ \E c \in run[r].got :
       LET name == BaseName[c.url] IN
       /\ bucket' = {o \in bucket : o.name # name}
                      \cup {[name |-> name, content |-> c]}
       /\ run' = [run EXCEPT ![r] = Advance(run[r], c.url)]
  /\ UNCHANGED <<site, version, output, faults>>

\* Mutant of Write: the file is appended to, not replaced.
WriteMore(r) ==
  /\ run[r].pc = "write"
  /\ output' = [uploaded |-> output.uploaded \cup run[r].uploaded,
                skipped |-> output.skipped \cup run[r].skipped]
  /\ run' = [run EXCEPT ![r] = Idle]
  /\ UNCHANGED <<site, version, bucket, faults>>

(* Every URL is done: the output is written, and the pod succeeds.         *)
Write(r) ==
  /\ run[r].pc = "write"
  /\ output' = [uploaded |-> run[r].uploaded, skipped |-> run[r].skipped]
  /\ run' = [run EXCEPT ![r] = Idle]
  /\ UNCHANGED <<site, version, bucket, faults>>

(* An error of the listing, of the write stream or of writeFile is logged, *)
(* one of the connection is not handled, and the pod may be deleted: all   *)
(* end the run.                                                            *)
Crash(r) ==
  /\ run[r].pc \notin {"idle", "hang"}
  /\ Fault
  /\ run' = [run EXCEPT ![r] = Idle]
  /\ RunOnly

(* The answer stops coming, without an error: neither event of the write   *)
(* stream ever comes.                                                      *)
Stall(r) ==
  /\ run[r].pc \in {"fetch", "stream"}
  /\ Fault
  /\ run' = [run EXCEPT ![r] = [run[r] EXCEPT !.pc = "hang"]]
  /\ RunOnly

\* Mutant of Deadline: the job has no activeDeadlineSeconds.
DeadlineNone(r) == run[r].pc = "hang" /\ UNCHANGED vars

(* activeDeadlineSeconds of the job.                                       *)
Deadline(r) ==
  /\ run[r].pc = "hang"
  /\ run' = [run EXCEPT ![r] = Idle]
  /\ UNCHANGED faults
  /\ RunOnly

-----------------------------------------------------------------------------
RunStep(r) ==
  \/ Spider(r) \/ SpiderFinds0(r) \/ List(r) \/ Fetch(r) \/ Store(r) \/ Write(r)
  \/ Reject(r) \/ RejectForGood(r) \/ Deadline(r)

Next ==
  \/ \E u \in Url : Publish(u)
  \/ \E r \in Run : StartRun(r) \/ RunStep(r) \/ Crash(r) \/ Stall(r)

Spec == Init /\ [][Next]_vars

(* A pod runs on, and the DAG starts the job every day.                    *)
Fairness ==
  \A r \in Run : WF_vars(StartRun(r)) /\ WF_vars(RunStep(r))

FairSpec == Spec /\ Fairness

-----------------------------------------------------------------------------
(* Properties *)

(* Every URL a run found is, at any moment, exactly one of: skipped,       *)
(* uploaded, still to do; and what was skipped or uploaded has an object.  *)
(* No retry loses its URL, and none is reported before it is stored.       *)
RunsAccount ==
  \A r \in Run : run[r].pc \in {"fetch", "stream", "write"} =>
    /\ run[r].found = run[r].skipped \cup run[r].uploaded \cup run[r].todo
    /\ run[r].skipped \cap run[r].uploaded = {}
    /\ (run[r].skipped \cup run[r].uploaded) \cap run[r].todo = {}
    /\ \A u \in run[r].skipped \cup run[r].uploaded : BaseName[u] \in Names

(* The output is the one of a run that did all its work: its two lists are *)
(* disjoint, and each of their URLs has an object in the bucket, whatever  *)
(* happened to the runs after it.                                          *)
OutputIsTrue ==
  /\ output.uploaded \cap output.skipped = {}
  /\ \A u \in output.uploaded \cup output.skipped : BaseName[u] \in Names

(* An object that is there is never written again, also when its content   *)
(* changes on the site: the extraction jobs, which read an archive hours   *)
(* later, rely on it.  (It takes runs that do not overlap: both of two     *)
(* runs can find the name free.)                                           *)
WrittenOnce == [][bucket \subseteq bucket']_vars

(* What stays on the site gets to the bucket, and no run goes on for ever. *)
EachUrlIsUploaded ==
  \A u \in Url : u \in OnSite ~> BaseName[u] \in Names
RunsEnd == \A r \in Run : run[r].pc # "idle" ~> run[r].pc = "idle"
=============================================================================
