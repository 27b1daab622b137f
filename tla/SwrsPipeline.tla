---------------------------- MODULE SwrsPipeline ----------------------------
(***************************************************************************)
(* The DAGs that run the jobs: cas_ggircs_swrs_eccc fetches and extracts,  *)
(* every day, and triggers cas_ggircs_load_db, which loads and grants.     *)
(* Each job is a task that reads something when it starts and has an       *)
(* effect when it succeeds; what is inside the jobs is in EcccUpload,      *)
(* EcccExtract and SwrsLoad.  In Airflow each call of a @task function     *)
(* makes a task of its own: a function called twice in a DAG is two tasks. *)
(* (An instance that says nothing of grants can leave tasks of the load    *)
(* DAG out.)                                                               *)
(***************************************************************************)
EXTENDS Naturals, Sequences

CONSTANTS
  Archive,    \* the archives of the web site
  EcccRun,    \* runs of cas_ggircs_swrs_eccc that can be active together
  LoadRun,    \* runs of cas_ggircs_load_db that can be active together
  Deployed,   \* those that cas_ggircs_deploy_db, or somebody, may start
  Part,       \* the tasks of cas_ggircs_load_db that the instance has
  MaxFaults   \* bound: tasks that fail

EcccTask == {"upload", "zips", "zips__1", "zips__2", "xml", "attachments",
             "trigger"}
LoadTask == {"etl", "etl__1", "schema", "schema__1",
             "readonly", "app", "readonly__1", "app__1"}

EcccEdge == {<<"upload", "zips">>,
             <<"zips__1", "xml">>, <<"xml", "trigger">>,
             <<"zips__2", "attachments">>, <<"attachments", "trigger">>}
LoadEdge == {<<"etl", "readonly">>, <<"etl__1", "app">>,
             <<"schema", "readonly__1">>, <<"schema__1", "app__1">>}

ASSUME PipelineAssumption ==
  /\ EcccRun \cap LoadRun = {}
  /\ Deployed \subseteq LoadRun
  /\ Part \subseteq LoadTask
  /\ \A e \in LoadEdge : e[2] \in Part => e[1] \in Part
  /\ MaxFaults \in Nat

(* The tasks that read nothing another task writes: when they start makes  *)
(* no difference, so they start and succeed in one step.                   *)
Blind == {"schema", "schema__1", "readonly", "app", "readonly__1", "app__1"}

Run == EcccRun \cup LoadRun
Task == EcccTask \cup LoadTask
TasksOf(r) == IF r \in EcccRun THEN EcccTask ELSE Part

\* Mutant of Upstream: the trigger does not wait for the xml files.
UpstreamWithoutXml ==
  [t \in Task |-> {s \in Task : <<s, t>> \in (EcccEdge \cup LoadEdge)
                                              \ {<<"xml", "trigger">>}}]

Upstream == [t \in Task |-> {s \in Task : <<s, t>> \in EcccEdge \cup LoadEdge}]

VARIABLES
  site, bucket,  \* the archives on the web site, and in the bucket
  zipFile,       \* those registered in eccc_zip_file
  xml, attached, \* those whose xml files, whose attachments are extracted
  live,          \* those whose reports are in the schema swrs
  grants,        \* the users who may read the schema swrs
  active,        \* the DAG runs under way
  state,         \* per run and task
  input,         \* per run and running task, what it read when it started
  due,           \* history: per run, what is to be live after its load
  faults

data == <<site, bucket, zipFile, xml, attached, live, grants>>
vars == <<data, active, state, input, due, faults>>

TypeOK ==
  /\ site \subseteq Archive
  /\ bucket \subseteq site
  /\ zipFile \subseteq bucket
  /\ xml \subseteq zipFile /\ attached \subseteq zipFile
  /\ live \subseteq xml
  /\ grants \subseteq {"readonly", "app"}
  /\ active \subseteq Run
  /\ DOMAIN state = Run /\ DOMAIN input = Run
  /\ \A r \in Run :
       /\ state[r] \in [TasksOf(r) -> {"none", "running", "success", "failed"}]
       /\ input[r] \in [TasksOf(r) -> SUBSET Archive]
  /\ due \in [Run -> SUBSET Archive]
  /\ faults \in 0 .. MaxFaults

NoTask(r) == [t \in TasksOf(r) |-> "none"]
NoInput(r) == [t \in TasksOf(r) |-> {}]

Init ==
  /\ site = {} /\ bucket = {} /\ zipFile = {} /\ xml = {} /\ attached = {}
  /\ live = {}
  /\ grants = {}
  /\ active = {}
  /\ state = [r \in Run |-> NoTask(r)]
  /\ input = [r \in Run |-> NoInput(r)]
  /\ due = [r \in Run |-> {}]
  /\ faults = 0

-----------------------------------------------------------------------------
(* What the jobs do *)

Reads(t) ==
  CASE t = "upload" -> site
    [] t \in {"zips", "zips__1", "zips__2"} -> bucket
    [] t \in {"xml", "attachments"} -> zipFile
    [] t \in {"etl", "etl__1"} -> xml
    [] OTHER -> {}

(* The new schema has nobody's grants: clone_schema copies no privileges.  *)
(* What the load publishes is at least what was extracted when it began.   *)
Load(began) ==
  /\ \E seen \in SUBSET xml : began \subseteq seen /\ live' = seen
  /\ grants' = {}
  /\ UNCHANGED <<site, bucket, zipFile, xml, attached>>

(* The effect of a job that has done its work on the archives in done.     *)
Extraction(t, done) ==
  /\ bucket' = IF t = "upload" THEN bucket \cup done ELSE bucket
  /\ zipFile' = IF t \in {"zips", "zips__1", "zips__2"} THEN zipFile \cup done
                                                        ELSE zipFile
  /\ xml' = IF t = "xml" THEN xml \cup done ELSE xml
  /\ attached' = IF t = "attachments" THEN attached \cup done ELSE attached
  /\ UNCHANGED <<site, live, grants>>

Grant(user) ==
  /\ grants' = grants \cup {user}
  /\ UNCHANGED <<site, bucket, zipFile, xml, attached, live>>

\* Mutant of Effect: an etl job that deploys the schemas and does not load.
EffectWithoutLoad(t, read) ==
  \/ t \in {"readonly", "readonly__1"} /\ Grant("readonly")
  \/ t \in {"app", "app__1"} /\ Grant("app")
  \/ t \in EcccTask /\ Extraction(t, read)
  \/ t \in {"etl", "etl__1", "schema", "schema__1"} /\ UNCHANGED data

Effect(t, read) ==
  \/ t \in {"etl", "etl__1"} /\ Load(read)
  \/ t \in {"readonly", "readonly__1"} /\ Grant("readonly")
  \/ t \in {"app", "app__1"} /\ Grant("app")
  \/ t \in EcccTask /\ Extraction(t, read)
  \/ t \in {"schema", "schema__1"} /\ UNCHANGED data

-----------------------------------------------------------------------------
(* The environment *)

Publish(a) ==
  /\ a \notin site
  /\ site' = site \cup {a}
  /\ UNCHANGED <<bucket, zipFile, xml, attached, live, grants, active, state,
                 input, due, faults>>

(* The schedule, a deployment or somebody starts a run.                    *)
StartRun(r) ==
  /\ r \notin active
  /\ active' = active \cup {r}
  /\ UNCHANGED <<data, state, input, due, faults>>

-----------------------------------------------------------------------------
(* Airflow *)

Ready(r, t) ==
  /\ r \in active
  /\ t \in TasksOf(r)
  /\ state[r][t] = "none"
  /\ \A s \in Upstream[t] : state[r][s] = "success"

Start(r, t) ==
  /\ Ready(r, t)
  /\ t \notin Blind
  /\ state' = [state EXCEPT ![r] = [state[r] EXCEPT ![t] = "running"]]
  /\ input' = [input EXCEPT ![r] = [input[r] EXCEPT ![t] = Reads(t)]]
  /\ due' = IF t = "zips__1" THEN [due EXCEPT ![r] = bucket] ELSE due
  /\ UNCHANGED <<data, active, faults>>

Running(r, t) ==
  \/ state[r][t] = "running"
  \/ t \in Blind /\ Ready(r, t)

Succeed(r, t) ==
  /\ Running(r, t)
  /\ t # "trigger"
  /\ Effect(t, input[r][t])
  /\ state' = [state EXCEPT ![r] = [state[r] EXCEPT ![t] = "success"]]
  /\ input' = [input EXCEPT ![r] = [input[r] EXCEPT ![t] = {}]]
  /\ UNCHANGED <<active, due, faults>>

(* TriggerDagRunOperator starts a run of the load DAG and does not wait    *)
(* for it.  (A run that Airflow would queue waits here.)                   *)
Trigger(r, l) ==
  /\ state[r]["trigger"] = "running"
  /\ l \notin active
  /\ active' = active \cup {l}
  /\ state' = [state EXCEPT ![r] = [state[r] EXCEPT !["trigger"] = "success"]]
  /\ input' = [input EXCEPT ![r] = [input[r] EXCEPT !["trigger"] = {}]]
  /\ due' = [due EXCEPT ![l] = due[r]]
  /\ UNCHANGED <<data, faults>>

(* A job fails after it did some of its work; a load is rolled back.       *)
Fail(r, t) ==
  /\ Running(r, t)
  /\ faults < MaxFaults
  /\ faults' = faults + 1
  /\ IF t \in EcccTask
       THEN \E done \in SUBSET input[r][t] : Extraction(t, done)
       ELSE UNCHANGED data
  /\ state' = [state EXCEPT ![r] = [state[r] EXCEPT ![t] = "failed"]]
  /\ input' = [input EXCEPT ![r] = [input[r] EXCEPT ![t] = {}]]
  /\ UNCHANGED <<active, due>>

(* A run is over when nothing runs and nothing can start.                  *)
Over(r) ==
  /\ r \in active
  /\ \A t \in TasksOf(r) : state[r][t] # "running" /\ ~Ready(r, t)

End(r) ==
  /\ Over(r)
  /\ active' = active \ {r}
  /\ state' = [state EXCEPT ![r] = NoTask(r)]
  /\ input' = [input EXCEPT ![r] = NoInput(r)]
  /\ due' = [due EXCEPT ![r] = {}]
  /\ UNCHANGED <<data, faults>>

-----------------------------------------------------------------------------
RunStep(r) ==
  \/ \E t \in TasksOf(r) : Start(r, t) \/ Succeed(r, t)
  \/ r \in EcccRun /\ \E l \in LoadRun : Trigger(r, l)
  \/ End(r)

Next ==
  \/ \E a \in Archive : Publish(a)
  \/ \E r \in EcccRun \cup Deployed : StartRun(r)
  \/ \E r \in Run : RunStep(r)
  \/ \E r \in Run : \E t \in TasksOf(r) : Fail(r, t)

Spec == Init /\ [][Next]_vars

(* The fetch runs every day; a task that can run is run, and a job ends.   *)
(* Airflow starts a triggered run when an earlier one makes room for it.   *)
Fairness ==
  /\ \A r \in EcccRun : WF_vars(StartRun(r)) /\ SF_vars(RunStep(r))
  /\ \A r \in LoadRun : WF_vars(RunStep(r))

FairSpec == Spec /\ Fairness

-----------------------------------------------------------------------------
(* Properties *)

(* What was in the bucket when a run registered the archives is live after *)
(* each of the loads the run triggered: four jobs later, each of which     *)
(* read what there was when it started, with anything else in between.     *)
LoadPublishesItsRun ==
  [][\A l \in LoadRun, t \in Part \cap {"etl", "etl__1"} :
       Succeed(l, t) => due[l] \subseteq live']_vars

(* An archive the site has goes live, although the extraction does not     *)
(* wait for the upload and tasks fail: a later run takes it.               *)
EachArchiveGoesLive == \A a \in Archive : a \in site ~> a \in live

(* ggircs_etl() >> ggircs_read_only_user() and >> ggircs_app_user(), says  *)
(* the load DAG: after a run in which every task succeeded, and while no   *)
(* other run is under way, both users may read the schema.                 *)
UsersMayRead ==
  \A l \in LoadRun :
    active = {l} /\ (\A t \in TasksOf(l) : state[l][t] = "success") =>
      grants = {"readonly", "app"}
=============================================================================
