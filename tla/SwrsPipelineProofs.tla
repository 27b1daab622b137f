------------------------- MODULE SwrsPipelineProofs -------------------------
(***************************************************************************)
(* Proofs about the DAGs, for any number of archives, of runs of each DAG  *)
(* at the same time, and of tasks that fail.  Archives are only ever added *)
(* to the bucket and to the tables, so what a task read when it started is *)
(* still there when it has its effect; and what is due moves along the     *)
(* edges of the DAG: read by zips__1, registered, read by xml, extracted,  *)
(* handed over by the trigger, and read by the load.                       *)
(***************************************************************************)
EXTENDS SwrsPipeline, TLAPS

(* What a running task has read is still there.                            *)
InputsStay == \A r \in Run : \A t \in TasksOf(r) : input[r][t] \subseteq Reads(t)

(* Only active runs have tasks.                                            *)
Inactive == \A r \in Run \ active : state[r] = NoTask(r)

(* Where the archives that are due are while a run of the fetch DAG goes   *)
(* on, and while a run of the load DAG does.                               *)
FetchDue(r) ==
  /\ state[r]["zips__1"] = "running" => due[r] \subseteq input[r]["zips__1"]
  /\ state[r]["zips__1"] = "success" => due[r] \subseteq zipFile
  /\ state[r]["xml"] # "none" => state[r]["zips__1"] = "success"
  /\ state[r]["xml"] = "running" => due[r] \subseteq input[r]["xml"]
  /\ state[r]["xml"] = "success" => due[r] \subseteq xml
  /\ state[r]["trigger"] = "running" => state[r]["xml"] = "success"

LoadDue(l) ==
  /\ due[l] \subseteq xml
  /\ \A t \in Part \cap {"etl", "etl__1"} :
       state[l][t] = "running" => due[l] \subseteq input[l][t]

DueInFetch == \A r \in EcccRun : FetchDue(r)
DueInLoad == \A l \in LoadRun : LoadDue(l)

Inv == TypeOK /\ InputsStay /\ Inactive /\ DueInFetch /\ DueInLoad

-----------------------------------------------------------------------------
LEMMA Tasks ==
  /\ EcccRun \subseteq Run /\ LoadRun \subseteq Run
  /\ \A r \in EcccRun : TasksOf(r) = EcccTask
  /\ \A l \in LoadRun : TasksOf(l) = Part
  /\ \A r \in Run : TasksOf(r) \subseteq Task
  BY PipelineAssumption DEF Run, TasksOf, Task

LEMMA Edges ==
  "zips__1" \in Upstream["xml"] /\ "xml" \in Upstream["trigger"]
  BY DEF Upstream, Task, EcccTask, EcccEdge

LEMMA InitHolds == Init => Inv
<1> SUFFICES ASSUME Init PROVE Inv
  OBVIOUS
<1>1. TypeOK
  BY PipelineAssumption DEF Init, TypeOK, NoTask, NoInput
<1>2. InputsStay
  BY DEF Init, InputsStay, NoInput
<1>3. \A r \in Run : \A t \in TasksOf(r) : state[r][t] = "none"
  BY DEF Init, NoTask
<1>4. DueInFetch
  BY <1>3, Tasks DEF DueInFetch, FetchDue, EcccTask
<1>5. DueInLoad
  BY <1>3, Tasks DEF DueInLoad, LoadDue, Init
<1> QED BY <1>1, <1>2, <1>4, <1>5 DEF Init, Inv, Inactive

-----------------------------------------------------------------------------
(* Nothing is taken away from what the tasks read.                         *)
Grows ==
  /\ site \subseteq site' /\ bucket \subseteq bucket'
  /\ zipFile \subseteq zipFile' /\ xml \subseteq xml'

DataOK ==
  /\ site \subseteq Archive
  /\ bucket \subseteq site
  /\ zipFile \subseteq bucket
  /\ xml \subseteq zipFile /\ attached \subseteq zipFile
  /\ live \subseteq xml
  /\ grants \subseteq {"readonly", "app"}

LEMMA ReadsGrow ==
  ASSUME Grows, NEW t
  PROVE  Reads(t) \subseteq Reads(t)'
  BY DEF Grows, Reads

(* An extraction adds only what was there to be extracted.                 *)
LEMMA ExtractionAdds ==
  ASSUME DataOK, NEW t \in EcccTask, NEW done, done \subseteq Reads(t),
         Extraction(t, done)
  PROVE  Grows /\ DataOK'
<1>1. CASE t = "upload"
  BY <1>1 DEF DataOK, Reads, Extraction, Grows
<1>2. CASE t \in {"zips", "zips__1", "zips__2"}
  BY <1>2 DEF DataOK, Reads, Extraction, Grows
<1>3. CASE t = "xml"
  BY <1>3 DEF DataOK, Reads, Extraction, Grows
<1>4. CASE t = "attachments"
  BY <1>4 DEF DataOK, Reads, Extraction, Grows
<1>5. CASE t = "trigger"
  BY <1>5 DEF DataOK, Extraction, Grows
<1> QED BY <1>1, <1>2, <1>3, <1>4, <1>5 DEF EcccTask

LEMMA EffectAdds ==
  ASSUME DataOK, NEW t, NEW read, read \subseteq Reads(t), Effect(t, read)
  PROVE  Grows /\ DataOK'
<1>1. CASE t \in {"etl", "etl__1"} /\ Load(read)
  BY <1>1 DEF Load, DataOK, Grows
<1>2. ASSUME NEW user \in {"readonly", "app"}, Grant(user) PROVE Grows /\ DataOK'
  BY <1>2 DEF Grant, DataOK, Grows
<1>3. CASE t \in EcccTask /\ Extraction(t, read)
  BY <1>3, ExtractionAdds
<1>4. CASE UNCHANGED data
  BY <1>4 DEF data, DataOK, Grows
<1> QED BY <1>1, <1>2, <1>3, <1>4 DEF Effect

-----------------------------------------------------------------------------
(* What a step on one task of one run does to the tasks.                   *)
Status == {"none", "running", "success", "failed"}

TasksOK ==
  /\ DOMAIN state = Run /\ DOMAIN input = Run
  /\ \A r \in Run :
       /\ state[r] \in [TasksOf(r) -> Status]
       /\ input[r] \in [TasksOf(r) -> SUBSET Archive]

LEMMA TypeParts ==
  TypeOK <=> /\ DataOK /\ active \subseteq Run /\ TasksOK
             /\ due \in [Run -> SUBSET Archive] /\ faults \in 0 .. MaxFaults
  BY DEF TypeOK, DataOK, TasksOK, Status

TaskStep(r, t, v, read) ==
  /\ state' = [state EXCEPT ![r] = [state[r] EXCEPT ![t] = v]]
  /\ input' = [input EXCEPT ![r] = [input[r] EXCEPT ![t] = read]]

LEMMA OneTask ==
  ASSUME TasksOK, NEW r \in Run, NEW t \in TasksOf(r), NEW v \in Status,
         NEW read \in SUBSET Archive, TaskStep(r, t, v, read)
  PROVE  /\ TasksOK'
         /\ \A q \in Run : q # r => state'[q] = state[q] /\ input'[q] = input[q]
         /\ \A u \in TasksOf(r) :
              /\ state'[r][u] = IF u = t THEN v ELSE state[r][u]
              /\ input'[r][u] = IF u = t THEN read ELSE input[r][u]
<1>1. /\ state'[r] = [state[r] EXCEPT ![t] = v]
      /\ input'[r] = [input[r] EXCEPT ![t] = read]
      /\ DOMAIN state' = Run /\ DOMAIN input' = Run
  BY DEF TasksOK, TaskStep
<1>2. \A q \in Run : q # r => state'[q] = state[q] /\ input'[q] = input[q]
  BY DEF TasksOK, TaskStep
<1>3. \A u \in TasksOf(r) :
        /\ state'[r][u] = IF u = t THEN v ELSE state[r][u]
        /\ input'[r][u] = IF u = t THEN read ELSE input[r][u]
  BY <1>1 DEF TasksOK
<1>4. /\ state'[r] \in [TasksOf(r) -> Status]
      /\ input'[r] \in [TasksOf(r) -> SUBSET Archive]
  BY <1>1 DEF TasksOK
<1> QED BY <1>1, <1>2, <1>3, <1>4 DEF TasksOK

LEMMA OnlyActiveRuns ==
  ASSUME Inactive, NEW r \in Run, NEW t \in TasksOf(r), state[r][t] # "none"
  PROVE  r \in active
  BY DEF Inactive, NoTask

LEMMA RunningIsActive ==
  ASSUME Inactive, NEW r \in Run, NEW t \in TasksOf(r), Running(r, t)
  PROVE  r \in active
  BY OnlyActiveRuns DEF Running, Ready

(* The parts of the invariant that every step on a task keeps.             *)
LEMMA TaskStepKeeps ==
  ASSUME TasksOK, InputsStay, Inactive, Grows,
         NEW r \in active, active \subseteq Run, active \subseteq active',
         NEW t \in TasksOf(r), NEW v \in Status,
         NEW read \in SUBSET Archive, read \subseteq Reads(t)',
         TaskStep(r, t, v, read)
  PROVE  TasksOK' /\ InputsStay' /\ Inactive'
<1> r \in Run
  OBVIOUS
<1>1. TasksOK'
  BY OneTask
<1>2. InputsStay'
  <2> SUFFICES ASSUME NEW q \in Run, NEW u \in TasksOf(q)
               PROVE  input'[q][u] \subseteq Reads(u)'
    BY DEF InputsStay
  <2>1. input[q][u] \subseteq Reads(u)'
    BY ReadsGrow DEF InputsStay
  <2>2. CASE q = r
    BY <2>1, <2>2, OneTask
  <2>3. CASE q # r
    BY <2>1, <2>3, OneTask
  <2> QED BY <2>2, <2>3
<1>3. Inactive'
  BY OneTask DEF Inactive, NoTask
<1> QED BY <1>1, <1>2, <1>3

-----------------------------------------------------------------------------
(* Where what is due is, when neither the tasks nor what is due change.    *)
LEMMA FetchKeeps ==
  ASSUME DueInFetch, Grows, NEW r \in EcccRun,
         state'[r] = state[r], input'[r] = input[r], due'[r] = due[r]
  PROVE  FetchDue(r)'
  BY DEF DueInFetch, FetchDue, Grows

LEMMA LoadKeeps ==
  ASSUME DueInLoad, Grows, NEW l \in LoadRun,
         state'[l] = state[l], input'[l] = input[l], due'[l] = due[l]
  PROVE  LoadDue(l)'
  BY DEF DueInLoad, LoadDue, Grows

LEMMA StartKeeps ==
  ASSUME Inv, NEW r \in Run, NEW t \in TasksOf(r), Start(r, t)
  PROVE  Inv'
<1> USE DEF Inv
<1>1. DataOK /\ TasksOK /\ active \subseteq Run
  BY TypeParts
<1>2. r \in active /\ TaskStep(r, t, "running", Reads(t)) /\ UNCHANGED data
  BY DEF Start, Ready, TaskStep
<1>3. Grows /\ DataOK'
  BY <1>1, <1>2 DEF Grows, DataOK, data
<1>4. Reads(t) \in SUBSET Archive /\ Reads(t) \subseteq Reads(t)'
  <2>1. Reads(t) \in SUBSET Archive
    BY <1>1 DEF Reads, DataOK
  <2> QED BY <2>1, <1>3, ReadsGrow
<1>5. TasksOK' /\ InputsStay' /\ Inactive'
  <2>1. active \subseteq active' /\ "running" \in Status
    BY DEF Start, Status
  <2> QED BY <1>1, <1>2, <1>3, <1>4, <2>1, TaskStepKeeps
<1>6. TypeOK'
  <2>1. due' \in [Run -> SUBSET Archive]
    BY <1>1, TypeParts DEF Start, DataOK
  <2>2. active' \subseteq Run /\ faults' \in 0 .. MaxFaults
    BY <1>1, TypeParts DEF Start
  <2> QED BY <1>3, <1>5, <2>1, <2>2 DEF TypeOK, DataOK, TasksOK, Status
<1>7. /\ \A q \in Run : q # r => /\ state'[q] = state[q] /\ input'[q] = input[q]
                                /\ due'[q] = due[q]
      /\ \A u \in TasksOf(r) :
           /\ state'[r][u] = IF u = t THEN "running" ELSE state[r][u]
           /\ input'[r][u] = IF u = t THEN Reads(t) ELSE input[r][u]
      /\ due'[r] = IF t = "zips__1" THEN bucket ELSE due[r]
      /\ state[r][t] = "none" /\ \A s \in Upstream[t] : state[r][s] = "success"
  <2>1. "running" \in Status
    BY DEF Status
  <2>2. due \in [Run -> SUBSET Archive]
    BY TypeParts
  <2> QED BY <1>1, <1>2, <1>4, <2>1, <2>2, OneTask DEF Start, Ready
<1>8. DueInFetch'
  <2> SUFFICES ASSUME NEW q \in EcccRun PROVE FetchDue(q)'
    BY DEF DueInFetch
  <2>1. q \in Run
    BY Tasks
  <2>2. CASE q # r
    BY <2>1, <2>2, <1>3, <1>7, FetchKeeps
  <2>3. CASE q = r
    <3>1. {"zips__1", "xml", "trigger"} \subseteq TasksOf(r)
      BY <2>3, Tasks DEF EcccTask
    <3>2. CASE t = "zips__1"
      BY <3>1, <3>2, <2>3, <1>7 DEF DueInFetch, FetchDue, Reads
    <3>3. CASE t = "xml"
      BY <3>1, <3>3, <2>3, <1>7, <1>3, Edges DEF DueInFetch, FetchDue, Reads, Grows
    <3>4. CASE t = "trigger"
      BY <3>1, <3>4, <2>3, <1>7, <1>3, Edges DEF DueInFetch, FetchDue, Grows
    <3>5. CASE t \notin {"zips__1", "xml", "trigger"}
      BY <3>1, <3>5, <2>3, <1>7, <1>3 DEF DueInFetch, FetchDue, Grows
    <3> QED BY <3>2, <3>3, <3>4, <3>5
  <2> QED BY <2>2, <2>3
<1>9. DueInLoad'
  <2> SUFFICES ASSUME NEW l \in LoadRun PROVE LoadDue(l)'
    BY DEF DueInLoad
  <2>1. l \in Run
    BY Tasks
  <2>2. CASE l # r
    BY <2>1, <2>2, <1>3, <1>7, LoadKeeps
  <2>3. CASE l = r
    <3>1. TasksOf(r) = Part /\ "zips__1" \notin Part
      BY <2>3, Tasks, PipelineAssumption DEF LoadTask
    <3>2. due'[l] = due[l] /\ due[l] \subseteq xml /\ xml \subseteq xml'
      BY <3>1, <2>3, <1>7, <1>3 DEF DueInLoad, LoadDue, Grows
    <3>3. ASSUME NEW u \in Part \cap {"etl", "etl__1"}, state'[l][u] = "running"
          PROVE  due'[l] \subseteq input'[l][u]
      <4>1. CASE u = t
        BY <4>1, <3>1, <3>2, <2>3, <1>7 DEF Reads
      <4>2. CASE u # t
        BY <4>2, <3>1, <3>2, <3>3, <2>3, <1>7 DEF DueInLoad, LoadDue
      <4> QED BY <4>1, <4>2
    <3> QED BY <3>2, <3>3 DEF LoadDue
  <2> QED BY <2>2, <2>3
<1> QED BY <1>5, <1>6, <1>8, <1>9
(* The end of a task, whether its job did its work or failed.              *)
LEMMA DoneKeeps ==
  ASSUME Inv, NEW r \in active, NEW t \in TasksOf(r), NEW v \in {"success", "failed"},
         TaskStep(r, t, v, {}), Grows, DataOK', UNCHANGED <<active, due>>,
         faults' \in 0 .. MaxFaults,
         state[r][t] = "running" \/ t \in Blind,
         v = "success" /\ t = "zips__1" => input[r][t] \subseteq zipFile',
         v = "success" /\ t = "xml" => input[r][t] \subseteq xml'
  PROVE  Inv'
<1> USE DEF Inv
<1>1. DataOK /\ TasksOK /\ active \subseteq Run /\ r \in Run
  BY TypeParts
<1>2. v \in Status /\ {} \in SUBSET Archive
  BY DEF Status
<1>3. TasksOK' /\ InputsStay' /\ Inactive'
  BY <1>1, <1>2, TaskStepKeeps
<1>4. TypeOK'
  BY <1>3, TypeParts DEF TypeOK, DataOK, TasksOK, Status
<1>5. /\ \A q \in Run : q # r => state'[q] = state[q] /\ input'[q] = input[q]
      /\ \A u \in TasksOf(r) :
           /\ state'[r][u] = IF u = t THEN v ELSE state[r][u]
           /\ input'[r][u] = IF u = t THEN {} ELSE input[r][u]
      /\ due' = due
  BY <1>1, <1>2, OneTask
<1>6. DueInFetch'
  <2> SUFFICES ASSUME NEW q \in EcccRun PROVE FetchDue(q)'
    BY DEF DueInFetch
  <2>1. q \in Run
    BY Tasks
  <2>2. CASE q # r
    BY <2>1, <2>2, <1>5, FetchKeeps
  <2>3. CASE q = r
    <3>1. {"zips__1", "xml", "trigger"} \subseteq TasksOf(r)
      BY <2>3, Tasks DEF EcccTask
    <3>2. CASE t = "zips__1"
      BY <3>1, <3>2, <2>3, <1>5 DEF DueInFetch, FetchDue, Grows, Blind
    <3>3. CASE t = "xml"
      BY <3>1, <3>3, <2>3, <1>5 DEF DueInFetch, FetchDue, Grows, Blind
    <3>4. CASE t \notin {"zips__1", "xml"}
      BY <3>1, <3>4, <2>3, <1>5 DEF DueInFetch, FetchDue, Grows
    <3> QED BY <3>2, <3>3, <3>4
  <2> QED BY <2>2, <2>3
<1>7. DueInLoad'
  <2> SUFFICES ASSUME NEW l \in LoadRun PROVE LoadDue(l)'
    BY DEF DueInLoad
  <2>1. l \in Run /\ TasksOf(l) = Part
    BY Tasks
  <2>2. CASE l # r
    BY <2>1, <2>2, <1>5, LoadKeeps
  <2>3. CASE l = r
    BY <2>1, <2>3, <1>5 DEF DueInLoad, LoadDue, Grows
  <2> QED BY <2>2, <2>3
<1> QED BY <1>3, <1>4, <1>6, <1>7

LEMMA SucceedKeeps ==
  ASSUME Inv, NEW r \in Run, NEW t \in TasksOf(r), Succeed(r, t)
  PROVE  Inv'
<1>1. r \in active /\ (state[r][t] = "running" \/ t \in Blind)
  BY RunningIsActive DEF Inv, Succeed, Running
<1>2. TaskStep(r, t, "success", {}) /\ UNCHANGED <<active, due>> /\ Effect(t, input[r][t])
  BY DEF Succeed, TaskStep
<1>3. faults' \in 0 .. MaxFaults
  BY DEF Succeed, Inv, TypeOK
<1>4. Grows /\ DataOK'
  BY <1>2, EffectAdds, TypeParts DEF Inv, InputsStay
<1>5. /\ t = "zips__1" => input[r][t] \subseteq zipFile'
      /\ t = "xml" => input[r][t] \subseteq xml'
  BY <1>2 DEF Effect, Extraction
<1> QED BY <1>1, <1>2, <1>3, <1>4, <1>5, DoneKeeps

LEMMA FailKeeps ==
  ASSUME Inv, NEW r \in Run, NEW t \in TasksOf(r), Fail(r, t)
  PROVE  Inv'
<1>1. r \in active /\ (state[r][t] = "running" \/ t \in Blind)
  BY RunningIsActive DEF Inv, Fail, Running
<1>2. TaskStep(r, t, "failed", {}) /\ UNCHANGED <<active, due>>
  BY DEF Fail, TaskStep
<1>3. faults' \in 0 .. MaxFaults
  BY PipelineAssumption DEF Fail, Inv, TypeOK
<1>4. Grows /\ DataOK'
  <2>1. CASE t \in EcccTask
    BY <2>1, ExtractionAdds, TypeParts DEF Fail, Inv, InputsStay
  <2>2. CASE t \notin EcccTask
    BY <2>2, TypeParts DEF Fail, Inv, data, DataOK, Grows
  <2> QED BY <2>1, <2>2
<1> QED BY <1>1, <1>2, <1>3, <1>4, DoneKeeps

LEMMA TriggerKeeps ==
  ASSUME Inv, NEW r \in EcccRun, NEW l \in LoadRun, Trigger(r, l)
  PROVE  Inv'
<1> USE DEF Inv
<1>1. DataOK /\ TasksOK /\ active \subseteq Run
  BY TypeParts
<1>2. r \in Run /\ l \in Run /\ r # l /\ "trigger" \in TasksOf(r)
  BY Tasks, PipelineAssumption DEF EcccTask
<1>3. r \in active
  BY <1>2, OnlyActiveRuns DEF Trigger
<1>4. TaskStep(r, "trigger", "success", {}) /\ "success" \in Status
  BY DEF Trigger, TaskStep, Status
<1>5. Grows /\ DataOK'
  BY <1>1 DEF Trigger, data, Grows, DataOK
<1>6. active' = active \cup {l} /\ due' = [due EXCEPT ![l] = due[r]]
  BY DEF Trigger
<1>7. TasksOK' /\ InputsStay' /\ Inactive'
  BY <1>1, <1>2, <1>3, <1>4, <1>5, <1>6, TaskStepKeeps
<1>8. TypeOK'
  <2>1. due' \in [Run -> SUBSET Archive] /\ active' \subseteq Run
    BY <1>1, <1>2, <1>6, TypeParts
  <2>2. faults' \in 0 .. MaxFaults
    BY TypeParts DEF Trigger
  <2> QED BY <2>1, <2>2, <1>5, <1>7 DEF TypeOK, DataOK, TasksOK, Status
<1>9. /\ \A q \in Run : q # r => state'[q] = state[q] /\ input'[q] = input[q]
      /\ \A u \in TasksOf(r) :
           /\ state'[r][u] = IF u = "trigger" THEN "success" ELSE state[r][u]
           /\ input'[r][u] = IF u = "trigger" THEN {} ELSE input[r][u]
      /\ \A q \in Run : due'[q] = IF q = l THEN due[r] ELSE due[q]
  <2>1. \A q \in Run : due'[q] = IF q = l THEN due[r] ELSE due[q]
    BY <1>6, TypeParts
  <2> QED BY <2>1, <1>1, <1>2, <1>4, OneTask
<1>10. DueInFetch'
  <2> SUFFICES ASSUME NEW q \in EcccRun PROVE FetchDue(q)'
    BY DEF DueInFetch
  <2>1. q \in Run /\ q # l
    BY Tasks, PipelineAssumption
  <2>2. CASE q # r
    BY <2>1, <2>2, <1>5, <1>9, FetchKeeps
  <2>3. CASE q = r
    <3>1. {"zips__1", "xml", "trigger"} \subseteq TasksOf(r)
      BY Tasks DEF EcccTask
    <3> QED BY <3>1, <2>1, <2>3, <1>5, <1>9 DEF DueInFetch, FetchDue, Grows
  <2> QED BY <2>2, <2>3
<1>11. DueInLoad'
  <2> SUFFICES ASSUME NEW q \in LoadRun PROVE LoadDue(q)'
    BY DEF DueInLoad
  <2>1. q \in Run /\ q # r
    BY Tasks, PipelineAssumption
  <2>2. CASE q # l
    BY <2>1, <2>2, <1>5, <1>9, LoadKeeps
  <2>3. CASE q = l
    <3>1. state'[l] = NoTask(l)
      BY <1>2, <1>9 DEF Inactive, Trigger
    <3>2. \A u \in Part : state'[l][u] = "none"
      BY <3>1, Tasks DEF NoTask
    <3>3. due'[l] \subseteq xml'
      BY <1>2, <1>5, <1>9 DEF DueInFetch, FetchDue, Trigger, Grows
    <3> QED BY <2>3, <3>2, <3>3 DEF LoadDue
  <2> QED BY <2>2, <2>3
<1> QED BY <1>7, <1>8, <1>10, <1>11

LEMMA EndKeeps ==
  ASSUME Inv, NEW r \in Run, End(r)
  PROVE  Inv'
<1> USE DEF Inv
<1>1. DataOK /\ TasksOK /\ active \subseteq Run
  BY TypeParts
<1>2. Grows /\ DataOK'
  BY <1>1 DEF End, data, Grows, DataOK
<1>3. /\ \A q \in Run : q # r => /\ state'[q] = state[q] /\ input'[q] = input[q]
                                /\ due'[q] = due[q]
      /\ state'[r] = NoTask(r) /\ input'[r] = NoInput(r) /\ due'[r] = {}
      /\ DOMAIN state' = Run /\ DOMAIN input' = Run
  BY <1>1, TypeParts DEF End, TasksOK
<1>4. TasksOK'
  BY <1>1, <1>3 DEF TasksOK, NoTask, NoInput, Status
<1>5. TypeOK'
  <2>1. due' \in [Run -> SUBSET Archive]
    BY TypeParts DEF End
  <2>2. active' \subseteq Run /\ faults' \in 0 .. MaxFaults
    BY <1>1, TypeParts DEF End
  <2> QED BY <1>2, <1>4, <2>1, <2>2 DEF TypeOK, DataOK, TasksOK, Status
<1>6. InputsStay'
  <2> SUFFICES ASSUME NEW q \in Run, NEW u \in TasksOf(q)
               PROVE  input'[q][u] \subseteq Reads(u)'
    BY DEF InputsStay
  <2>1. CASE q = r
    BY <2>1, <1>3 DEF NoInput
  <2>2. CASE q # r
    BY <2>2, <1>2, <1>3, ReadsGrow DEF InputsStay
  <2> QED BY <2>1, <2>2
<1>7. Inactive'
  BY <1>1, <1>3 DEF Inactive, End, NoTask
<1>8. \A u \in TasksOf(r) : state'[r][u] = "none"
  BY <1>3 DEF NoTask
<1>9. DueInFetch'
  <2> SUFFICES ASSUME NEW q \in EcccRun PROVE FetchDue(q)'
    BY DEF DueInFetch
  <2>1. CASE q # r
    BY <2>1, <1>2, <1>3, Tasks, FetchKeeps
  <2>2. CASE q = r
    BY <2>2, <1>8, Tasks DEF FetchDue, EcccTask
  <2> QED BY <2>1, <2>2
<1>10. DueInLoad'
  <2> SUFFICES ASSUME NEW q \in LoadRun PROVE LoadDue(q)'
    BY DEF DueInLoad
  <2>1. CASE q # r
    BY <2>1, <1>2, <1>3, Tasks, LoadKeeps
  <2>2. CASE q = r
    BY <2>2, <1>3, <1>8, Tasks DEF LoadDue
  <2> QED BY <2>1, <2>2
<1> QED BY <1>5, <1>6, <1>7, <1>9, <1>10

(* The steps that change no task.                                          *)
LEMMA QuietKeeps ==
  ASSUME Inv, Grows, DataOK', active' \subseteq Run, active \subseteq active',
         UNCHANGED <<state, input, due, faults>>
  PROVE  Inv'
<1> USE DEF Inv
<1>1. TypeOK'
  BY DEF TypeOK, DataOK
<1>2. InputsStay'
  BY ReadsGrow DEF InputsStay
<1>3. Inactive'
  BY DEF Inactive, NoTask
<1>4. DueInFetch'
  BY FetchKeeps DEF DueInFetch
<1>5. DueInLoad'
  BY LoadKeeps DEF DueInLoad
<1> QED BY <1>1, <1>2, <1>3, <1>4, <1>5

LEMMA StepKeeps == Inv /\ [Next]_vars => Inv'
<1> SUFFICES ASSUME Inv, [Next]_vars PROVE Inv'
  OBVIOUS
<1>1. DataOK /\ active \subseteq Run
  BY TypeParts DEF Inv
<1>2. ASSUME NEW a \in Archive, Publish(a) PROVE Inv'
  <2>1. Grows /\ DataOK' /\ active' = active
    BY <1>1, <1>2 DEF Publish, Grows, DataOK
  <2>2. UNCHANGED <<state, input, due, faults>>
    BY <1>2 DEF Publish
  <2> QED BY <1>1, <2>1, <2>2, QuietKeeps
<1>3. ASSUME NEW r \in EcccRun \cup Deployed, StartRun(r) PROVE Inv'
  <2>1. Grows /\ DataOK' /\ active' = active \cup {r} /\ r \in Run
    BY <1>1, <1>3, PipelineAssumption DEF StartRun, Grows, DataOK, data, Run
  <2>2. UNCHANGED <<state, input, due, faults>>
    BY <1>3 DEF StartRun
  <2> QED BY <1>1, <2>1, <2>2, QuietKeeps
<1>4. ASSUME NEW r \in Run, RunStep(r) PROVE Inv'
  BY <1>4, StartKeeps, SucceedKeeps, TriggerKeeps, EndKeeps DEF RunStep
<1>5. ASSUME NEW r \in Run, NEW t \in TasksOf(r), Fail(r, t) PROVE Inv'
  BY <1>5, FailKeeps
<1>6. CASE UNCHANGED vars
  <2>1. Grows /\ DataOK' /\ active' = active /\ UNCHANGED <<state, input, due, faults>>
    BY <1>1, <1>6 DEF vars, data, Grows, DataOK
  <2> QED BY <1>1, <2>1, QuietKeeps
<1> QED BY <1>2, <1>3, <1>4, <1>5, <1>6 DEF Next

(* The types, among them the order the tables are filled in: what is live  *)
(* was extracted, what was extracted is registered, what is registered is  *)
(* in the bucket, and what is in the bucket was on the web site; through   *)
(* the jobs of cas_ggircs_swrs_eccc and cas_ggircs_load_db.                *)
THEOREM TypeCorrect == Spec => []TypeOK
<1>1. Inv => TypeOK
  BY DEF Inv
<1> QED BY <1>1, InitHolds, StepKeeps, PTL DEF Spec

LEMMA LoadsWhatIsDue ==
  ASSUME Inv, NEW l \in LoadRun, NEW t \in Part \cap {"etl", "etl__1"}, Succeed(l, t)
  PROVE  due[l] \subseteq live'
<1>1. state[l][t] = "running"
  BY DEF Succeed, Running, Blind
<1>2. due[l] \subseteq input[l][t]
  BY <1>1 DEF Inv, DueInLoad, LoadDue
<1>3. Load(input[l][t])
  BY DEF Succeed, Effect, EcccTask
<1> QED BY <1>2, <1>3 DEF Load

(* Each load that a run of the fetch DAG triggers publishes every archive  *)
(* that was in the bucket when that run registered the archives, whatever  *)
(* other runs did and whichever of their tasks failed meanwhile:           *)
(* zips__1 >> xml >> trigger in src/dags/cas_ggircs_swrs_dags.py is what   *)
(* makes it so.                                                            *)
THEOREM EachLoadPublishesItsRun == Spec => LoadPublishesItsRun
<1> DEFINE Published ==
      \A l \in LoadRun, t \in Part \cap {"etl", "etl__1"} :
        Succeed(l, t) => due[l] \subseteq live'
<1>1. Inv /\ [Next]_vars => [Published]_vars
  BY LoadsWhatIsDue
<1> QED BY <1>1, InitHolds, StepKeeps, PTL DEF Spec, LoadPublishesItsRun
=============================================================================
