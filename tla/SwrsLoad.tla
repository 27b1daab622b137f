------------------------------ MODULE SwrsLoad ------------------------------
(***************************************************************************)
(* swrs_transform.load(), the function that rebuilds the live schemas swrs *)
(* and swrs_history from the extracted files, among everything that runs   *)
(* at the same time: the extraction jobs, other runs of load() (the load   *)
(* DAG starts two), people who edit the fuel mappings in the application,  *)
(* and requests that read several tables.                                  *)
(*                                                                         *)
(* load() is one transaction at the isolation level read committed: each   *)
(* statement reads what is committed when it starts, nobody sees what the  *)
(* transaction wrote before it commits, and what keeps it apart from the   *)
(* others is the table locks its statements take and hold to the end.      *)
(* Those locks are PostgreSQL's: which statement takes which, and which    *)
(* modes conflict, is modelled from the statements in deploy/swrs.         *)
(***************************************************************************)
EXTENDS SwrsData, Sequences

CONSTANTS
  Load,           \* runs of load()
  Editor,         \* calls of create_fuel_mapping_cascade
  Reader,         \* requests of the web application
  Direct,         \* views of other schemas that read tables of swrs
  Indirect,       \* views of other schemas that read a direct one only
  Stacked,        \* the direct ones that read another direct one too
  MaxGeneration,  \* bound: no load begins after that many have committed
  MaxFaults       \* bound: transactions aborted by the environment

Transaction == Load \cup Editor \cup Reader

View == {"report", "fuel"}
TransformView(v) == <<"swrs_transform", v>>
SwrsTable == {<<"swrs", "report">>, <<"swrs", "fuel">>}
Fuel == <<"swrs", "fuel">>
History == <<"swrs_history", "report">>
FuelMapping == <<"ggircs_parameters", "fuel_mapping">>
Object == {TransformView(v) : v \in View} \cup SwrsTable
            \cup {History, FuelMapping}

Mode == {"access share", "row exclusive", "share row exclusive",
         "access exclusive"}

(* The orders of two tables.                                               *)
Orders(S) == {s \in S \X S : s[1] # s[2]}

ASSUME TransactionAssumption ==
  /\ Load \cap Editor = {} /\ Load \cap Reader = {} /\ Editor \cap Reader = {}
  /\ Direct \cap Indirect = {}
  /\ Stacked \subseteq Direct
  /\ MaxGeneration \in Nat
  /\ MaxFaults \in Nat

VARIABLES
  xmlFile,     \* the committed rows of eccc_xml_file
  report, fuel, history, mapping, detail,  \* the live tables, as in LiveData
  generation,  \* history: loads committed so far
  views,       \* the views of other schemas that exist
  order,       \* the order in which pg_matviews lists the views
  load, editor, reader,  \* per transaction, where it is and what it holds
  locks,       \* per transaction, the pairs <<object, mode>> it holds
  faults       \* transactions the environment aborted so far

live == <<report, fuel, history, mapping, detail>>
vars == <<xmlFile, live, generation, views, order, load, editor, reader,
          locks, faults>>

-----------------------------------------------------------------------------
LoadState ==
  [pc : {"off", "refresh", "wait", "clone", "report", "fuel", "history",
         "views", "drop"},
   todo : Seq(Object),
   snapshot : SUBSET File,
   view : [View -> SUBSET File],
   report : SUBSET File, fuel : SUBSET FuelRow, history : SUBSET File,
   direct : SUBSET Direct,
   began : SUBSET File]

Off == [pc |-> "off", todo |-> <<>>, snapshot |-> {},
        view |-> [v \in View |-> {}],
        report |-> {}, fuel |-> {}, history |-> {}, direct |-> {},
        began |-> {}]

EditorState == [pc : {"off", "insert", "update"}, type : FuelType \cup {"none"}]
NoEdit == [pc |-> "off", type |-> "none"]

(* What a request wants to read now, what it has read, and the generations *)
(* of the live tables it saw.                                              *)
Readable == {Fuel, History, FuelMapping}
ReaderState == [want : SUBSET Readable, read : SUBSET Readable,
                seen : SUBSET Nat]
NoRequest == [want |-> {}, read |-> {}, seen |-> {}]

TypeOK ==
  /\ xmlFile \subseteq File
  /\ report \subseteq File
  /\ fuel \subseteq FuelRow
  /\ history \subseteq File
  /\ mapping \subseteq FuelType
  /\ detail \subseteq mapping
  /\ generation \in Nat
  /\ views \subseteq Direct \cup Indirect
  /\ order \in Orders({TransformView(v) : v \in View})
  /\ load \in [Load -> LoadState]
  /\ editor \in [Editor -> EditorState]
  /\ reader \in [Reader -> ReaderState]
  /\ locks \in [Transaction -> SUBSET (Object \X Mode)]
  /\ faults \in 0 .. MaxFaults

-----------------------------------------------------------------------------
(* PostgreSQL: table locks.  A lock is held until its transaction ends.    *)

Conflicts(mode) ==
  CASE mode = "access share" -> {"access exclusive"}
    [] mode = "row exclusive" -> {"share row exclusive", "access exclusive"}
    [] mode = "share row exclusive" -> Mode \ {"access share"}
    [] mode = "access exclusive" -> Mode

Blockers(x, object, mode) ==
  {y \in Transaction \ {x} :
     \E other \in Conflicts(mode) : <<object, other>> \in locks[y]}

Lock(x, object, mode) ==
  /\ Blockers(x, object, mode) = {}
  /\ locks' = [locks EXCEPT ![x] = @ \cup {<<object, mode>>}]

Release(x) == locks' = [locks EXCEPT ![x] = {}]

(* A statement of a transaction of its own waits until nobody holds a      *)
(* conflicting lock, and is done.                                          *)
Free(object, mode) ==
  \A y \in Transaction : \A other \in Conflicts(mode) :
    <<object, other>> \notin locks[y]

-----------------------------------------------------------------------------
Init ==
  /\ xmlFile = {}
  /\ report = {}
  /\ fuel = {}
  /\ history = {}
  /\ mapping \in SUBSET FuelType
  /\ detail = mapping
  /\ generation = 0
  /\ views = {}
  /\ order \in Orders({TransformView(v) : v \in View})
  /\ load = [l \in Load |-> Off]
  /\ editor = [e \in Editor |-> NoEdit]
  /\ reader = [r \in Reader |-> NoRequest]
  /\ locks = [x \in Transaction |-> {}]
  /\ faults = 0

(* A worker of extract_xml_files.py commits a file.                        *)
Extract(f) ==
  /\ f \notin xmlFile
  /\ xmlFile' = xmlFile \cup {f}
  /\ UNCHANGED <<live, generation, views, order, load, editor, reader, locks,
                 faults>>

(* Somebody creates a view over the live schemas.                          *)
CreateView(v) ==
  /\ v \in (Direct \cup Indirect) \ views
  /\ v \in Indirect \cup Stacked => views \cap (Direct \ Stacked) # {}
  /\ \A o \in SwrsTable \cup {History} : Free(o, "access share")
  /\ views' = views \cup {v}
  /\ UNCHANGED <<xmlFile, live, generation, order, load, editor, reader,
                 locks, faults>>

-----------------------------------------------------------------------------
(* load() *)

LoadOnly == UNCHANGED <<xmlFile, live, generation, views, order, editor,
                        reader, faults>>

Begin(l) ==
  /\ load[l].pc = "off"
  /\ generation < MaxGeneration
  /\ load' = [load EXCEPT ![l] = [Off EXCEPT !.pc = "refresh",
                                             !.todo = order,
                                             !.began = xmlFile]]
  /\ UNCHANGED locks
  /\ LoadOnly

(* transform('with data'): a refresh reads with a snapshot taken before it *)
(* has waited for the lock on its view.                                    *)
TakeSnapshot(l) ==
  /\ load[l].pc = "refresh"
  /\ load' = [load EXCEPT ![l] =
       [load[l] EXCEPT !.pc = "wait", !.snapshot = xmlFile]]
  /\ UNCHANGED locks
  /\ LoadOnly

\* Mutant of Refresh: the loop leaves a view out, as it does for flat.
RefreshSome(l) ==
  LET object == Head(load[l].todo)
      rest == Tail(load[l].todo)
  IN
  /\ load[l].pc = "wait"
  /\ Lock(l, object, "access exclusive")
  /\ load' = [load EXCEPT ![l] =
       [load[l] EXCEPT
          !.view[object[2]] = IF object[2] = "fuel" THEN @ ELSE load[l].snapshot,
          !.todo = rest,
          !.pc = IF rest = <<>> THEN "clone" ELSE "refresh"]]
  /\ LoadOnly

Refresh(l) ==
  LET object == Head(load[l].todo)
      rest == Tail(load[l].todo)
  IN
  /\ load[l].pc = "wait"
  /\ Lock(l, object, "access exclusive")
  /\ load' = [load EXCEPT ![l] =
       [load[l] EXCEPT !.view[object[2]] = load[l].snapshot,
                       !.todo = rest,
                       !.pc = IF rest = <<>> THEN "clone" ELSE "refresh"]]
  /\ LoadOnly

\* Mutant of CloneSchema: the tables are cloned without their foreign keys.
CloneWithoutKeys(l) ==
  /\ load[l].pc = "clone"
  /\ load' = [load EXCEPT ![l] = [load[l] EXCEPT !.pc = "report"]]
  /\ UNCHANGED locks
  /\ LoadOnly

(* clone_schema, for swrs and for swrs_history: the empty tables, and the  *)
(* foreign keys of the originals.  swrs.fuel refers to fuel_mapping, and   *)
(* adding the key takes a lock on the table it refers to.  (The locks on   *)
(* the tables that are cloned conflict only with those of another load,    *)
(* which the lock on the first view keeps out.)                            *)
CloneSchema(l) ==
  /\ load[l].pc = "clone"
  /\ Lock(l, FuelMapping, "share row exclusive")
  /\ load' = [load EXCEPT ![l] = [load[l] EXCEPT !.pc = "report"]]
  /\ LoadOnly

LoadReport(l) ==
  /\ load[l].pc = "report"
  /\ load' = [load EXCEPT ![l] =
       [load[l] EXCEPT !.pc = "fuel",
                       !.report = FinalReport(load[l].view["report"])]]
  /\ UNCHANGED locks
  /\ LoadOnly

\* Mutant of LoadFuel: without the join on final_report.
LoadFuelOfAll(l) ==
  /\ load[l].pc = "fuel"
  /\ load' = [load EXCEPT ![l] =
       [load[l] EXCEPT !.pc = "history",
                       !.fuel = {x \in FuelRow :
                                   /\ x.file \in load[l].view["fuel"]
                                   /\ x.type \in FuelOf[x.file]
                                   /\ x.mapped = (x.type \in mapping)}]]
  /\ UNCHANGED locks
  /\ LoadOnly

LoadFuel(l) ==
  /\ load[l].pc = "fuel"
  /\ load' = [load EXCEPT ![l] =
       [load[l] EXCEPT !.pc = "history",
                       !.fuel = LoadedFuel(load[l].view["fuel"],
                                           load[l].view["report"], mapping)]]
  /\ UNCHANGED locks
  /\ LoadOnly

(* load_report_history, and transform('with no data').                     *)
LoadHistory(l) ==
  /\ load[l].pc = "history"
  /\ load' = [load EXCEPT ![l] =
       [load[l] EXCEPT !.pc = "views",
                       !.history = load[l].view["report"],
                       !.view = [v \in View |-> {}]]]
  /\ UNCHANGED locks
  /\ LoadOnly

(* views_to_recreate is filled with the views of other schemas that depend *)
(* on a table of swrs.  Next comes the cascade, in an order nobody set:    *)
(* it locks the tables of swrs, and then fuel_mapping to drop the foreign  *)
(* key to it, before swrs_history is dropped.                              *)
FindViews(l) ==
  /\ load[l].pc = "views"
  /\ \E s \in Orders(SwrsTable) :
       load' = [load EXCEPT ![l] =
         [load[l] EXCEPT !.pc = "drop",
                         !.direct = views \cap Direct,
                         !.todo = s \o <<FuelMapping, History>>]]
  /\ UNCHANGED locks
  /\ LoadOnly

LockForDrop(l) ==
  /\ load[l].pc = "drop"
  /\ load[l].todo # <<>>
  /\ Lock(l, Head(load[l].todo), "access exclusive")
  /\ load' = [load EXCEPT ![l] = [load[l] EXCEPT !.todo = Tail(@)]]
  /\ LoadOnly

\* Mutant of Commit: swrs_history_load is never renamed.
CommitWithoutHistory(l) ==
  /\ load[l].pc = "drop"
  /\ load[l].todo = <<>>
  /\ report' = load[l].report
  /\ fuel' = load[l].fuel
  /\ generation' = generation + 1
  /\ order' \in Orders({TransformView(v) : v \in View})
  /\ views' = (views \ (Direct \cup Indirect)) \cup load[l].direct
  /\ load' = [load EXCEPT ![l] = Off]
  /\ Release(l)
  /\ UNCHANGED <<xmlFile, history, mapping, detail, editor, reader, faults>>

(* The schemas are dropped and renamed, the views recreated, and the       *)
(* transaction commits.  The refreshes have moved the views' rows in the   *)
(* catalog.                                                                *)
Commit(l) ==
  /\ load[l].pc = "drop"
  /\ load[l].todo = <<>>
  /\ report' = load[l].report
  /\ fuel' = load[l].fuel
  /\ history' = load[l].history
  /\ generation' = generation + 1
  /\ order' \in Orders({TransformView(v) : v \in View})
  /\ views' = (views \ (Direct \cup Indirect)) \cup load[l].direct
  /\ load' = [load EXCEPT ![l] = Off]
  /\ Release(l)
  /\ UNCHANGED <<xmlFile, mapping, detail, editor, reader, faults>>

(* The transaction is rolled back, whatever it is.                         *)
RollBack(x) ==
  /\ load' = IF x \in Load THEN [load EXCEPT ![x] = Off] ELSE load
  /\ editor' = IF x \in Editor THEN [editor EXCEPT ![x] = NoEdit] ELSE editor
  /\ reader' = IF x \in Reader THEN [reader EXCEPT ![x] = NoRequest]
                               ELSE reader
  /\ Release(x)
  /\ UNCHANGED <<xmlFile, live, generation, views, order>>

(* The views are recreated in the order they were found in, and one that   *)
(* reads another that is not there yet makes the load fail.                *)
RecreateFails(l) ==
  /\ load[l].pc = "drop"
  /\ load[l].todo = <<>>
  /\ load[l].direct \cap Stacked # {}
  /\ RollBack(l)
  /\ UNCHANGED faults

-----------------------------------------------------------------------------
(* create_fuel_mapping_cascade and updateFuelMapping *)

EditorOnly == UNCHANGED <<xmlFile, report, history, generation, views, order,
                          load, reader, faults>>

StartCascade(e, t) ==
  /\ editor[e].pc = "off"
  /\ editor' = [editor EXCEPT ![e] = [pc |-> "insert", type |-> t]]
  /\ UNCHANGED <<fuel, mapping, detail, locks>>
  /\ EditorOnly

(* The insert also waits for an uncommitted insert of the same fuel type.  *)
InsertMapping(e) ==
  /\ editor[e].pc = "insert"
  /\ editor[e].type \notin mapping
  /\ \A d \in Editor :
       ~(editor[d].pc = "update" /\ editor[d].type = editor[e].type)
  /\ Lock(e, FuelMapping, "row exclusive")
  /\ editor' = [editor EXCEPT ![e].pc = "update"]
  /\ UNCHANGED <<fuel, mapping, detail>>
  /\ EditorOnly

(* The unique index on fuel_type refuses it.                               *)
InsertDuplicate(e) ==
  /\ editor[e].pc = "insert"
  /\ editor[e].type \in mapping
  /\ Blockers(e, FuelMapping, "row exclusive") = {}
  /\ editor' = [editor EXCEPT ![e] = NoEdit]
  /\ UNCHANGED <<fuel, mapping, detail, locks>>
  /\ EditorOnly

\* Mutant of UpdateFuel: the mapping is created without the cascade.
UpdateNothing(e) ==
  /\ editor[e].pc = "update"
  /\ mapping' = mapping \cup {editor[e].type}
  /\ detail' = detail \cup {editor[e].type}
  /\ editor' = [editor EXCEPT ![e] = NoEdit]
  /\ Release(e)
  /\ UNCHANGED fuel
  /\ EditorOnly

(* The fuels of the type are updated, and PostGraphile commits.            *)
UpdateFuel(e) ==
  /\ editor[e].pc = "update"
  /\ Blockers(e, Fuel, "row exclusive") = {}
  /\ mapping' = mapping \cup {editor[e].type}
  /\ detail' = detail \cup {editor[e].type}
  /\ fuel' = Linked(fuel, editor[e].type)
  /\ editor' = [editor EXCEPT ![e] = NoEdit]
  /\ Release(e)
  /\ EditorOnly

\* Mutant of SetDetail: an upsert of the detail alone.
SetDetailOfAny(t) ==
  /\ Free(FuelMapping, "row exclusive")
  /\ detail' \in {detail \cup {t}, detail \ {t}}
  /\ UNCHANGED <<fuel, mapping, editor, locks>>
  /\ EditorOnly

(* updateFuelMapping sets fuel_carbon_tax_detail_id, to null when the user *)
(* removes the mapping: the row stays.                                     *)
SetDetail(t) ==
  /\ t \in mapping
  /\ Free(FuelMapping, "row exclusive")
  /\ detail' \in {detail \cup {t}, detail \ {t}}
  /\ UNCHANGED <<fuel, mapping, editor, locks>>
  /\ EditorOnly

-----------------------------------------------------------------------------
(* A request of the web application: PostGraphile runs its statements in   *)
(* one transaction.                                                        *)

ReaderOnly == UNCHANGED <<xmlFile, live, generation, views, order, load,
                          editor, faults>>

Ask(r, o) ==
  /\ reader[r].want = {}
  /\ o \in Readable \ reader[r].read
  /\ reader' = [reader EXCEPT ![r].want = {o}]
  /\ UNCHANGED locks
  /\ ReaderOnly

Saw(r, o) ==
  [want |-> {}, read |-> reader[r].read \cup {o},
   seen |-> reader[r].seen \cup (IF o = FuelMapping THEN {}
                                                    ELSE {generation})]

\* Mutant of Read: each statement is a transaction of its own.
ReadAutocommit(r) ==
  \E o \in reader[r].want :
    /\ Blockers(r, o, "access share") = {}
    /\ reader' = [reader EXCEPT ![r] = Saw(r, o)]
    /\ UNCHANGED locks
    /\ ReaderOnly

Read(r) ==
  \E o \in reader[r].want :
    /\ Lock(r, o, "access share")
    /\ reader' = [reader EXCEPT ![r] = Saw(r, o)]
    /\ ReaderOnly

\* Mutant of Respond: the transaction is left open when all was read.
RespondOnce(r) ==
  /\ reader[r].want = {}
  /\ reader[r].read \notin {{}, Readable}
  /\ reader' = [reader EXCEPT ![r] = NoRequest]
  /\ Release(r)
  /\ ReaderOnly

Respond(r) ==
  /\ reader[r].want = {}
  /\ reader[r].read # {}
  /\ reader' = [reader EXCEPT ![r] = NoRequest]
  /\ Release(r)
  /\ ReaderOnly

-----------------------------------------------------------------------------
(* The environment ends transactions: it kills a pod, closes a connection, *)
(* or a statement fails.  And PostgreSQL ends one of those that wait for   *)
(* each other in a circle.                                                 *)

Active(x) ==
  \/ x \in Load /\ load[x].pc # "off"
  \/ x \in Editor /\ editor[x].pc # "off"
  \/ x \in Reader /\ reader[x] # NoRequest

Abort(x) ==
  /\ Active(x)
  /\ faults < MaxFaults
  /\ faults' = faults + 1
  /\ RollBack(x)

(* The lock the next statement of a transaction needs.                     *)
Wanted(x) ==
  CASE x \in Load /\ load[x].pc = "wait" ->
         {<<Head(load[x].todo), "access exclusive">>}
    [] x \in Load /\ load[x].pc = "clone" ->
         {<<FuelMapping, "share row exclusive">>}
    [] x \in Load /\ load[x].pc = "drop" /\ load[x].todo # <<>> ->
         {<<Head(load[x].todo), "access exclusive">>}
    [] x \in Editor /\ editor[x].pc = "insert" ->
         {<<FuelMapping, "row exclusive">>}
    [] x \in Editor /\ editor[x].pc = "update" ->
         {<<Fuel, "row exclusive">>}
    [] x \in Reader ->
         {<<o, "access share">> : o \in reader[x].want}
    [] OTHER -> {}

WaitsFor(x) == UNION {Blockers(x, w[1], w[2]) : w \in Wanted(x)}

Deadlocked(x) ==
  \E circle \in SUBSET Transaction :
    /\ x \in circle
    /\ \A y \in circle : /\ WaitsFor(y) \cap circle # {}
                         /\ \E z \in circle : y \in WaitsFor(z)

BreakDeadlock(x) ==
  /\ Deadlocked(x)
  /\ RollBack(x)
  /\ UNCHANGED faults

-----------------------------------------------------------------------------
LoadStep(l) ==
  \/ Begin(l) \/ TakeSnapshot(l) \/ Refresh(l) \/ CloneSchema(l)
  \/ LoadReport(l) \/ LoadFuel(l) \/ LoadHistory(l)
  \/ FindViews(l) \/ LockForDrop(l) \/ Commit(l) \/ RecreateFails(l)

EditorStep(e) ==
  \/ \E t \in FuelType : StartCascade(e, t)
  \/ InsertMapping(e) \/ InsertDuplicate(e) \/ UpdateFuel(e)

ReaderStep(r) == (\E o \in Readable : Ask(r, o)) \/ Read(r) \/ Respond(r)

Next ==
  \/ \E f \in File : Extract(f)
  \/ \E v \in Direct \cup Indirect : CreateView(v)
  \/ \E l \in Load : LoadStep(l)
  \/ \E e \in Editor : EditorStep(e)
  \/ \E t \in FuelType : SetDetail(t)
  \/ \E r \in Reader : ReaderStep(r)
  \/ \E x \in Transaction : Abort(x) \/ BreakDeadlock(x)

Spec == Init /\ [][Next]_vars

(* Every transaction goes on when it can.  Its locks are queued first come *)
(* first served, so it gets one that is free again and again; PostgreSQL   *)
(* looks for a deadlock whenever somebody waits for a second.  Nothing     *)
(* obliges anybody to start a load, an edit or a request.                  *)
Fairness ==
  /\ \A l \in Load :
       /\ WF_vars(TakeSnapshot(l) \/ LoadReport(l) \/ LoadFuel(l)
                    \/ LoadHistory(l) \/ FindViews(l) \/ Commit(l))
       /\ SF_vars(Refresh(l) \/ CloneSchema(l) \/ LockForDrop(l))
  /\ \A e \in Editor :
       SF_vars(InsertMapping(e) \/ InsertDuplicate(e) \/ UpdateFuel(e))
  /\ \A r \in Reader : WF_vars(Respond(r)) /\ SF_vars(Read(r))
  /\ \A x \in Transaction : WF_vars(BreakDeadlock(x))

FairSpec == Spec /\ Fairness

-----------------------------------------------------------------------------
(* Properties *)

(* A fuel whose type has a mapping carries its id, and no other fuel does, *)
(* however the edits of the mappings and the loads interleave: load_fuel   *)
(* reads the mappings long before its table is live, and the cascade       *)
(* updates the table that is live now.                                     *)
FuelsAreLinked == \A x \in fuel : x.mapped = (x.type \in mapping)

(* unmapped_fuel(): the fuel types to be mapped, with the mapping to       *)
(* update, if there is one (mapped), or to be created.  "Other" is what    *)
(* reports call a fuel that has no type of its own: it is left out.        *)
UnmappedFuel ==
  {<<x.type, x.mapped>> : x \in {y \in fuel :
     /\ y.type \notin mapping \/ ~y.mapped \/ y.type \notin detail
     /\ y.type # "Other"}}

(* The page of unmapped fuels offers what can be done: a type without a    *)
(* mapping is to be created, and one whose mapping lost its detail is to   *)
(* be updated; a create for the latter would run into the unique index.    *)
UnmappedCanBeMapped ==
  \A u \in UnmappedFuel :
    u[1] \notin detail /\ u[2] = (u[1] \in mapping)

(* The live tables agree with each other, although their views were        *)
(* refreshed at different moments, in any order, while files arrived: one  *)
(* report per facility and year, no fuel of a report that is not final     *)
(* (report_id would be null), and each final report is in the history.     *)
LiveTablesAgree ==
  /\ \A f, g \in report : KeyOf[f] = KeyOf[g] => f = g
  /\ \A x \in fuel : x.file \in report
  /\ report \subseteq history

(* A request that reads several tables sees the tables of one load: the    *)
(* swap waits for those who have read, and they never meet half of it.     *)
RequestSeesOneLoad ==
  \A r \in Reader : \A g, h \in reader[r].seen : g = h

(* A load publishes at least what was extracted when it began: every       *)
(* version of a report is in the history, the latest report of each        *)
(* facility and year or a later one is live, and it has all its fuels.     *)
LoadIsFresh ==
  [][\A l \in Load : Commit(l) =>
       /\ load[l].began \subseteq history'
       /\ \A f \in load[l].began \cap Reportable :
            /\ \E g \in report' : KeyOf[g] = KeyOf[f] /\ Rank[g] >= Rank[f]
            /\ f \in report' => \A t \in FuelOf[f] :
                 \E x \in fuel' : x.file = f /\ x.type = t]_vars

(* The load is atomic: whatever it waits for, whoever kills it, the live   *)
(* tables only ever change as LiveData says.                               *)
Live == INSTANCE LiveData
          WITH report <- report, fuel <- fuel, history <- history,
               mapping <- mapping, detail <- detail
ImplementsLiveData == Live!Spec

(* A load that began ends, and a request is answered: nobody waits for     *)
(* ever, although loads and requests take their locks in different orders. *)
LoadsEnd == \A l \in Load : load[l].pc # "off" ~> load[l].pc = "off"
RequestsEnd == \A r \in Reader : reader[r] # NoRequest ~> reader[r] = NoRequest
=============================================================================
