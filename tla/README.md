# Formal models of CAS GGIRCS

TLA+ modules for the parts of GGIRCS whose correctness depends on the order in
which things happen, the TLC configurations that check them, and the TLAPS
proofs about them. Paths are relative to the root of the repository.

GGIRCS copies the archives that ECCC publishes once a month to a bucket,
extracts the reports (xml files) and their attachments to the database,
transforms the reports to tables and swaps those in as the live schema, and
serves them, with the parameters of the carbon tax, to a web application.
Nothing but the bucket and the database connects these steps: each is a job of
its own, started by Airflow, that works on what it finds.

To check: `tlc -config <name>.cfg <Module>MC.tla`; to prove:
`tlapm <Module>Proofs.tla`. `PROJECT.json` lists the runs, the theorems, the
lines each definition stands for, and one mutation of the code's behaviour per
property that the property must detect.

## 1. Inventory

| Component | Code | State it keeps | Operations | Interacts with |
|---|---|---|---|---|
| ECCC upload job | `eccc/upload/app` | objects of the bucket, a retry counter, the list of uploaded files | list the site, skip known names, stream each URL, retry, write the list | ECCC web site, bucket |
| ECCC extract jobs | `eccc/extract/app`, `deploy/swrs/extract/table` | `eccc_zip_file`, `eccc_xml_file`, `eccc_attachment` | register objects, extract xml files, extract attachments | bucket, database, worker processes |
| Airflow DAGs | `dags`, `helm/cas-ggircs/templates/etl`, `.../app/cronJobs` | task states, Kubernetes jobs, grants | start a task when its upstream tasks succeeded, trigger the load | every job |
| Transform and load | `deploy/swrs/transform` | materialized views, `swrs`, `swrs_history` | refresh, clone, load the tables, swap the schemas, recreate views | extract tables, parameters, web application |
| Parameters and fuel mappings | `deploy/swrs/parameters`, `ggircs-app/app/components/FuelManagement` | `ggircs_parameters.*` | create, change and remove a fuel mapping; create and change a fuel charge | load, web application |
| History and public views | `deploy/swrs/history`, `deploy/swrs/public` | none | carbon tax and facility views, the latest report of a history | `swrs`, parameters |
| Application schema | `ggircs-app/schema` | `ggircs_user`, download log, sessions | first login, session, log, row policies | web server |
| Web server | `ggircs-app/app/server`, `.../lib` | sessions, one GraphQL schema, a pool of connections | redirect or render a page, sign in and create the user, answer a query in one transaction, proxy and log a download, shut down | identity provider, database, file server |
| Web client | `ggircs-app/app/components`, `.../pages`, `.../mutations`, `.../lib/relay` | the route, the Relay store, a cache of answers, forms, one pending mutation, timers | select a fuel, map and unmap fuel types, enter and save rate periods, compare two reports, browse archives | web server |
| File server | `eccc/file_server` | a queue per download | list archives, stream a member | bucket |
| Deployment | `helm`, `Makefile`, `sqitch.plan` | cluster objects | deadlines, retries, schema changes | all of them |
| Prune script | `deploy/private` | none | two deletes, once, at deployment | extract tables |
| Test data | `test` | none | fixtures, load testing | all of them |

### What is hard, and what makes each part correct

* **Upload.** Answers that never end, retries shared by all URLs, a bucket that
  is listed once and written for hours, a run that fails half-way and succeeds.
  Correct: no URL is lost or reported too early, an object is written once,
  what stays on the site gets to the bucket, a run ends.
* **Extraction.** 32 worker processes with their own connections, tasks that
  raise, vanish or are killed, two runs of a script on one archive, archives
  that repeat a report, a pod that goes away between the first insert and the
  flag. Correct: the flag says that all members were dealt with, rows belong to
  the archive they came from, the error count is that of this extraction,
  nothing is lost that was extracted, every archive is extracted.
* **DAGs.** The jobs share no identifiers: a task reads what the earlier ones
  wrote, plus or minus what overlapping runs wrote. Correct: a load publishes
  at least what its run registered; what is published by ECCC goes live.
* **Load.** One transaction of an hour, at read committed, that reads while the
  extraction writes, and replaces tables that users edit. What keeps it right
  is not a statement but locks that statements take by the way: adding a
  foreign key locks the table it refers to. Correct: live tables agree with
  each other and with the mappings, nobody sees half a swap, nobody waits for
  ever, a load is no older than its start.
* **Web server.** A login that goes away and comes back, and creates a row that
  another login of the same user may be creating; redirects of three pages that
  send users to each other; links that the client follows without asking the server;
  a session that ends between two steps of a page, of a link or of a download.
  Correct: every request ends at a page, a login ends at the page that was asked
  for, a user is refused only if their row is there or taken, a row of the log of
  downloads names who downloaded.
* **Web client.** Answers out of order or lost, a cache that is older than what it
  replaces, timers that outlive the route they were set for, dates that are
  checked against a list before others change it, one variable that all
  debounced mutations share. Correct: what a page shows when it has come to rest
  is what the database has, and agrees with itself; a mutation is dropped only for
  a later one; periods overlap for known reasons only.

The `hazards` of `PROJECT.json` give the line of each of these.

## 2. Modules

| Module | Models | Extends / instantiates |
|---|---|---|
| `EcccExtract` | the three extraction scripts, their pools and tables | |
| `EcccExtractProofs` | type correctness, flag, provenance, permanence, error count | `EcccExtract` |
| `SwrsData` | reports, versions, fuels; final report, linked fuels | |
| `LiveData` | abstract specification of the live tables | `SwrsData` |
| `SwrsLoad` | `load()`, edits of mappings, requests, PostgreSQL's locks | `SwrsData`, instance of `LiveData` |
| `SwrsLoadProofs` | type correctness, invariants, freshness, refinement of `LiveData` | `SwrsLoad` |
| `EcccUpload` | `init.sh` and `upload.js` | |
| `EcccUploadProofs` | accounting of the runs and of the output, objects are written once | `EcccUpload` |
| `SwrsPipeline` | the two DAGs over all jobs | abstracts the four above |
| `SwrsPipelineProofs` | a load publishes what its run registered | `SwrsPipeline` |
| `SwrsTransform` | the materialized views: what each takes from a report, and its key | |
| `SwrsTransformLoad` | the load functions: the joins, in the order of `load()`, and the constraints | `SwrsTransform` |
| `SwrsTransformProofs` | no row is lost or repeated, references stay in their report and find what encloses the element | `SwrsTransformLoad` |
| `FuelSelection` | the list of fuels of two pages, and the fetch a click starts | |
| `FuelChargePage` | the rate periods of a fuel: list, forms, checks, saves, other users | `FuelSelection` |
| `FuelMappingPage` | the mapped and unmapped fuel types, and the cache of the network layer | `FuelSelection` |
| `XmlDiff` | the comparison of two reports: selectors, controls, route, timers | |
| `SwrsBrowser` | the archives in the bucket and the files of one of them | |
| `LatestWins` | abstract specification of debounced mutations | |
| `DebounceMutation` | the debouncing middleware | instance of `LatestWins` |
| `OptimisticMutation` | `BaseMutation` on the middleware: optimistic responses, the server | `DebounceMutation` |
| `WebClient` | the pages and the mutations below them | `DebounceMutation`, instances of the pages and of `OptimisticMutation` |
| `FuelPageProofs` | invariants of the two pages of fuels | `WebClientMC` |
| `WebClientProofs` | those of the other parts, and the theorems about the client | `FuelPageProofs` |
| `WebSession` | redirects, links, login, creation of users, end of a session, downloads | |
| `WebSessionProofs` | refusals have lasting reasons, logins return, the log names the downloader | `WebSession` |
| `...MC` | the instances TLC checks | |

Where a definition exists in several files of the repository (`load@1.15.0.sql`
and so on), the model is of the file without a version, which is what is
deployed now.

### EcccExtract

`zipFile`, `xmlFile` and `attachment` are the committed rows of the three
tables; the columns `xml_files_extracted`, `attachments_extracted` and the two
error counts are `extracted` and `errorCount`, by kind of job, since
`extract_xml_files.py` and `extract_attachments.py` are the same loop over two
functions. `job` holds, for each running script, the rows its `select` returned,
the archive it has open, the members whose task is not answered, those whose
worker was killed, and those that failed. An action is one task
(`Extract`, `Unreadable`, `Raise`, `Escape`, `KillWorker`) or one step of the
script's loop (`Start`, `OpenArchive`, `FinishArchive`, `Finish`, `Stop`).
`process_zip_file` is `ProcessZipFile` and `ProcessZipFileError`.

Abstractions. A member is a name with a hash. Passwords are a set `Encrypted`
of members none of them opens. The objects of the bucket never change
(`EcccUpload!WrittenOnce` says when that is so), and a listing of the bucket is
one snapshot. `Deadline` fires only when all other tasks are answered, since
the deadline is 48 hours and a task takes seconds. `gaveUp` is a history
variable: the members an attempt was seen to fail on.

### SwrsData, LiveData and SwrsLoad

Of the sixteen live tables two are modelled here: `report`, from which every
other table takes its choice of files (all `load_` functions join
`final_report`), and `fuel`, the only one that users change; `SwrsTransformLoad`
has them all, in a load that runs alone. `history` is `swrs_history.report`. A
file is one version of the report of one facility for one year; `Rank` stands
for the columns `final_report` orders by.

`LiveData` is what the load promises: the live tables change at once, to tables
that are computed from extracted files and from the mappings *as they are at
that moment*. `SwrsLoad` is how it is done. Every statement that can wait is an
action of its own; a load goes through `Begin`, `TakeSnapshot` and `Refresh` for
each view in the order `pg_matviews` has now, `CloneSchema`, `LoadReport`,
`LoadFuel`, `LoadHistory`, `FindViews`, `LockForDrop` for each table in any
order, and `Commit` or `RecreateFails`. An edit is `StartCascade`,
`InsertMapping` or `InsertDuplicate`, and `UpdateFuel`; a request asks for one
table after the other (`Ask`, `Read`) and ends (`Respond`). `Abort` is any
transaction rolled back from outside, `BreakDeadlock` PostgreSQL's victim.

Lock modes, their conflicts and which statement takes which are PostgreSQL's
(`external` in the map): `refresh materialized view` and `drop` take access
exclusive, `add foreign key` share row exclusive on both tables, insert and
update row exclusive, select access share; a lock is held to the end of the
transaction. Locks that only another load could conflict with are left out,
because the lock on the first view is taken before them and held. A snapshot of
read committed is taken when a statement starts, before it waits.

### SwrsTransform and SwrsTransformLoad

What one load does with the data, when nothing else runs. A report is a tree of
elements, an element the path that leads to it: `<<tag, place>>` for each step.
The XPath axes the views use (`Ancestor`, `Children`, `Preceding`, `Name`) are
operators on paths, and a view is the set of its rows, one per selected element,
with the columns its unique index is on as `key`. The columns that are only
copied are left out. What is read off an element and decides something (the type
of a fuel, the gas of an emission, the priority of a NAICS code) is `text`;
`priority = "Primary"` stands for the three values that count as primary, and
`OtherVentingDetails` for every tag that contains both words.

`docs` are the files; `view` the views; `tables` is `swrs_load`; `live` is
`swrs`. `Transform` is the refresh, `LoadTable` one round of the loop of
`load()`, `Publish` the swap, and `Fail` an error anywhere, which rolls all of it
back. `Loaded(t)` is what `load_t` inserts, and `RowsFor(t, r)` what it inserts for
one row of its views: per left join a set of
matches, `Null` when there are none, and one row for each combination, so that a
join that matches twice makes two rows of one id, as it does in SQL.
`Insertable` is what the database then refuses: a repeated primary key, a
foreign key that points nowhere, a scalar subquery with two rows. `Transform`
needs the unique indexes of the views.

The number of a row (`row_number()`, and the serial of `all_emissions`) is
`<<file, element>>` here: it names the row and nothing depends on its value.

`LoadSucceeds` has a premise, `Regular`, because nothing else makes the joins
single-valued: at most one BCGHGID in the tombstone; one primary NAICS code in
the registration, or at most one code in the tombstone; one `TotalEmissions`;
the totals of an R3 report in one list; no two attachments in one sub-process;
one final LFO report of an organisation for a year. One file that is not regular
can make the load of all others fail, every time, until it is dealt with: the
run has such files, and the other three properties hold of them up to the
failure. That attachments match once is a premise on the constant `Attachment`.

### EcccUpload

`site` is what the web site lists, with a version of the content; `bucket` the
objects, with the content they were read from; `output` is `uploadOutput.json`.
`run` is a pod: the URLs found, those to do, skipped and uploaded, as sets, the content
in flight, and the retries it has used. `sort | uniq` in `init.sh` makes the order
of the URLs the same in each run (`Position`): the URL in hand is the first of those
that are left to do (`Current`). Any handler that logs and goes on
to exit is `Crash`, an answer that stops is `Stall`, and
`activeDeadlineSeconds` is `Deadline`.

### SwrsPipeline

Here a job is a task that reads something when it starts and has its effect when
it succeeds (or a part of it when it fails). In Airflow each call of a `@task`
function makes a task, so `extract_zip_files()` written three times is three
tasks, and `ggircs_etl()` written twice two: the edges are those of the DAGs as
they are built, not as they read. Tasks that read nothing of others
start and succeed in one step. A triggered run that Airflow would queue waits in
`Trigger`. `trigger_k8s_cronjob` is taken to wait for its job. `due` is a
history variable: what the bucket held when the run registered the archives.

### The pages: FuelSelection, FuelChargePage, FuelMappingPage, XmlDiff, SwrsBrowser

A page's state is its route (`url`, `query`), the part of the Relay store it
reads, and the `useState` variables of its components, under their own names. An
action is an event of the user, an answer, or a timer; a handler is one action with
the renders and effects it causes (`Mounted`: the rows that are no longer on
display lose their forms). Requests and answers are sets, so they overtake each
other.

*FuelSelection.* A click fetches the data of a fuel, and the route follows when the
fetch ends, whether it succeeded or not. `gone` marks a fetch whose component the
user has left. The pages are opened by the links of the dashboard, which
set `showAll=false`.

*FuelChargePage.* `charges` is the table, `lists` and `records` are the connection
and the rows of the store, `forms` the open forms. `seenStart` and `seenEnd` keep what
each date was compared with, and go with the request (`against`): they are what lets
`OverlapHasACause` say which overlaps the checks rule out. `overtaken` is the
history of answers that came late or never. Rates, comments and the view of a row are
not state. A user who reloads loses the forms: that is `VisitPage`.

*FuelMappingPage.* `mapping` is `fuel_mapping` (no row, a row with a null detail, a
row with a normalized fuel). Commits are numbered (`stamp`), so that an answer can be
told to be older than another one; `doubt` records that one was, or was lost, or that
a type was mapped while another change or removal of it was in flight. `cache` is the answer to the page's own query, which
`cacheMiddleware` keeps for a minute.

*XmlDiff.* A timer carries the query and the router it closed over (`Timer`); a push
makes a new router, so a key typed after it sets another timer beside the one that is
running. `disturbed` records what `SettledPageAgrees` excludes.

*SwrsBrowser.* `fetching` are the fetches of `FileDetails` that have not ended. An
answer that is no listing shows an empty list, the contents of the archive all the
same.

### LatestWins, DebounceMutation and OptimisticMutation

`debouncedMutation` is the variable of the middleware, as a set of at most one
mutation. `debouncedFn`, which is called by a later request or by the timer, clears
the timer *of whatever is in that variable*, and would fail if nothing were: that
each timer that is set belongs to what is there is `TimersAreOwn`. `LatestWins` says
what the mechanism is for, without timers. `OptimisticMutation` adds the map
of disposables of `BaseMutation`, requests and answers that overtake each other,
and refusals; the value a mutation saves is its number. No component passes a
`debounceKey` today; this is the layer they would do it with.

### WebClient

Composes the pages and the mutation layer. The pages share nothing but the route:
one is open at a time, and `part` says which; that of the others is set to a constant.
Checking the sum of them, rather than the product, loses no behaviour, because no
action of a page reads a variable of another.

### WebSession

`session` is what the session store has for a browser; `page` what the browser shows
or waits for, with the account the page was *rendered* for, which is how a page and
a session come apart when the session ends; `client` what the client of a browser
keeps since it was loaded. URLs are sequences: a path, then the URL in its
`redirectTo`.

A page comes in two ways. `OpenPage` asks the server (a path that is typed, or a link
to a page that the client does not have, like the profile); the answer is two steps,
as in the code: `Render` is one `serverSideProps`, which redirects or lets pass, and
`createServerEnvironment` the query of the page, a request of its own with the same
cookie, which reads the session again. If it has ended meanwhile, a page of the
application is shown for nobody. `FollowLink` is a `next/link`: the client asks
nobody for permission (`serverSideProps` is not run), and the page is the one of
whoever has the session now, or of an answer the client still holds: its Relay store
and the cache of its network layer (a minute) are `client.answers`, any of which may be
used at any time until the next page from the server. So a dashboard whose session has
ended leads to the browser page without a session, or still with it.
`SessionExpiryHandler` asks once after a page came from the server
(`checkSessionAndGroups`), and only if there was a session does it notice the end
(`handleSessionExpired`), some time later or never.

A login goes through
`LoginButton`, `Callback`, `performQuery`, `postgraphileSchema`, `CountUsers` and
`InsertUser`, an action per await or statement, so that two logins interleave between
the count and the insert. `Failed` is `onAuthCallback` throwing. A download is
`ecccApiRouter`, `FileAnswers`, `LogDownload`, `SendFile`. `LogDownload` has the ways
the mutation can end: the row is written and the file goes on to be sent; the answer
is an error (the role may not log, or the mutation fails) and the file goes on all
the same; the connection fails, with or without the row, and only then the download
stops. Rows of `users` carry `allow_sub_update`. The names of the groups have an
underscore for the space. The sign-on library (`sso-express`) and the session store's
expiry are external. `wanted`, `refused` and the marks in a download are history. Not modelled: the back button, and several tabs of one browser, which share
the session (the tab of a download that finds none is a page like any other).

`wanted` is the page a login is to lead to: the one the server was asked for, or the
one the browser was at when it went to the page of the login by itself. It is
forgotten, and `LoginReturns` says nothing, when a page is shown for nobody that is
not the page of the login, when a link is followed, when the groups do not allow it,
and when a login fails or the user logs out. The first two are not far-fetched: the
session ends, nobody has noticed, and the dashboard's link leads to the browser page
signed out; its button sends no `redirectTo`, and the login lands on `/ggircs`. The
same follows when the session ends between `Render` and `createServerEnvironment`.

## 3. Runs

| Run | Instance | Shows |
|---|---|---|
| `extract_xml` | 2 overlapping xml jobs, 1 registration job; an archive, a composite object (no md5) that repeats one of its reports, an object that is not a production archive, one that is no zip file; a malformed and a quarantined member; 2 faults | `TypeOK`, `FlagAccounted`, `Provenance`, `ErrorCountIsLocal`, `KeptForGood` |
| `extract_fair` | both kinds of job, two archives that share a report, 1 fault of any kind | `ArchivesAreExtracted` |
| `extract_flag` | 1 archive, 1 fault | the flag is set although a file failed (violation) |
| `load_edits` | 1 load at a time, 2 fuel types, an edit, a request, 1 abort | `TypeOK`, `FuelsAreLinked`, `UnmappedCanBeMapped`, `RequestSeesOneLoad`, `ImplementsLiveData` |
| `load_overlap` | 2 loads, 2 versions of a report and one that was not submitted, an edit, views of others that depend on each other | `LiveTablesAgree`, `LoadIsFresh` |
| `load_ends` | 2 loads and a request | `LoadsEnd`, `RequestsEnd` |
| `transform` | some 200 sets of reports: fuels in different places, registrations and tombstones, other versions and facilities | `LoadSucceeds`, `NoRowIsLostOrRepeated`, `RefersToWhatEnclosesIt`, `StaysInReport` |
| `upload` | one pod at a time, 3 URLs, 2 retries, 4 faults, 1 change of the site | `RunsAccount`, `OutputIsTrue`, `WrittenOnce`, `EachUrlIsUploaded`, `RunsEnd` |
| `pipeline` | a run of each DAG, again and again, 1 failing task | `LoadPublishesItsRun`, `EachArchiveGoesLive` |
| `pipeline_grants` | all tasks of the load DAG | a run in which all tasks succeed leaves a user without grants (violation) |
| `web_client` | each part on its own: 2 fuels, 3 dates, 2 rows, 2 entries and 2 saves, a row of another user, a lost message; 2 fuel types with all kinds of rows, 2 mutations, a disturbance; 2 reports and a wrong id, 3 changes of the route; 3 archives and selections; 2 keys, 4 requests | `TypeOK`, `OverlapHasACause`, `SettledChargesAreRight`, `SettledMappingsAreRight`, `SettledPageAgrees`, `ContentsAreOfTheSelected`, `TimersAreOwn`, `SettledShowsTheDatabase`, `ImplementsLatestWins`, `SelectionIsNeverStuck` |
| `web_session` | 2 browsers, 4 accounts (two of one email, one without access, one from outside), a row from before the flag, a path or link, 2 logins, 2 ends of a session, a download, a failure | `LoginReturns`, `RefusedForAReason`, `LogNamesTheDownloader`, `RequestsAreAnswered` |

### Bounds

`MaxRows`, `MaxFaults`, `MaxGeneration`, `MaxRetries` and `MaxVersion` are the
bounds on what grows; each is named in its module and appears in a guard. Two
faults are enough for a fault during the recovery from another. Two files of one
facility and year, with one that is not submitted, are all a choice of the final
report can tell apart. Two loads are what the load DAG starts; three wait in the
same queue. `load_ends` has no fuel types: who waits for whom does not depend on
the rows. `load_overlap` ends after its first generation, with both loads under
way at any point of each other; `load_edits` goes on to a second. `upload` has
three URLs, so that one is first, one last and one in between when a run breaks
off. `pipeline` leaves out five tasks of the load DAG that only grant to the
second user or create the schema of the application (`Part`); the archives
cannot tell.

`web_client`: three dates are the fewest with which a period can be inside another
one and end before it begins; two mutations in flight can overtake each other; the
third push of `XmlDiff` is that of a timer that was set before the first; of the
three archives one is fetched, one selected meanwhile, one selected last; with two
keys and four requests a mutation is held back, replaced, flushed by another key, and
followed by something. The answers of a page do not depend on how many rows the lists
have beyond the second, but for `startIndex`, which counts three rows: with the rows
of the instance it only counts from the end. `web_session`: two browsers are
two logins that race, of one account or of two with one email, and one session that
ends while the other begins. A redirect has at most two steps. Each browser starts at a
page with a button, so one path or link is enough for a session that ends at the
dashboard, a link from there, and a login from the page it leads to; or for
a page that is asked for with a session that ends before its query.

In `transform` the reports differ in what the joins compare. `ByFuel` has two to
four fuels that differ in two of the five places (process, sub-process, units,
unit, fuel), and eight that differ in three, each with emissions of both lists,
factors of both kinds: a join that forgets one place, or confuses two, finds
more than one fuel. `ByRegistration` has none, one or two codes and identifiers in
the registration and in the tombstone. `ByFile` has the other reports: an
earlier version, LFO facilities of the same and another year, one that was not
submitted, an R3 report.

### Fairness

* `EcccExtract`: `WF` of each job's steps: the DAG starts the jobs every day, and
  Kubernetes runs what is started. No fairness of faults; `Deadline` is a step of
  the job because `activeDeadlineSeconds` is enforced by Kubernetes. It is what
  `ArchivesAreExtracted` needs: without it a killed worker blocks the job
  (its mutant).
* `SwrsLoad`: `WF` of steps that need no lock; `SF` of those that do, because
  PostgreSQL queues lock requests first come first served, so one that is free
  again and again is granted; `WF` of `BreakDeadlock`, the deadlock detector. Nobody
  is obliged to start a load, an edit or a request.
* `EcccUpload`: `WF` of the start of a run (daily) and of its steps.
* `SwrsPipeline`: `WF` of the daily start and of the steps of runs, `SF` for the fetch
  DAG, whose trigger waits for a place among the load runs.
* `WebClient`: `WF` of the server's and the network's steps on the page of the fuel
  mappings (`Serve`, `Receive`): a request that is not lost is answered. Nothing
  else is obliged to happen.
* `WebSession`: `WF` of the server's steps for each browser (`ServerStep`): a page that
  is asked for is rendered, a callback goes on. Users may stay on a page or in the
  middle of a login for ever.

### What the violated runs say

1. `extract_flag`: `xml_files_extracted` is set after the pool is joined whatever
   its tasks returned. A report that failed once, for a reason that would pass, is
   in no table and no later run looks for it. The documented meaning is that all
   files were inserted.
2. `pipeline_grants`: two tasks load, each followed by one user's grants; the later
   load replaces the schema and drops the other user's.

Others were met while modelling and have no run of their own.

* `load.sql:70`: `views_to_recreate` is filled before `swrs` is locked, and the load then
  waits for whoever reads its tables. A view that is created in between is dropped by
  the cascade and is in no list; so is, at any time, one that reads `swrs` only through
  another view. The comment on the function (line 124) says that the views which were
  dropped by the cascade are recreated. `:97`: they are recreated in the order they
  were found in, and one that reads another one fails the load if it comes first
  (`RecreateFails`).
* `cas_ggircs_swrs_dags.py:61`: only one of the three `extract_zip_files` tasks waits
  for the upload, and nothing waits for that one. What a run uploads is loaded the day
  after (`EachArchiveGoesLive` shows that it is, eventually).
* `extract_xml_files.py:33`: an exception of one archive ends the script, and
  the row is in the next run's list again: an object that is no zip file keeps
  those that are listed after it from being extracted. `ArchivesAreExtracted` assumes there is
  none.
* `zip_file_processor.py:59`: a member that could not be read is logged as an
  error and counted as a success.
* `upload.js:54`: the retries are counted over all URLs, so one that comes late
  can be given up at its first rejection. `upload.js:91`: a run that uploads a
  file and gives up on another writes no output, so the file is in no list of
  uploaded files.
* `load_emission.sql:172`: an emission that is in a unit but in no fuel has
  `fuel_idx` 0 and joins the first fuel of that unit when the names of the units
  agree (`RefersToWhatEnclosesIt` speaks of the others).
* `load_emission.sql:176`, `load_identifier.sql:35`, `load_facility.sql:53`: the
  reports that are not `Regular`, above.
* `additional_data.sql:14`: the queries look one, two, three and five levels below
  a sub-process; what is four levels below is in no table.
* `eio_emission.sql:27`: `emissions_idx` counts elements of a name that siblings of
  `Emissions` do not have.
* `create_fuel_mapping_cascade.sql:19`: an edit updates `fuel`, but not the mapping
  of emissions (flared and vented gas); those change with the next load.
* `carbon_tax_calculation.sql:48`: the three parts are joined by `union`, not
  `union all`: two fuels of a report with the same type, category and amount are
  one row, and taxed once.

In the web application:

* `CreateEditFuelChargeRow.tsx:86`: each date is checked for itself, so a period around
  another one passes; an end before the start is not checked at all; the fuel may be
  changed between the check and the save; a date in the database's rows of another
  user is unknown. `OverlapHasACause` lists these.
* `createFuelCharge.ts`, `updateFuelCharge.ts`: the mutations have no `onError`, and the
  form is cleared before they are sent: one that is lost or refused leaves no trace.
* `CarbonTaxActFuelType.tsx:77`: with fewer than three periods `startIndex` is
  negative and `slice` counts from the end: of two periods only the last one is on
  display. `:92`: without `showAll` in the URL the first click changes nothing.
* `FuelSelectionComponent.tsx:43`: a fetch that ends after the user has left the
  page replaces the route and brings them back.
* `UnmappedFuelTypeRow.tsx:57`: Apply without a choice throws.
* `client.ts:20`: a page that is opened again within a minute of its query shows the
  lists from before the mutations in between.
* `ReportSelector.tsx:70`: a control that is used while a timer runs is taken back in
  the route, while the control shows it; a timer that runs out after the user has left
  the page brings them back. `:100`: a text that is typed after a swap goes to the
  other side than the one its column shows.
* `DiffControls.tsx:18`: the controls do not start with what the URL says.
* `FileDetails.tsx:18`: an answer that comes late is listed under another archive; a
  fetch that fails leaves the spinner for good.
* `withRelayOptions.tsx:17`: a page of the application can be shown for nobody, after a
  link or when the session ends between the check and the query; its button
  (`LoginButton.tsx:7`) sends no `redirectTo`, and the login leads to the landing route.
* `user-groups.js:32`: `getPriorityGroupData` finds the group with the priority, and
  writes into it the name that the loop ended with, that of the last group. The name
  decides the role of each request, so a user whose last group is a lesser one has
  its role, while the landing route is that of the other.
* `eccc.js:67`: the answer to the mutation that logs a download is not looked at. `fetch`
  throws when the connection fails; a status of 4xx or 5xx, or errors of GraphQL, are
  answers, and the file is sent without a row, although the comment on the table
  (`eccc_file_download_log.sql:44`) calls it a log of which user downloaded which files.
  The mutation is made with the cookie of the request, so the row names
  whoever has the session by then, or nobody (`downloaded_by` may be null); `:82`: the
  status of the file server's answer is not passed on, an error arrives as a success.
* `create_ggircs_user_from_session.sql:20`: a second account with the email of a row
  that was already moved is refused, at each login.
* `createUser.js:17`: `UNAUTHORIZED_IDIR_USER` is in no list of groups, so the
  mutation is made for everybody.
* `index.js:36`: the shutdown calls `close` of the express application, which
  has none.

Properties that hold only without overlap: `WrittenOnce` (two pods can find the
same name free), and that no version of a report ever leaves the history (a
refresh that waits for another load publishes from a snapshot older than what
that load published; `LoadIsFresh` is what holds).

## 4. Proofs

| Theorem | Property | For every |
|---|---|---|
| `EcccExtractProofs!TypeCorrect` | `TypeOK` | number of jobs, archives, members, faults |
| `EcccExtractProofs!FlagIsAccounted` | `FlagAccounted` | |
| `EcccExtractProofs!ProvenanceHolds` | `Provenance` | |
| `EcccExtractProofs!ExtractedIsKept` | `KeptForGood` | |
| `EcccExtractProofs!CountIsLocal` | `ErrorCountIsLocal` | |
| `SwrsLoadProofs!TypeCorrect` | `TypeOK` | number of loads, edits, requests, files, fuel types |
| `SwrsLoadProofs!FuelsLinked` | `FuelsAreLinked` | |
| `SwrsLoadProofs!UnmappedIsRight` | `UnmappedCanBeMapped` | |
| `SwrsLoadProofs!TablesAgree` | `LiveTablesAgree` | |
| `SwrsLoadProofs!OneLoad` | `RequestSeesOneLoad` | |
| `SwrsLoadProofs!LoadsAreFresh` | `LoadIsFresh` | |
| `SwrsLoadProofs!LoadIsAtomic` | `ImplementsLiveData` | |
| `WebClientProofs!TypeCorrect` | `TypeOK` | number of fuels, dates, rows, saves, reports, archives, keys, users' saves, faults |
| `WebClientProofs!ChargesAreRight` | `SettledChargesAreRight` | |
| `WebClientProofs!OverlapsAreAround` | `OverlapHasACause` | |
| `WebClientProofs!MappingsAreRight` | `SettledMappingsAreRight` | |
| `WebClientProofs!PageAgrees` | `SettledPageAgrees` | |
| `WebClientProofs!ContentsAreRight` | `ContentsAreOfTheSelected` | |
| `WebClientProofs!TimersStayOwn` | `TimersAreOwn` | |
| `WebClientProofs!MiddlewareIsLatestWins` | `ImplementsLatestWins` | |
| `WebClientProofs!RestIsRight` | `SettledShowsTheDatabase` | |
| `WebSessionProofs!RefusalsHaveReasons` | `RefusedForAReason` | number of browsers, accounts, rows, logins, failures |
| `WebSessionProofs!LoginsReturn` | `LoginReturns` | |
| `WebSessionProofs!RowsNameTheDownloader` | `LogNamesTheDownloader` | the same, if each account has a sub of its own |
| `EcccUploadProofs!TypeCorrect` | `TypeOK` of the module | number of pods, URLs, retries, faults, changes of the site |
| `EcccUploadProofs!UrlsAreAccounted` | `RunsAccount` | |
| `EcccUploadProofs!OutputStaysTrue` | `OutputIsTrue` | |
| `EcccUploadProofs!ObjectsAreWrittenOnce` | `WrittenOnce` | the same, for one pod at a time and URLs with names of their own |
| `SwrsPipelineProofs!TypeCorrect` | `TypeOK` of the module | number of DAG runs, archives, failing tasks |
| `SwrsPipelineProofs!EachLoadPublishesItsRun` | `LoadPublishesItsRun` | |
| `SwrsTransformProofs!NoneIsLostOrRepeated` | `NoRowIsLostOrRepeated` | number and size of reports, if fuels differ in what factors are joined by |
| `SwrsTransformProofs!ReferencesStay` | `StaysInReport` | number and size of reports |
| `SwrsTransformProofs!ReferencesEnclose` | `RefersToWhatEnclosesIt` | number and size of reports that are nested as reports are |
| `SwrsTransformProofs!RegularReportsLoad` | `LoadSucceeds` | number and size of reports that are nested and listed as reports are |

They rest on the named assumptions of the modules (`ConstantsAssumption`,
`DataAssumption`, `TransactionAssumption`, `RequestsAssumption`, `UploadAssumption`,
`PipelineAssumption`, `SessionAssumption`, `PathAssumption`,
`SwrsTransformLoadAssumption`), which TLC evaluates in the runs.
One conjunct of `PathAssumption` is no assumption about the system: that selecting the
known groups of a sequence gives a sequence of known groups is a fact about
`SelectSeq` which takes an induction the provers cannot do. Five theorems have
hypotheses of their own: `WrittenOnce` fails when pods overlap or when two URLs end
in the same name (`OneAtATime`, `OwnNames`; the run has both), the log rests on
subs that no two users share (`SubsAreOwn`, checked of the accounts of the run), and
that no row is repeated, that references find what encloses the element, and that
regular reports load, on `FuelsAreApart`, `ReportsAreNested`, `ReportsAreListed` and
`AttachmentsAreApart` (checked of the reports and attachments of the run; see
*Joins*, *Enclosing elements* and *Keys*). The
theorems of the client are about the `Spec` of `WebClient`, the one that `web_client`
checks: `PartAssumption` has the assumptions of the pages, whose invariants are proved
of their instances, and `PartsMove` carries them over to the whole.

**Extraction.** `FlagAccounted` is about rows that are flagged, so it says
nothing while a job works. `JobsInv` adds what a running job knows: its rows are
registered, the pending and killed tasks are members of the archive it has open,
and *every other member of that archive is already accounted for*. Each task
moves one member from pending to accounted for; `FinishArchive` is enabled when
none is pending or killed, which is then all of them. Two jobs on one archive do not
disturb each other because `Accounted` only grows. `KeptForGood` also needs
that md5 hashes are unique in `xmlFile`, which `on conflict do nothing` keeps.

**Load.** `FuelsAreLinked` relates the live fuels to the mappings, and a load
puts in fuels that it computed long before. The invariant `Inv` carries the
agreement over that time: `LocksExclude` (no two transactions hold conflicting
locks), `LoadInv` (from `CloneSchema` on a load holds share row exclusive on
`fuel_mapping`; after `LoadFuel` its fuels are those of the *current* mapping;
while it holds the locks on both tables nobody else has read or written them),
`EditorInv` and `EditorsDiffer` (an edit past its insert holds row exclusive on
`fuel_mapping`, and its type is not mapped), `ReaderInv` (a request that has read a live
table holds access share on it, and has seen only the current generation). The
mapping can then change only by an edit that holds a lock which conflicts with
the load's; a swap only when no request has read. `Computed` says that
the live tables are outputs of `FinalReport` and `LoadedFuel`, which is what
`LiveTablesAgree` and the refinement need. Frame lemmas, one per kind of
actor (`LoadMoves`, `EditorMoves`, `ReaderMoves`, `OthersMove`,
`RollBackKeepsInv`), keep the proof of a step to what the step changes.

**Freshness.** `LoadIsFresh` compares what a load publishes with the reports
that were there when it started. A report that is ranked has a greatest rank among
those of its facility and year: numbers less than a bound have a greatest one by
well-founded descent (`LeastNumber`, `GreatestOfFinite`), for which
`WellFoundedInduction` has a theorem about sets, without an operator parameter. The
invariant `Fresh` says at each step of a load that the final reports it computed are at least those of its
start.

**Error count.** `JobInv` has it that the failed members a job has counted are
members of the archive in hand that were given up, so their number is bounded by that
of `GivenUp`, a set that only grows; rows that are not there yet have the count 0.

**Rate periods.** `ChargesChecked` is the invariant: as long as a form has no error,
each of its dates is outside every row it was compared with (`FormChecked`), and a save
takes only rows *both* dates were compared with (`RowChecked` of the request, then of
the table). It is inductive because an answer that resets the dates of a form empties
what they were compared with. That what was compared has the right type needs that all
rows of a list are in the store (`ChargesKnown`). Of two intervals one of which has
neither end in the other, and which overlap, the first is around the second.

**What the page of charges shows at rest.** `ChargesFollowed` is about every moment: each
row has one fuel for good and is in the list of that fuel only; an answer, and a row of
the store, say a version of the row that is earlier, or equal and then the same; and a
row of this user that is not listed, or not shown as it is, has its answer on the way, unless
it is in `overtaken`. When no answer is on the way that is the property.

**What the page of mappings shows at rest.** The invariant says that there is a
*history* `H` of the table, a function of the number of commits, such that each thing
that is under way is a view of it (`Told`): the cache and the answers to queries are the
table as it was at their stamp; the answer to a save has the unmapped types of its commit,
which changed one type; each commit later than `fresh` has its answer on the way; and
since `fresh` a type changed only by what has still to be answered. No variable of the model has this
history, so it is quantified: a commit extends it by the new table. As long as
nothing came late or was doubtful (`InTurn`), the store is the table as it was at
`fresh` (`Orderly`), and the rest of `Orderly` is what makes one answer bring the store to
the next commit: since `fresh`, a type that had a fuel has kept it or lost it; one for
which an update is asked had none; one for which a removal is asked had the fuel it is
removed from, or none. The attempt to prove it for any number of saves found what two
saves do not show: a type that is removed twice and mapped again between the two. The
second removal then takes away the new mapping, and its answer is applied to the list the
first one was for. `SettledMappingsAreRight` excludes it by `doubt`, which is set by a
mapping of a type of which a removal is in flight.

**Comparison page.** `Calm` holds until something disturbs the page: one timer at
most runs, and it was set by the selector that is being edited, with the query and the
router as they are now; the selector that is not edited agrees with its side of the
query; and the controls show what the query says. A timer that runs out then pushes
what is on display.

**Browser of archives.** Fetches are numbered by selections, and the one with the
last number is for the archive that is selected (`LastIsSelected`).

**Debouncing.** The invariant is `TimersAreOwn` with at most one mutation waiting. It
is inductive because `debouncedFn` and the replacement both clear the timer of what
the variable holds before they change it. The refinement follows step by step: a timer
that runs out is `Send`, which needs that it is the timer of what waits.

**Optimistic responses.** A mutation waits in the middleware, or is on its way, or is
answered (`InOnePlace`), and the last of a key is in the map of disposables. For a key that is
not muddled `InOrder` says that the last one is still under way, or that its answer
is there, it was accepted, its value is in the database, and nothing else with the key
is under way. So an answer that disposes of the last response puts its value there.

**Logins.** `RefusedForAReason` is not inductive: the row that is the reason could
move to another account. `LastingReason` says that there is one without the flag, and
such rows are never taken away (`UpsertKeeps`); that the row that made the insert fail
is one of them needs `NoneToMove`: a login that goes on to the insert saw no row with
its sub, and rows with the flag are never made.

**The page after the login.** `LoginReturns` speaks of one moment; `Follows` of the whole
way: the URL in hand is the page that was asked for, or the page of the login
with it as its `redirectTo`, or, past the button, that page itself. What is
shown is one of the two: the first only to someone, the second only to guests. Each
redirect takes one to the other. The query of a page reads the session later than
the check did, so what the check found has to last: `GuestChecked` says that the page
of the login that was let pass still is for a guest, because in between a
session may end but none begins. Where the query finds nobody, the page is no longer
on the way (`wanted` is forgotten), and so it is after a link. The end of a session
changes nothing else, because the page that is on display does not know of it.

**The log.** The row of the log names the user whose `session_sub` is that of the session,
or nobody. `LoginsHaveRows`: an account whose login went through has a row. That
holds because a row with the sub of an account is never moved to another one
(`RowsMatch`), which is where `SubsAreOwn` comes in. `DownloadOK` keeps the download and
the session together until `ended` is set; so the row that is written, if one is, is that of
the account that asked (`RowIsOfTheAccount`). That one is written is not proved:
it is not so.

**Upload.** `RunsAccount` says nothing of a run that waits for the listing, and has
to be told that it has uploaded nothing (`NoneYet`); and that the content in hand is
that of a URL to do (`InHand`), so that what is stored is what is reported. Objects
are replaced, never removed, so `Names` only grows: this is what makes the facts of
one run survive the others, and the output the runs after it. For `WrittenOnce` the
invariant is `NamesAreFree`: no URL to do has a name that is in the bucket.

**Pipeline.** The archives that are due go down a chain, and the invariant says where
they are at each link: in what the second registration has read, in `zipFile` when it is
done, in what the extraction has read, in `xml` when that is done (`FetchDue`); the
trigger hands them over, and a load has read them (`LoadDue`). The two other
registrations of a run and the tasks of other runs only add to the tables. `InputsStay`
(what a task has read is still there) and `Inactive` (a run that is over has no
tasks) carry it.

**Joins.** A view has at most one row per element, of the element's file
(`Numbered`, `ViewsAreNumbered`), so its rows are finitely many and each has an id of its
own. Each function loads from rows of such views, no two of one element
(`SourcesAreNumbered`); its left joins lose none of them and keep their ids
(`RowsAreThere`, `LoadsKeepIds`); and a join that matches twice would make two rows of one
id, which the primary key refuses (`UniqueIds`). So the rows of a table are as many as
those of its views. `emission_factor` has no such key: its ids are serial, and the join
with the fuels is on fewer columns than the unique index of the fuels. There
the theorem needs `FuelsAreApart`: two fuels of a file that agree in the columns of
the join are one. `Inv` is what connects this with the steps: as long as a load runs,
the views are those of `docs`, and before it starts no table has been loaded. For
`StaysInReport`, the joins are all on the file (`JoinsStay`), the functions load final
reports only (`FinalIsLast`), and the parent of a facility is unique because a second
final LFO report of its organisation and year would give a second row with the facility's id
(`OneParent`).

**Enclosing elements.** The joins compare numbers: how many siblings of a name are
before the process, the sub-process, ... that an element is in. That they find the
element around it, and no other, depends on how reports are nested, and
`ReportsAreNested` says what is used: an element of a level is never inside one of its own
or a deeper level (`Level`, so that "the" process of an element is one), a fuel is in
a unit, a factor in a fuel and so on (`Within`), totals of an R3 report are in no
sub-process, fuels and emissions are below the first child of `ActivityData`. All 86
reports under `src/test` and in the SQL tests are nested so. Paths are treated by
their beginnings (`Up`, `AncestorIs`): what encloses `e` is one beginning of it (`Inside`),
with the position of `e` up to there (`PositionIs`), so it is among what the join
finds (`SubProcessFound`, `UnitFound`, `FuelEncloses`, `ParentFound`, `AddressFound`). It is the only
one because the unique indexes of the views are on the columns of the
joins: a load that runs has passed them (`KeysHold`, `KeysStay`). Where the join is on fewer
columns than the index, the fuel of a factor, it is `FuelsAreApart` that
makes it one.

**Keys.** `LoadSucceeds` says that nothing refuses a load of regular reports: none of the
unique indexes of 14 views, no scalar subquery, no primary key and no foreign key. That two
elements of a report never have one key depends on how reports list what is
repeated in them, and `ReportsAreListed` says what is used. Elements of
one name that agree in the *names* in their key (their activity, whether they are in the
registration or the tombstone, what their emissions belong to) are on paths of the same
names; and of the elements on those paths only such have siblings of their name as the
*numbers* in the key count (`Counted`). It speaks of names and of single elements,
never of keys or counts; all 86 reports under `src/test` and in the SQL tests are like this.
That the keys differ is the proof: numbers of siblings tell siblings apart
(`SiblingsAreApart`), so two elements with one key take the same step at each level
(`StepsMeet`), and paths that never part are one (`PathsMeet`, by the least level at
which they differ). `PlacedApart`, `ListedApart`, `ItemizedApart` and `DescribedApart`
are this for each kind of key, and `KeysAreUnique` the 14 indexes together.

For the tables, `RowsOnce` goes through the joins of each load function; so ids are
unique (`IdsAreUnique`). Every part of `Regular` is used: the totals of an R3 report and the
attachments of a sub-process for the keys (`TotalsRowsApart`, `DescribedApart`), the
BCGHGID for the subquery (`OneBcghgid`), the primary code, `TotalEmissions` and the
LFO for the joins (`OneNaics`, `ReportsFoundOnce`, `OneLfo`). Foreign keys hold because what a join finds is a row that the function of
its table loads too (`JoinsPoint`: both are of the same final report) and that function
comes earlier in `Order` (`TargetsComeFirst`; facilities also refer to
each other). `Filling`, the tables filled so far have the ids of their sources, is the
invariant that this needs.

Only model-checked: all liveness properties (fairness and `ENABLED` are out of the
prover's reach).

## 5. Plan

Done, in this order, the most important first: the extraction (proved), the load
(proved), the upload, the DAGs, the data flow of the load, the pages and the mutation
layer of the web client (all safety properties proved), the sessions, logins and
downloads of the web server (proved); the safety of the upload and of the DAGs (proved);
the joins of the load, and that regular reports load (proved).

1. `SwrsLoad` over the tables of `SwrsTransformLoad`, with the numbers that
   `row_number()` gives and the requests that keep them.
2. `CarbonTax`: that each fuel is taxed once, periods of fuel charges and implied
   emission factors, the pro-rated rates against a day-by-day reference
   definition.
3. An abstract ledger of archives (published, registered, extracted, live) that
   `EcccExtract` and `SwrsPipeline` implement.
4. The shutdown of the web server, with requests under way.

## 6. Not modelled

Formatting and layout of pages, certificates and backups, the contents of xml
files beyond what the joins use, and the deployment itself. The
database's isolation and locks, Kubernetes, Airflow, the sign-on library and the
network are modelled as far as the code relies on them, and marked external. The file
server keeps no state between requests, and the threaded download it contains is
not the one it uses. The views of `deploy/swrs/public` and the history compute what
they show from tables that are modelled.
