-------------------------- MODULE EcccUploadProofs --------------------------
(***************************************************************************)
(* Proofs about the upload, for any number of pods that run at the same    *)
(* time, of URLs, retries, faults and changes of the site.  Objects are    *)
(* replaced but never taken away, so that a name that was there when a run *)
(* listed the bucket is there for good; and the URL that is stored is one  *)
(* of those to do, so that it moves from there to the uploaded ones.       *)
(***************************************************************************)
EXTENDS EcccUpload, TLAPS

(* RunsAccount of one run, with the names that are in the bucket; the      *)
(* content in hand is that of a URL to do; and a run that waits for the    *)
(* listing has uploaded nothing.                                           *)
Accounts(s, names) ==
  s.pc \in {"fetch", "stream", "write"} =>
    /\ s.found = s.skipped \cup s.uploaded \cup s.todo
    /\ s.skipped \cap s.uploaded = {}
    /\ (s.skipped \cup s.uploaded) \cap s.todo = {}
    /\ \A u \in s.skipped \cup s.uploaded : BaseName[u] \in names
InHand(s) == s.pc = "stream" => \A c \in s.got : c.url \in s.todo
NoneYet(s) == s.pc = "list" => s.uploaded = {}
RunOK(s) == Accounts(s, Names) /\ InHand(s) /\ NoneYet(s)

Inv == TypeOK /\ (\A r \in Run : RunOK(run[r])) /\ OutputIsTrue

LEMMA IdleOK == Idle \in RunState /\ RunOK(Idle)
  BY UploadAssumption DEF Idle, RunState, RunOK, Accounts, InHand, NoneYet

LEMMA InitHolds == Init => Inv
<1> SUFFICES ASSUME Init PROVE Inv
  OBVIOUS
<1>1. TypeOK
  <2>1. 0 \in Version /\ 0 \in 0 .. MaxFaults
    BY UploadAssumption DEF Version
  <2>2. site \subseteq Content
    BY <2>1 DEF Init, Content
  <2> QED BY <2>1, <2>2, IdleOK DEF Init, TypeOK, Output
<1> QED BY <1>1, IdleOK DEF Init, Inv, OutputIsTrue

-----------------------------------------------------------------------------
(* What a run does to itself, while no object is taken away.               *)
LEMMA RunMoves ==
  ASSUME Inv, NEW r \in Run, NEW s \in RunState,
         run' = [run EXCEPT ![r] = s],
         UNCHANGED <<site, version>>, bucket' \subseteq Object, faults' \in 0 .. MaxFaults,
         Names \subseteq Names', Accounts(s, Names'), InHand(s), NoneYet(s),
         OutputIsTrue', output' \in Output
  PROVE  Inv'
<1>1. run \in [Run -> RunState]
  BY DEF Inv, TypeOK
<1>2. TypeOK'
  BY <1>1 DEF Inv, TypeOK, Version
<1>3. ASSUME NEW p \in Run PROVE RunOK(run[p])'
  <2>1. CASE p = r
    <3>1. run'[p] = s
      BY <1>1, <2>1
    <3> QED BY <3>1 DEF RunOK, Accounts, InHand, NoneYet, Names
  <2>2. CASE p # r
    <3>1. run'[p] = run[p] /\ RunOK(run[p])
      BY <1>1, <2>2 DEF Inv
    <3> QED BY <3>1 DEF RunOK, Accounts, InHand, NoneYet
  <2> QED BY <2>1, <2>2
<1> QED BY <1>2, <1>3 DEF Inv

(* The same, when the bucket stays as it is.                               *)
LEMMA OnlyRunMoves ==
  ASSUME Inv, NEW r \in Run, NEW s \in RunState, RunOK(s),
         run' = [run EXCEPT ![r] = s], RunOnly, faults' \in 0 .. MaxFaults
  PROVE  Inv'
<1>1. UNCHANGED <<site, version, bucket, output>> /\ Names' = Names
  BY DEF RunOnly, Names
<1>2. Accounts(s, Names') /\ InHand(s) /\ NoneYet(s)
  BY <1>1 DEF RunOK
<1>3. bucket' \subseteq Object /\ OutputIsTrue' /\ output' \in Output
  BY <1>1 DEF Inv, TypeOK, OutputIsTrue
<1> QED BY <1>1, <1>2, <1>3, RunMoves

LEMMA FaultCount ==
  ASSUME Inv, Fault \/ UNCHANGED faults
  PROVE  faults' \in 0 .. MaxFaults
  BY UploadAssumption DEF Fault, Inv, TypeOK

-----------------------------------------------------------------------------
LEMMA PublishKeeps ==
  ASSUME Inv, NEW u \in Url, Publish(u)
  PROVE  Inv'
<1>1. version' \in Version /\ site' \subseteq Content
  BY UploadAssumption DEF Publish, Inv, TypeOK, Version, Content
<1>2. UNCHANGED <<bucket, run, output, faults>> /\ Names' = Names
  BY DEF Publish, Names
<1>3. TypeOK'
  BY <1>1, <1>2 DEF Inv, TypeOK
<1> QED BY <1>2, <1>3 DEF Inv, RunOK, Accounts, InHand, NoneYet, OutputIsTrue

LEMMA StartRunKeeps ==
  ASSUME Inv, NEW r \in Run, StartRun(r)
  PROVE  Inv'
<1> DEFINE s == [Idle EXCEPT !.pc = "spider"]
<1>1. s \in RunState /\ RunOK(s)
  BY IdleOK DEF RunState, RunOK, Accounts, InHand, NoneYet
<1> QED BY <1>1, OnlyRunMoves, FaultCount DEF StartRun

(* What ends a run.                                                        *)
LEMMA EndKeeps ==
  ASSUME Inv, NEW r \in Run, run' = [run EXCEPT ![r] = Idle], RunOnly,
         Fault \/ UNCHANGED faults
  PROVE  Inv'
  BY IdleOK, OnlyRunMoves, FaultCount

LEMMA SpiderKeeps ==
  ASSUME Inv, NEW r \in Run, Spider(r)
  PROVE  Inv'
<1>1. PICK seen \in SUBSET OnSite :
        /\ IF seen = OnSite THEN UNCHANGED faults ELSE Fault
        /\ run' = [run EXCEPT ![r] = [Idle EXCEPT !.pc = "list", !.found = seen]]
  BY DEF Spider
<1> DEFINE s == [Idle EXCEPT !.pc = "list", !.found = seen]
<1>2. seen \subseteq Url
  BY DEF OnSite, Inv, TypeOK, Content
<1>3. s \in RunState
  BY <1>2, IdleOK DEF RunState
<1>4. RunOK(s)
  BY DEF Idle, RunOK, Accounts, InHand, NoneYet
<1> QED BY <1>1, <1>3, <1>4, OnlyRunMoves, FaultCount DEF Spider

LEMMA SpiderFinds0Keeps ==
  ASSUME Inv, NEW r \in Run, SpiderFinds0(r)
  PROVE  Inv'
<1> DEFINE s == [run[r] EXCEPT !.retries = @ + 1]
<1>1. faults' \in 0 .. MaxFaults /\ RunOnly
  BY FaultCount DEF SpiderFinds0
<1>2. CASE run[r].retries + 1 >= MaxRetries
  BY <1>1, <1>2, IdleOK, OnlyRunMoves DEF SpiderFinds0
<1>3. CASE ~ (run[r].retries + 1 >= MaxRetries)
  <2>1. run[r] \in RunState /\ run[r].pc = "spider"
    BY DEF Inv, TypeOK, SpiderFinds0
  <2>2. s \in RunState
    BY <1>3, <2>1, UploadAssumption DEF RunState
  <2>3. RunOK(s)
    BY <2>1 DEF RunState, RunOK, Accounts, InHand, NoneYet
  <2> QED BY <1>1, <1>3, <2>2, <2>3, OnlyRunMoves DEF SpiderFinds0
<1> QED BY <1>2, <1>3

LEMMA ListKeeps ==
  ASSUME Inv, NEW r \in Run, List(r)
  PROVE  Inv'
<1> DEFINE known == {u \in run[r].found : BaseName[u] \in Names}
           s == [run[r] EXCEPT !.todo = run[r].found \ known, !.skipped = known,
                               !.pc = IF run[r].found = known THEN "write" ELSE "fetch"]
<1>1. run[r] \in RunState /\ run[r].pc = "list"
  BY DEF Inv, TypeOK, List
<1>2. s \in RunState
  BY <1>1 DEF RunState
<1>3. run' = [run EXCEPT ![r] = s] /\ UNCHANGED faults /\ RunOnly
  BY DEF List
<1>4. RunOK(s)
  <2>1. /\ s.found = run[r].found /\ s.skipped = known /\ s.pc # "stream"
        /\ s.todo = run[r].found \ known /\ s.uploaded = run[r].uploaded
    BY <1>1 DEF RunState
  <2>2. run[r].uploaded = {}
    BY <1>1 DEF Inv, RunOK, NoneYet
  <2> QED BY <2>1, <2>2 DEF RunOK, Accounts, InHand, NoneYet
<1> HIDE DEF s
<1> QED BY <1>2, <1>3, <1>4, OnlyRunMoves, FaultCount

(* Steps that only change where a run is, or its retries.                  *)
LEMMA SameLists ==
  ASSUME Inv, NEW r \in Run, run[r].pc \in {"fetch", "stream"},
         NEW s \in RunState, s.pc \in {"fetch", "hang"},
         s.found = run[r].found, s.todo = run[r].todo,
         s.skipped = run[r].skipped, s.uploaded = run[r].uploaded
  PROVE  RunOK(s)
  BY DEF Inv, RunOK, Accounts, InHand, NoneYet

LEMMA FetchKeeps ==
  ASSUME Inv, NEW r \in Run, Fetch(r)
  PROVE  Inv'
<1>1. PICK c \in site : /\ Current(r, c.url)
                        /\ run' = [run EXCEPT ![r] = [run[r] EXCEPT !.pc = "stream",
                                                                   !.got = {c}]]
  BY DEF Fetch
<1> DEFINE s == [run[r] EXCEPT !.pc = "stream", !.got = {c}]
<1>2. run[r] \in RunState /\ run[r].pc = "fetch" /\ c \in Content
  BY DEF Inv, TypeOK, Fetch
<1>3. s \in RunState
  BY <1>2 DEF RunState
<1>4. /\ s.found = run[r].found /\ s.skipped = run[r].skipped
      /\ s.todo = run[r].todo /\ s.uploaded = run[r].uploaded
      /\ s.pc = "stream" /\ s.got = {c}
  BY <1>2 DEF RunState
<1>5. RunOK(s)
  BY <1>1, <1>2, <1>4 DEF Current, Inv, RunOK, Accounts, InHand, NoneYet
<1>6. run' = [run EXCEPT ![r] = s]
  BY <1>1
<1> HIDE DEF s
<1> QED BY <1>3, <1>5, <1>6, OnlyRunMoves, FaultCount DEF Fetch

LEMMA RejectKeeps ==
  ASSUME Inv, NEW r \in Run, Reject(r)
  PROVE  Inv'
<1> DEFINE s == [run[r] EXCEPT !.retries = @ + 1]
<1>1. run[r] \in RunState /\ run[r].pc = "fetch" /\ run[r].retries < MaxRetries
  BY DEF Inv, TypeOK, Reject
<1>2. s \in RunState
  BY <1>1, UploadAssumption DEF RunState
<1>3. RunOK(s)
  BY <1>1, <1>2, SameLists DEF RunState
<1> HIDE DEF s
<1>4. run' = [run EXCEPT ![r] = s]
  BY DEF Reject, s
<1> QED BY <1>2, <1>3, <1>4, OnlyRunMoves, FaultCount DEF Reject

LEMMA StallKeeps ==
  ASSUME Inv, NEW r \in Run, Stall(r)
  PROVE  Inv'
<1> DEFINE s == [run[r] EXCEPT !.pc = "hang"]
<1>1. run[r] \in RunState /\ run[r].pc \in {"fetch", "stream"}
  BY DEF Inv, TypeOK, Stall
<1>2. s \in RunState
  BY <1>1 DEF RunState
<1>3. RunOK(s)
  BY <1>1, <1>2, SameLists DEF RunState
<1> HIDE DEF s
<1>4. run' = [run EXCEPT ![r] = s]
  BY DEF Stall, s
<1> QED BY <1>2, <1>3, <1>4, OnlyRunMoves, FaultCount DEF Stall

(* The object of a URL replaces one of its name, and no other.             *)
LEMMA StoreAdds ==
  ASSUME Inv, NEW r \in Run, NEW c \in run[r].got,
         bucket' = {o \in bucket : o.name # BaseName[c.url]}
                     \cup {[name |-> BaseName[c.url], content |-> c]}
  PROVE  Names' = Names \cup {BaseName[c.url]} /\ bucket' \subseteq Object
<1>1. c \in Content /\ BaseName[c.url] \in Name
  BY UploadAssumption DEF Inv, TypeOK, RunState, Content
<1>2. bucket' \subseteq Object
  BY <1>1 DEF Inv, TypeOK, Object
<1> DEFINE new == [name |-> BaseName[c.url], content |-> c]
<1>3. new \in bucket' /\ new.name = BaseName[c.url]
  OBVIOUS
<1>4. ASSUME NEW o \in bucket PROVE o.name \in Names'
  <2>2. CASE o.name = new.name
    BY <1>3, <2>2 DEF Names
  <2>3. CASE o.name # new.name
    BY <1>3, <2>3 DEF Names
  <2> QED BY <2>2, <2>3
<1>5. \A o \in bucket' : o.name \in Names \cup {BaseName[c.url]}
  BY <1>3 DEF Names
<1>6. Names' \subseteq Names \cup {BaseName[c.url]}
  BY <1>5 DEF Names
<1>7. BaseName[c.url] \in Names'
  BY <1>3 DEF Names
<1>8. Names \subseteq Names'
  BY <1>4 DEF Names
<1> QED BY <1>2, <1>6, <1>7, <1>8

LEMMA StoreKeeps ==
  ASSUME Inv, NEW r \in Run, Store(r)
  PROVE  Inv'
<1>1. PICK c \in run[r].got :
        /\ bucket' = {o \in bucket : o.name # BaseName[c.url]}
                       \cup {[name |-> BaseName[c.url], content |-> c]}
        /\ run' = [run EXCEPT ![r] = Advance(run[r], c.url)]
  BY DEF Store
<1> DEFINE s == Advance(run[r], c.url)
<1>2. run[r] \in RunState /\ run[r].pc = "stream" /\ c.url \in Url
  BY DEF Inv, TypeOK, Store, RunState, Content
<1>3. /\ s.found = run[r].found /\ s.skipped = run[r].skipped
      /\ s.todo = run[r].todo \ {c.url} /\ s.uploaded = run[r].uploaded \cup {c.url}
      /\ s.pc \in {"write", "fetch"}
  BY <1>2 DEF Advance, RunState
<1>4. s \in RunState
  BY <1>2 DEF Advance, RunState
<1> HIDE DEF s
<1>5. Names' = Names \cup {BaseName[c.url]} /\ bucket' \subseteq Object
  BY <1>1, StoreAdds
<1>6. c.url \in run[r].todo /\ Accounts(run[r], Names)
  BY <1>2 DEF Inv, RunOK, InHand
<1>7. Accounts(s, Names')
  <2>1. s.found = s.skipped \cup s.uploaded \cup s.todo
    BY <1>2, <1>3, <1>6 DEF Accounts
  <2>2. s.skipped \cap s.uploaded = {}
    BY <1>2, <1>3, <1>6 DEF Accounts
  <2>3. (s.skipped \cup s.uploaded) \cap s.todo = {}
    BY <1>2, <1>3, <1>6 DEF Accounts
  <2>4. \A u \in s.skipped \cup s.uploaded : BaseName[u] \in Names'
    BY <1>2, <1>3, <1>5, <1>6 DEF Accounts
  <2> QED BY <2>1, <2>2, <2>3, <2>4 DEF Accounts
<1>8. InHand(s) /\ NoneYet(s)
  BY <1>3 DEF InHand, NoneYet
<1>9. OutputIsTrue' /\ output' \in Output /\ faults' \in 0 .. MaxFaults
  BY <1>5 DEF Store, Inv, OutputIsTrue, TypeOK
<1>10. run' = [run EXCEPT ![r] = s] /\ UNCHANGED <<site, version>>
  BY <1>1 DEF s, Store
<1> QED BY <1>4, <1>5, <1>7, <1>8, <1>9, <1>10, RunMoves

LEMMA WriteKeeps ==
  ASSUME Inv, NEW r \in Run, Write(r)
  PROVE  Inv'
<1>1. /\ run[r] \in RunState /\ run[r].pc = "write"
      /\ output' = [uploaded |-> run[r].uploaded, skipped |-> run[r].skipped]
      /\ UNCHANGED <<site, version, bucket, faults>> /\ Names' = Names
  BY DEF Inv, TypeOK, Write, Names
<1>2. output' \in Output
  BY <1>1 DEF RunState, Output
<1>3. OutputIsTrue'
  BY <1>1 DEF Inv, RunOK, Accounts, OutputIsTrue
<1>4. Accounts(Idle, Names') /\ InHand(Idle) /\ NoneYet(Idle)
  BY DEF Idle, Accounts, InHand, NoneYet
<1>5. bucket' \subseteq Object /\ faults' \in 0 .. MaxFaults /\ Names \subseteq Names'
  BY <1>1 DEF Inv, TypeOK
<1> QED BY <1>1, <1>2, <1>3, <1>4, <1>5, IdleOK, RunMoves DEF Write

LEMMA StepKeeps == Inv /\ [Next]_vars => Inv'
<1> SUFFICES ASSUME Inv, [Next]_vars PROVE Inv'
  OBVIOUS
<1>1. ASSUME NEW u \in Url, Publish(u) PROVE Inv'
  BY <1>1, PublishKeeps
<1>2. ASSUME NEW r \in Run, RunStep(r) PROVE Inv'
  <2>1. CASE RejectForGood(r) \/ Deadline(r)
    BY <2>1, EndKeeps DEF RejectForGood, Deadline
  <2> QED BY <1>2, <2>1, SpiderKeeps, SpiderFinds0Keeps, ListKeeps, FetchKeeps,
             StoreKeeps, WriteKeeps, RejectKeeps
          DEF RunStep
<1>3. ASSUME NEW r \in Run, StartRun(r) PROVE Inv'
  BY <1>3, StartRunKeeps
<1>4. ASSUME NEW r \in Run, Crash(r) PROVE Inv'
  BY <1>4, EndKeeps DEF Crash
<1>5. ASSUME NEW r \in Run, Stall(r) PROVE Inv'
  BY <1>5, StallKeeps
<1>6. CASE UNCHANGED vars
  <2>1. Names' = Names
    BY <1>6 DEF vars, Names
  <2>2. UNCHANGED <<site, version, bucket, run, output, faults>>
    BY <1>6 DEF vars
  <2>3. TypeOK' /\ OutputIsTrue'
    BY <2>1, <2>2 DEF Inv, TypeOK, OutputIsTrue
  <2>4. \A r \in Run : RunOK(run[r])'
    BY <2>1, <2>2 DEF Inv, RunOK, Accounts, InHand, NoneYet
  <2> QED BY <2>3, <2>4 DEF Inv
<1> QED BY <1>1, <1>2, <1>3, <1>4, <1>5, <1>6 DEF Next

LEMMA InvHolds == Spec => []Inv
  BY InitHolds, StepKeeps, PTL DEF Spec

(* The state of the upload has its type.                                   *)
THEOREM TypeCorrect == Spec => []TypeOK
<1>1. Inv => TypeOK
  BY DEF Inv
<1> QED BY <1>1, InvHolds, PTL

(* However many pods run at once, and whatever fails: no run loses a URL,  *)
(* takes one twice, or counts one before its object is there (upload.js    *)
(* 41-92).                                                                 *)
THEOREM UrlsAreAccounted == Spec => []RunsAccount
<1>1. Inv => RunsAccount
  BY DEF Inv, RunOK, Accounts, RunsAccount
<1> QED BY <1>1, InvHolds, PTL

(* The output names only URLs whose objects are in the bucket, for good.   *)
THEOREM OutputStaysTrue == Spec => []OutputIsTrue
<1>1. Inv => OutputIsTrue
  BY DEF Inv
<1> QED BY <1>1, InvHolds, PTL

-----------------------------------------------------------------------------
(* One pod at a time, and URLs with names of their own: then no URL to do  *)
(* has a name that is in the bucket.                                       *)
OneAtATime == \A r, p \in Run : r = p
OwnNames == \A u, v \in Url : BaseName[u] = BaseName[v] => u = v

NamesAreFree ==
  \A r \in Run : run[r].pc \in {"fetch", "stream"} =>
    \A u \in run[r].todo : BaseName[u] \notin Names

LEMMA FreeWhenRunMoves ==
  ASSUME OneAtATime, Inv, NamesAreFree, NEW r \in Run, NEW s \in RunState,
         run' = [run EXCEPT ![r] = s], UNCHANGED bucket,
         s.pc \in {"fetch", "stream"} =>
           s.todo = run[r].todo /\ run[r].pc \in {"fetch", "stream"}
  PROVE  NamesAreFree'
<1>1. \A p \in Run : run'[p] = s /\ p = r
  BY DEF OneAtATime, Inv, TypeOK
<1>2. Names' = Names
  BY DEF Names
<1> QED BY <1>1, <1>2 DEF NamesAreFree

LEMMA FreeWhenStored ==
  ASSUME OneAtATime, OwnNames, Inv, NamesAreFree, NEW r \in Run, Store(r)
  PROVE  NamesAreFree' /\ bucket \subseteq bucket'
<1>1. PICK c \in run[r].got :
        /\ bucket' = {o \in bucket : o.name # BaseName[c.url]}
                       \cup {[name |-> BaseName[c.url], content |-> c]}
        /\ run' = [run EXCEPT ![r] = Advance(run[r], c.url)]
  BY DEF Store
<1> DEFINE s == Advance(run[r], c.url)
<1>2. run[r] \in RunState /\ run[r].pc = "stream" /\ c.url \in run[r].todo
  BY DEF Inv, TypeOK, Store, RunOK, InHand
<1>3. s.todo = run[r].todo \ {c.url} /\ s.todo \subseteq Url /\ c.url \in Url
  BY <1>2 DEF Advance, RunState
<1> HIDE DEF s
<1>4. Names' = Names \cup {BaseName[c.url]}
  BY <1>1, StoreAdds
<1>5. BaseName[c.url] \notin Names
  BY <1>2 DEF NamesAreFree
<1>6. \A u \in s.todo : BaseName[u] \notin Names'
  BY <1>2, <1>3, <1>4 DEF NamesAreFree, OwnNames
<1>7. run' = [run EXCEPT ![r] = s]
  BY <1>1 DEF s
<1>8. \A p \in Run : run'[p] = s
  BY <1>7 DEF OneAtATime, Inv, TypeOK
<1>9. bucket \subseteq bucket'
  BY <1>1, <1>5 DEF Names
<1> QED BY <1>6, <1>8, <1>9 DEF NamesAreFree

LEMMA FreeWhenListed ==
  ASSUME OneAtATime, Inv, NEW r \in Run, List(r)
  PROVE  NamesAreFree'
<1> DEFINE known == {u \in run[r].found : BaseName[u] \in Names}
<1>1. run[r] \in RunState
  BY DEF Inv, TypeOK
<1>2. run'[r].todo = run[r].found \ known
  BY <1>1 DEF List, Inv, TypeOK, RunState
<1>3. Names' = Names
  BY DEF List, RunOnly, Names
<1> QED BY <1>2, <1>3 DEF OneAtATime, NamesAreFree

LEMMA FreeKeeps ==
  ASSUME OneAtATime, OwnNames, Inv, NamesAreFree, [Next]_vars
  PROVE  NamesAreFree' /\ bucket \subseteq bucket'
<1>1. CASE UNCHANGED <<bucket, run>>
  BY <1>1 DEF NamesAreFree, Names
<1>2. ASSUME NEW r \in Run, NEW s \in RunState, run' = [run EXCEPT ![r] = s],
             UNCHANGED bucket, s.pc \notin {"fetch", "stream"}
      PROVE  NamesAreFree' /\ bucket \subseteq bucket'
  BY <1>2, FreeWhenRunMoves
<1>3. ASSUME NEW r \in Run, run' = [run EXCEPT ![r] = Idle], UNCHANGED bucket
      PROVE  NamesAreFree' /\ bucket \subseteq bucket'
  BY <1>2, <1>3, IdleOK DEF Idle
<1>4. ASSUME NEW r \in Run, Spider(r)
      PROVE  NamesAreFree' /\ bucket \subseteq bucket'
  <2>1. PICK seen \in SUBSET OnSite :
          run' = [run EXCEPT ![r] = [Idle EXCEPT !.pc = "list", !.found = seen]]
    BY <1>4 DEF Spider
  <2> DEFINE s == [Idle EXCEPT !.pc = "list", !.found = seen]
  <2>2. seen \subseteq Url
    BY DEF OnSite, Inv, TypeOK, Content
  <2>3. s \in RunState /\ s.pc = "list"
    BY <2>2, IdleOK DEF RunState
  <2>4. UNCHANGED bucket
    BY <1>4 DEF Spider, RunOnly
  <2> HIDE DEF s
  <2>5. run' = [run EXCEPT ![r] = s]
    BY <2>1 DEF s
  <2> QED BY <1>2, <2>3, <2>4, <2>5
<1>5. ASSUME NEW r \in Run, StartRun(r)
      PROVE  NamesAreFree' /\ bucket \subseteq bucket'
  <2>1. [Idle EXCEPT !.pc = "spider"] \in RunState
    BY IdleOK DEF RunState
  <2> QED BY <1>2, <1>5, <2>1, IdleOK DEF StartRun, RunOnly, RunState
<1>6. ASSUME NEW r \in Run, SpiderFinds0(r)
      PROVE  NamesAreFree' /\ bucket \subseteq bucket'
  <2> DEFINE s == [run[r] EXCEPT !.retries = @ + 1]
  <2>1. run[r] \in RunState /\ run[r].pc = "spider"
    BY <1>6 DEF Inv, TypeOK, SpiderFinds0
  <2>2. CASE ~ (run[r].retries + 1 >= MaxRetries)
    <3>1. s \in RunState /\ s.pc = "spider"
      BY <2>1, <2>2, UploadAssumption DEF RunState
    <3> HIDE DEF s
    <3>2. run' = [run EXCEPT ![r] = s] /\ UNCHANGED bucket
      BY <1>6, <2>2 DEF SpiderFinds0, RunOnly, s
    <3> QED BY <1>2, <3>1, <3>2
  <2> QED BY <1>3, <1>6, <2>2 DEF SpiderFinds0, RunOnly
<1>7. ASSUME NEW r \in Run, Fetch(r)
      PROVE  NamesAreFree' /\ bucket \subseteq bucket'
  <2>1. PICK c \in site :
          run' = [run EXCEPT ![r] = [run[r] EXCEPT !.pc = "stream", !.got = {c}]]
    BY <1>7 DEF Fetch
  <2> DEFINE s == [run[r] EXCEPT !.pc = "stream", !.got = {c}]
  <2>2. run[r] \in RunState /\ run[r].pc = "fetch" /\ c \in Content /\ UNCHANGED bucket
    BY <1>7 DEF Inv, TypeOK, Fetch, RunOnly
  <2>3. s \in RunState /\ s.todo = run[r].todo
    BY <2>2 DEF RunState
  <2> HIDE DEF s
  <2>4. run' = [run EXCEPT ![r] = s]
    BY <2>1 DEF s
  <2> QED BY <2>2, <2>3, <2>4, FreeWhenRunMoves
<1>8. ASSUME NEW r \in Run, Reject(r)
      PROVE  NamesAreFree' /\ bucket \subseteq bucket'
  <2> DEFINE s == [run[r] EXCEPT !.retries = @ + 1]
  <2>1. run[r] \in RunState /\ run[r].pc = "fetch" /\ run[r].retries < MaxRetries
    BY <1>8 DEF Inv, TypeOK, Reject
  <2>2. s \in RunState /\ s.todo = run[r].todo
    BY <2>1, UploadAssumption DEF RunState
  <2> HIDE DEF s
  <2>3. run' = [run EXCEPT ![r] = s] /\ UNCHANGED bucket
    BY <1>8 DEF Reject, RunOnly, s
  <2> QED BY <2>1, <2>2, <2>3, FreeWhenRunMoves
<1>9. ASSUME NEW r \in Run, Stall(r)
      PROVE  NamesAreFree' /\ bucket \subseteq bucket'
  <2> DEFINE s == [run[r] EXCEPT !.pc = "hang"]
  <2>1. s \in RunState /\ s.pc = "hang"
    BY DEF Inv, TypeOK, RunState
  <2> HIDE DEF s
  <2>2. run' = [run EXCEPT ![r] = s] /\ UNCHANGED bucket
    BY <1>9 DEF Stall, RunOnly, s
  <2> QED BY <1>2, <2>1, <2>2
<1>10. ASSUME NEW r \in Run, RunStep(r)
       PROVE  NamesAreFree' /\ bucket \subseteq bucket'
  <2>1. CASE List(r)
    BY <2>1, FreeWhenListed DEF List, RunOnly
  <2>2. CASE Store(r)
    BY <2>2, FreeWhenStored
  <2>3. CASE Write(r) \/ RejectForGood(r) \/ Deadline(r)
    BY <1>3, <2>3 DEF Write, RejectForGood, Deadline, RunOnly
  <2> QED BY <1>4, <1>6, <1>7, <1>8, <1>10, <2>1, <2>2, <2>3 DEF RunStep
<1>11. ASSUME NEW r \in Run, Crash(r)
       PROVE  NamesAreFree' /\ bucket \subseteq bucket'
  BY <1>3, <1>11 DEF Crash, RunOnly
<1>12. ASSUME NEW u \in Url, Publish(u)
       PROVE  NamesAreFree' /\ bucket \subseteq bucket'
  BY <1>1, <1>12 DEF Publish
<1>13. CASE UNCHANGED vars
  BY <1>1, <1>13 DEF vars
<1> QED BY <1>5, <1>9, <1>10, <1>11, <1>12, <1>13 DEF Next

(* As long as pods do not overlap and no two URLs have a name in common,   *)
(* an object is written once, whatever ECCC does to the content of a URL   *)
(* (upload.js 82-84); the extraction reads objects hours later.            *)
THEOREM ObjectsAreWrittenOnce ==
  ASSUME OneAtATime, OwnNames
  PROVE  Spec => WrittenOnce
<1>1. Init => NamesAreFree
  BY DEF Init, Idle, NamesAreFree
<1>2. Inv /\ NamesAreFree /\ [Next]_vars => NamesAreFree'
  BY FreeKeeps
<1>3. Inv /\ NamesAreFree /\ [Next]_vars => [bucket \subseteq bucket']_vars
  BY FreeKeeps
<1> QED BY <1>1, <1>2, <1>3, InvHolds, PTL DEF Spec, WrittenOnce
=============================================================================
