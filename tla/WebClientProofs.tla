-------------------------- MODULE WebClientProofs --------------------------
(***************************************************************************)
(* Proofs about the client in the browser: each part keeps an invariant of *)
(* its own, and a step of the client is a step of the part that runs.      *)
(***************************************************************************)
EXTENDS FuelPageProofs

-----------------------------------------------------------------------------
(* The browser of the archives.  Fetches are numbered by the selections,   *)
(* and the one with the last number is that of the archive that is         *)
(* selected: so an answer is that of another archive only when it came     *)
(* after a later selection.                                                *)
LastIsSelected ==
  \A x \in fetching : x.no <= clicks /\ (x.no = clicks => x.file = selectedFile)

BrowserInv == Browser!TypeOK /\ LastIsSelected /\ Browser!ContentsAreOfTheSelected

LEMMA BrowserInit ==
  ASSUME Browser!BrowserAssumption, Browser!Init
  PROVE  BrowserInv
<1>1. 0 \in 0 .. MaxClicks
  BY DEF Browser!BrowserAssumption
<1>2. Browser!TypeOK
  BY <1>1 DEF Browser!Init, Browser!TypeOK
<1> QED BY <1>2 DEF Browser!Init, BrowserInv, LastIsSelected,
           Browser!ContentsAreOfTheSelected

LEMMA ArchiveSelected ==
  ASSUME Browser!BrowserAssumption, BrowserInv, NEW f \in Archive, Browser!setSelectedFile(f)
  PROVE  BrowserInv'
<1> DEFINE x == [file |-> f, no |-> clicks + 1]
<1>1. /\ clicks + 1 \in 1 .. MaxClicks /\ clicks \in Nat
      /\ clicks' = clicks + 1 /\ clicks' \in 0 .. MaxClicks
  BY DEF Browser!BrowserAssumption, Browser!setSelectedFile, BrowserInv,
     Browser!TypeOK
<1>2. fetching \subseteq [file : Archive, no : 1 .. MaxClicks]
  BY DEF BrowserInv, Browser!TypeOK
<1>3. fetching' = fetching \cup {x} /\ selectedFile' = f
  BY DEF Browser!setSelectedFile
<1>4. x \in [file : Archive, no : 1 .. MaxClicks]
  BY <1>1
<1>5. Browser!TypeOK'
  BY <1>1, <1>2, <1>3, <1>4 DEF Browser!setSelectedFile, BrowserInv,
     Browser!TypeOK
<1>6. LastIsSelected'
  <2>1. \A y \in fetching : y.no <= clicks /\ y.no \in Nat
    BY <1>2 DEF BrowserInv, LastIsSelected
  <2> QED BY <1>1, <1>3, <2>1 DEF LastIsSelected
<1>7. Browser!ContentsAreOfTheSelected'
  BY DEF Browser!setSelectedFile, Browser!ContentsAreOfTheSelected
<1> QED BY <1>5, <1>6, <1>7 DEF BrowserInv

LEMMA ContentsArrive ==
  ASSUME BrowserInv, NEW x \in fetching, Browser!setFileContents(x)
  PROVE  BrowserInv'
<1>1. x.file \in Archive /\ x.no \in Nat /\ clicks \in Nat
  BY DEF BrowserInv, Browser!TypeOK
<1>2. Browser!TypeOK'
  BY <1>1 DEF Browser!setFileContents, BrowserInv, Browser!TypeOK
<1>3. LastIsSelected'
  BY DEF Browser!setFileContents, BrowserInv, LastIsSelected
<1>4. Browser!ContentsAreOfTheSelected'
  <2>1. SUFFICES ASSUME ~ outrun' PROVE x.file = selectedFile
    BY DEF Browser!setFileContents, Browser!ContentsAreOfTheSelected
  <2>2. ~ (x.no < clicks)
    BY <2>1 DEF Browser!setFileContents
  <2> QED BY <1>1, <2>2 DEF BrowserInv, LastIsSelected
<1> QED BY <1>2, <1>3, <1>4 DEF BrowserInv

LEMMA BrowserStep ==
  ASSUME Browser!BrowserAssumption, BrowserInv, [Browser!Next]_(Browser!vars)
  PROVE  BrowserInv'
<1>1. CASE Browser!setFiles
  BY <1>1 DEF Browser!setFiles, BrowserInv, Browser!TypeOK, LastIsSelected,
     Browser!ContentsAreOfTheSelected
<1>2. ASSUME NEW f \in Archive, Browser!setSelectedFile(f) PROVE BrowserInv'
  BY <1>2, ArchiveSelected
<1>3. ASSUME NEW x \in fetching, Browser!setFileContents(x) PROVE BrowserInv'
  BY <1>3, ContentsArrive
<1>4. ASSUME NEW x \in fetching, Browser!FetchFails(x) PROVE BrowserInv'
  BY <1>4 DEF Browser!FetchFails, BrowserInv, Browser!TypeOK, LastIsSelected,
     Browser!ContentsAreOfTheSelected
<1>5. CASE UNCHANGED Browser!vars
  BY <1>5 DEF Browser!vars, BrowserInv, Browser!TypeOK, LastIsSelected,
     Browser!ContentsAreOfTheSelected
<1> QED BY <1>1, <1>2, <1>3, <1>4, <1>5 DEF Browser!Next

-----------------------------------------------------------------------------
(* The comparison of two reports.  As long as nothing disturbs it, at most *)
(* one timer runs: it is that of the selector that is edited, which the    *)
(* other one waits for, and was set with the query of the route as it is.  *)
Waits(t) ==
  /\ editing = {t.selector}
  /\ t.query = query /\ t.router = pushes
  /\ t.value = swrsReportId[t.selector]
  /\ ~ query.reversed

OwnSide(i) == IF i = 1 THEN query.First ELSE query.Second

Agrees(i) ==
  /\ OwnSide(i) = Diff!Entered(i)
  /\ swrsReportIdIsValid[i] # "null" =>
       (swrsReportIdIsValid[i] = "true") = (swrsReportId[i] \in ReportId)

Calm ==
  /\ \/ calls = <<>> /\ editing = {}
     \/ \E t \in Diff!Timer : calls = <<t>> /\ Waits(t)
  /\ \A i \in Diff!Selector \ editing : Agrees(i)
  /\ controls = [collapsed |-> query.collapsed, reversed |-> query.reversed]

DiffInv == Diff!TypeOK /\ (~ disturbed => Calm)

LEMMA DiffStarts ==
  ASSUME Diff!DiffAssumption, Diff!Init
  PROVE  DiffInv
<1>1. query \in Diff!Query
  BY DEF Diff!Init, Diff!DiffAssumption
<1>2. \A i \in Diff!Selector : query[Diff!diffSide(i, query)] \in Diff!Text
  BY <1>1 DEF Diff!Query, Diff!diffSide, Diff!Text
<1>3. Diff!TypeOK
  BY <1>1, <1>2 DEF Diff!Init, Diff!DiffAssumption, Diff!TypeOK, Diff!Controls
<1>4. ASSUME ~ disturbed PROVE Calm
  <2>1. ~ query.reversed /\ ~ query.collapsed
    BY <1>4 DEF Diff!Init
  <2>2. query.First # WrongId /\ query.Second # WrongId
    BY <1>1 DEF Diff!Query, Diff!DiffAssumption
  <2>3. query.reversed \in BOOLEAN /\ query.collapsed \in BOOLEAN
    BY <1>1 DEF Diff!Query
  <2>4. swrsReportId[1] = query.First /\ swrsReportId[2] = query.Second
    BY <2>1, <2>3 DEF Diff!Init, Diff!diffSide, Diff!Selector
  <2>5. \A i \in Diff!Selector : Agrees(i)
    BY <2>2, <2>4 DEF Diff!Init, Diff!Selector, Agrees, OwnSide, Diff!Entered
  <2> QED BY <2>1, <2>3, <2>5 DEF Diff!Init, Calm
<1> QED BY <1>3, <1>4 DEF DiffInv

LEMMA KeyKeeps ==
  ASSUME DiffInv, NEW i \in Diff!Selector, NEW v \in Diff!Text, Diff!handleChange(i, v)
  PROVE  DiffInv'
<1> DEFINE new == [selector |-> i, value |-> v, query |-> query, router |-> pushes]
           mine(t) == t.selector = i /\ t.router = pushes
<1>1. /\ query \in Diff!Query /\ pushes \in Nat /\ calls \in Seq(Diff!Timer)
      /\ editing \subseteq Diff!Selector
      /\ swrsReportId \in [Diff!Selector -> Diff!Text]
  BY DEF DiffInv, Diff!TypeOK
<1>2. new \in Diff!Timer
  BY <1>1 DEF Diff!Timer
<1>3. \/ /\ \A n \in DOMAIN calls : ~ mine(calls[n])
         /\ calls' = Append(calls, new)
      \/ \E n \in DOMAIN calls :
           mine(calls[n]) /\ calls' = Append(Diff!RemoveAt(calls, n), new)
  BY DEF Diff!handleChange
<1>4. /\ UNCHANGED <<query, pushes, swrsReportIdIsValid, controls>>
      /\ editing \subseteq {i} /\ editing' = {i}
      /\ swrsReportId' = [swrsReportId EXCEPT ![i] = v]
      /\ disturbed' = (disturbed \/ query.reversed)
  BY DEF Diff!handleChange
<1> HIDE DEF new
<1>5. calls' \in Seq(Diff!Timer)
  <2>1. ASSUME NEW n \in DOMAIN calls
        PROVE  Diff!RemoveAt(calls, n) \in Seq(Diff!Timer)
    BY <1>1 DEF Diff!RemoveAt
  <2>2. CASE calls' = Append(calls, new)
    BY <1>1, <1>2, <2>2
  <2>3. ASSUME NEW n \in DOMAIN calls, calls' = Append(Diff!RemoveAt(calls, n), new)
        PROVE  calls' \in Seq(Diff!Timer)
    BY <1>2, <2>1, <2>3
  <2> QED BY <1>3, <2>2, <2>3
<1>6. Diff!TypeOK'
  BY <1>1, <1>4, <1>5 DEF DiffInv, Diff!TypeOK, Diff!Query
<1>7. ASSUME ~ disturbed' PROVE Calm'
  <2>1. ~ disturbed /\ ~ query.reversed /\ Calm
    BY <1>1, <1>4, <1>7 DEF DiffInv, Diff!TypeOK, Diff!Query
  <2>2. calls' = <<new>>
    <3>1. CASE calls = <<>>
      BY <1>3, <3>1
    <3>2. CASE calls # <<>>
      <4>1. PICK t \in Diff!Timer : calls = <<t>> /\ Waits(t)
        BY <2>1, <3>2 DEF Calm
      <4>2. DOMAIN calls = {1} /\ mine(calls[1])
        BY <1>4, <4>1 DEF Waits
      <4>3. calls' = Append(Diff!RemoveAt(calls, 1), new)
        BY <1>3, <4>2
      <4>4. Diff!RemoveAt(calls, 1) = <<>>
        BY <4>1 DEF Diff!RemoveAt
      <4>5. Append(<<>>, new) = <<new>>
        OBVIOUS
      <4> QED BY <4>3, <4>4, <4>5
    <3> QED BY <3>1, <3>2
  <2>3. PICK c \in Diff!Timer : c = new
    BY <1>2
  <2>6. Waits(c)'
    BY <1>1, <1>4, <2>1, <2>3 DEF Waits, new
  <2>4. \A j \in Diff!Selector \ {i} : Agrees(j)
    BY <1>4, <2>1 DEF Calm
  <2>5. \A j \in Diff!Selector \ {i} : Agrees(j)'
    BY <1>1, <1>4, <2>4 DEF Agrees, OwnSide, Diff!Entered
  <2>7. \E t \in Diff!Timer : calls' = <<t>> /\ Waits(t)'
    BY <2>2, <2>3, <2>6
  <2> QED BY <1>4, <2>1, <2>5, <2>7 DEF Calm
<1> QED BY <1>6, <1>7 DEF DiffInv

LEMMA TimerKeeps ==
  ASSUME Diff!DiffAssumption, DiffInv, Diff!debouncedToRouter
  PROVE  DiffInv'
<1> DEFINE t == Head(calls)
<1>1. /\ query \in Diff!Query /\ pushes \in Nat /\ calls \in Seq(Diff!Timer)
      /\ editing \subseteq Diff!Selector /\ MaxPushes \in Nat
      /\ swrsReportId \in [Diff!Selector -> Diff!Text]
      /\ swrsReportIdIsValid \in [Diff!Selector -> {"null", "true", "false"}]
  BY DEF DiffInv, Diff!TypeOK, Diff!DiffAssumption
<1>2. /\ calls # <<>> /\ t \in Diff!Timer
      /\ calls' = Tail(calls)
      /\ editing' = editing \ {t.selector}
      /\ swrsReportIdIsValid' =
           [swrsReportIdIsValid EXCEPT ![t.selector] = Diff!validateReportId(t.value)]
      /\ pushes < MaxPushes /\ pushes' = pushes + 1
      /\ query' = Diff!handleRouter(t)
      /\ UNCHANGED <<swrsReportId, controls, disturbed>>
  BY <1>1 DEF Diff!debouncedToRouter, Diff!Push
<1> HIDE DEF t
<1>3. t.query \in Diff!Query /\ t.selector \in Diff!Selector /\ t.value \in Diff!Text
  BY <1>2 DEF Diff!Timer
<1>4. query' \in Diff!Query
  BY <1>2, <1>3 DEF Diff!handleRouter, Diff!Query, Diff!diffSide
<1>5. Diff!TypeOK'
  BY <1>1, <1>2, <1>3, <1>4 DEF DiffInv, Diff!TypeOK, Diff!validateReportId
<1>6. ASSUME ~ disturbed' PROVE Calm'
  <2>1. ~ disturbed /\ Calm
    BY <1>2, <1>6 DEF DiffInv
  <2>2. calls = <<t>> /\ Waits(t)
    <3>1. PICK s \in Diff!Timer : calls = <<s>> /\ Waits(s)
      BY <1>2, <2>1 DEF Calm
    <3> QED BY <3>1 DEF t
  <2>3. calls' = <<>> /\ editing' = {}
    BY <1>2, <2>2 DEF Waits
  <2>4. /\ ~ query.reversed
        /\ query' = [query EXCEPT ![Diff!diffSide(t.selector, query)] =
                       IF t.value \in ReportId THEN t.value ELSE NoId]
    BY <1>2, <2>2 DEF Waits, Diff!handleRouter
  <2>5. /\ query'.collapsed = query.collapsed /\ query'.reversed = query.reversed
        /\ query'.First = IF t.selector # 1 THEN query.First
                          ELSE IF t.value \in ReportId THEN t.value ELSE NoId
        /\ query'.Second = IF t.selector = 1 THEN query.Second
                          ELSE IF t.value \in ReportId THEN t.value ELSE NoId
    <3>1. query.reversed = FALSE
      BY <1>1, <2>4 DEF Diff!Query
    <3>2. CASE t.selector = 1
      <4>1. Diff!diffSide(t.selector, query) = "First"
        BY <3>1, <3>2 DEF Diff!diffSide
      <4> QED BY <1>1, <2>4, <3>2, <4>1 DEF Diff!Query
    <3>3. CASE t.selector # 1
      <4>1. Diff!diffSide(t.selector, query) = "Second"
        BY <3>1, <3>3 DEF Diff!diffSide
      <4> QED BY <1>1, <2>4, <3>3, <4>1 DEF Diff!Query
    <3> QED BY <3>2, <3>3
  <2>6. ASSUME NEW i \in Diff!Selector PROVE Agrees(i)'
    <3>1. CASE i = t.selector
      <4>1. swrsReportId'[i] = t.value
        BY <1>2, <2>2, <3>1 DEF Waits
      <4>2. OwnSide(i)' = IF t.value \in ReportId THEN t.value ELSE NoId
        BY <2>5, <3>1 DEF OwnSide
      <4>3. OwnSide(i)' = Diff!Entered(i)'
        BY <1>3, <4>1, <4>2 DEF Diff!Entered, Diff!Text, Diff!DiffAssumption
      <4>4. swrsReportIdIsValid'[i] = Diff!validateReportId(t.value)
        BY <1>1, <1>2, <3>1
      <4>5. swrsReportIdIsValid'[i] # "null" =>
              (swrsReportIdIsValid'[i] = "true") = (swrsReportId'[i] \in ReportId)
        BY <4>1, <4>4 DEF Diff!validateReportId
      <4> QED BY <4>3, <4>5 DEF Agrees
    <3>2. CASE i # t.selector
      <4>1. Agrees(i)
        BY <2>1, <2>2, <3>2 DEF Calm, Waits
      <4>2. OwnSide(i)' = OwnSide(i)
        BY <1>3, <2>5, <3>2 DEF OwnSide, Diff!Selector
      <4>3. swrsReportIdIsValid'[i] = swrsReportIdIsValid[i]
        BY <1>1, <1>2, <3>2
      <4> QED BY <1>2, <4>1, <4>2, <4>3 DEF Agrees, Diff!Entered
    <3> QED BY <3>1, <3>2
  <2> QED BY <1>2, <2>1, <2>3, <2>5, <2>6 DEF Calm
<1> QED BY <1>5, <1>6 DEF DiffInv

LEMMA ControlKeeps ==
  ASSUME Diff!DiffAssumption, DiffInv, Diff!handleCollapse \/ Diff!handleReverse
  PROVE  DiffInv'
<1>1. /\ query \in Diff!Query /\ pushes \in Nat /\ controls \in Diff!Controls
      /\ calls \in Seq(Diff!Timer) /\ MaxPushes \in Nat
  BY DEF DiffInv, Diff!TypeOK, Diff!DiffAssumption
<1>2. /\ UNCHANGED <<swrsReportId, swrsReportIdIsValid, editing, calls>>
      /\ disturbed' = (disturbed \/ calls # <<>>)
      /\ pushes < MaxPushes /\ pushes' = pushes + 1
      /\ controls' \in Diff!Controls
      /\ query' \in Diff!Query
      /\ query'.First = query.First /\ query'.Second = query.Second
  BY <1>1 DEF Diff!handleCollapse, Diff!handleReverse, Diff!Push,
     Diff!Controls, Diff!Query
<1>3. controls = [collapsed |-> query.collapsed, reversed |-> query.reversed] =>
        controls' = [collapsed |-> query'.collapsed,
        reversed |-> query'.reversed]
  BY <1>1 DEF Diff!handleCollapse, Diff!handleReverse, Diff!Push,
     Diff!Controls, Diff!Query
<1>4. Diff!TypeOK'
  BY <1>1, <1>2 DEF DiffInv, Diff!TypeOK
<1>5. ASSUME ~ disturbed' PROVE Calm'
  <2>1. ~ disturbed /\ calls = <<>> /\ Calm
    BY <1>2, <1>5 DEF DiffInv
  <2>2. editing = {} /\ calls' = <<>> /\ editing' = {}
    BY <1>2, <2>1 DEF Calm
  <2>3. \A i \in Diff!Selector : Agrees(i)'
    BY <1>2, <2>1, <2>2 DEF Calm, Agrees, OwnSide, Diff!Entered
  <2> QED BY <1>3, <2>1, <2>2, <2>3 DEF Calm
<1> QED BY <1>4, <1>5 DEF DiffInv

LEMMA DiffStep ==
  ASSUME Diff!DiffAssumption, DiffInv, [Diff!Next]_(Diff!vars)
  PROVE  DiffInv'
<1>1. ASSUME NEW i \in Diff!Selector, NEW v \in Diff!Text, Diff!handleChange(i, v)
      PROVE  DiffInv'
  BY <1>1, KeyKeeps
<1>2. CASE Diff!debouncedToRouter
  BY <1>2, TimerKeeps
<1>3. CASE Diff!handleCollapse \/ Diff!handleReverse
  BY <1>3, ControlKeeps
<1>4. CASE UNCHANGED Diff!vars
  <2>1. Diff!TypeOK'
    BY <1>4 DEF Diff!vars, DiffInv, Diff!TypeOK
  <2>2. Calm => Calm'
    BY <1>4 DEF Diff!vars, Calm, Waits, Agrees, OwnSide, Diff!Entered
  <2> QED BY <1>4, <2>1, <2>2 DEF Diff!vars, DiffInv
<1> QED BY <1>1, <1>2, <1>3, <1>4 DEF Diff!Next

LEMMA CalmPageAgrees ==
  ASSUME DiffInv
  PROVE  Diff!SettledPageAgrees
<1> SUFFICES ASSUME calls = <<>>, ~ disturbed
             PROVE  /\ Diff!BelowSelectors
                    /\ controls = [collapsed |-> query.collapsed,
                                   reversed |-> query.reversed]
                    /\ editing = {}
                    /\ \A i \in Diff!Selector :
                         swrsReportIdIsValid[i] # "null" =>
                           (swrsReportIdIsValid[i] = "true") = (swrsReportId[i] \in ReportId)
  BY DEF Diff!SettledPageAgrees
<1>1. Calm /\ editing = {}
  BY DEF DiffInv, Calm
<1>2. \A i \in Diff!Selector : Agrees(i)
  BY <1>1 DEF Calm
<1>3. ASSUME NEW i \in Diff!Selector
      PROVE  /\ Diff!DetailsIn(Diff!column(i)) = OwnSide(i)
             /\ Diff!DiffIn(Diff!column(i)) = OwnSide(i)
  BY DEF Diff!Selector, Diff!DetailsIn, Diff!DiffIn, Diff!column, OwnSide
<1> QED BY <1>1, <1>2, <1>3 DEF Calm, Agrees, Diff!BelowSelectors

-----------------------------------------------------------------------------
(* The middleware.  At most one mutation waits, and the timers that are    *)
(* set are its own.                                                        *)
OneWaits == \A m, n \in debouncedMutation : m = n

DebounceInv == DebounceTypeOK /\ OneWaits /\ TimersAreOwn

LEMMA DebounceStarts == DebounceInit => DebounceInv
  BY RequestsAssumption
     DEF DebounceInit, DebounceInv, DebounceTypeOK, OneWaits, TimersAreOwn

(* Whatever waits is a mutation with a number, and so is a new request.    *)
LEMMA NewNumber ==
  ASSUME DebounceTypeOK, Request
  PROVE  count + 1 \in Number /\ count' \in 0 .. MaxRequests
  BY RequestsAssumption DEF DebounceTypeOK, Request, Number

LEMMA WaitingNumber ==
  ASSUME DebounceTypeOK, NEW m \in debouncedMutation
  PROVE  m \in Mutation /\ m.no \in Number
  BY DEF DebounceTypeOK, Mutation

LEMMA PassThroughKeeps ==
  ASSUME DebounceInv, PassThrough
  PROVE  DebounceInv'
<1> USE DEF DebounceInv
<1>1. count + 1 \in Number /\ count' \in 0 .. MaxRequests
  BY NewNumber DEF PassThrough
<1>2. sent' \in Seq(Number)
  <2>1. CASE debouncedMutation = {} /\ sent' = Append(sent, count + 1)
    BY <2>1, <1>1 DEF DebounceTypeOK
  <2>2. CASE \E m \in debouncedMutation : sent' = sent \o <<m.no, count + 1>>
    <3>1. PICK m \in debouncedMutation : sent' = sent \o <<m.no, count + 1>>
      BY <2>2
    <3>2. <<m.no, count + 1>> \in Seq(Number)
      BY <1>1, WaitingNumber
    <3> QED BY <3>1, <3>2 DEF DebounceTypeOK
  <2> QED BY <2>1, <2>2 DEF PassThrough
<1>3. debouncedMutation' = {} /\ timers' = {}
  BY DEF PassThrough, ClearTimeout, TimersAreOwn
<1> QED BY <1>1, <1>2, <1>3 DEF DebounceTypeOK, OneWaits, TimersAreOwn

LEMMA DebounceKeeps ==
  ASSUME DebounceInv, NEW k \in Key, Debounce(k)
  PROVE  DebounceInv'
<1> USE DEF DebounceInv
<1>1. count + 1 \in Number /\ count' \in 0 .. MaxRequests
  BY NewNumber DEF Debounce
<1>2. sent' \in Seq(Number)
  BY WaitingNumber DEF Debounce, DebounceTypeOK
<1>3. /\ debouncedMutation' = {[key |-> k, no |-> count + 1]}
      /\ timers' = {[key |-> k, no |-> count + 1]}
  BY DEF Debounce, ClearTimeout, TimersAreOwn
<1> QED BY <1>1, <1>2, <1>3 DEF DebounceTypeOK, OneWaits, TimersAreOwn, Mutation

LEMMA DebouncedFnKeeps ==
  ASSUME DebounceInv, NEW m \in timers, debouncedFn(m)
  PROVE  DebounceInv'
<1> USE DEF DebounceInv
<1>1. sent' \in Seq(Number)
  BY WaitingNumber DEF debouncedFn, DebounceTypeOK, TimersAreOwn
<1>2. debouncedMutation' = {} /\ timers' = {} /\ count' = count
  BY DEF debouncedFn, ClearTimeout, TimersAreOwn
<1> QED BY <1>1, <1>2 DEF DebounceTypeOK, OneWaits, TimersAreOwn

LEMMA DebounceGoesOn == DebounceInv /\ [DebounceNext]_debounce => DebounceInv'
<1> SUFFICES ASSUME DebounceInv, [DebounceNext]_debounce PROVE DebounceInv'
  OBVIOUS
<1>1. CASE PassThrough
  BY <1>1, PassThroughKeeps
<1>2. ASSUME NEW k \in Key, Debounce(k) PROVE DebounceInv'
  BY <1>2, DebounceKeeps
<1>3. ASSUME NEW m \in timers, debouncedFn(m) PROVE DebounceInv'
  BY <1>3, DebouncedFnKeeps
<1>4. CASE UNCHANGED debounce
  BY <1>4 DEF debounce, DebounceInv, DebounceTypeOK, OneWaits, TimersAreOwn
<1> QED BY <1>1, <1>2, <1>3, <1>4 DEF DebounceNext

LEMMA DebounceImplements == DebounceSpec => ImplementsLatestWins
<1>1. DebounceInit => Abstract!Init
  BY DEF DebounceInit, Abstract!Init
<1>2. DebounceInv /\ [DebounceNext]_debounce
        => [Abstract!Next]_<<debouncedMutation, sent>>
  <2> SUFFICES ASSUME DebounceInv, [DebounceNext]_debounce
               PROVE  [Abstract!Next]_<<debouncedMutation, sent>>
    OBVIOUS
  <2>1. CASE PassThrough
    <3>1. count + 1 \in Number
      BY <2>1, NewNumber DEF PassThrough, DebounceInv
    <3>2. Abstract!Pass(count + 1)
      BY <2>1 DEF PassThrough, Abstract!Pass
    <3> QED BY <3>1, <3>2 DEF Abstract!Next
  <2>2. ASSUME NEW k \in Key, Debounce(k) PROVE Abstract!Next
    <3>1. count + 1 \in Number
      BY <2>2, NewNumber DEF Debounce, DebounceInv
    <3>2. Abstract!Hold(k, count + 1)
      BY <2>2 DEF Debounce, Abstract!Hold
    <3> QED BY <3>1, <3>2 DEF Abstract!Next
  <2>3. ASSUME NEW m \in timers, debouncedFn(m) PROVE Abstract!Next
    <3>1. m \in debouncedMutation
      BY DEF DebounceInv, TimersAreOwn
    <3>2. Abstract!Send
      BY <2>3, <3>1 DEF debouncedFn, Abstract!Send
    <3> QED BY <3>2 DEF Abstract!Next
  <2>4. CASE UNCHANGED debounce
    BY <2>4 DEF debounce
  <2> QED BY <2>1, <2>2, <2>3, <2>4 DEF DebounceNext
<1>3. DebounceSpec => []DebounceInv
  BY DebounceStarts, DebounceGoesOn, PTL DEF DebounceSpec
<1> QED BY <1>1, <1>2, <1>3, PTL
        DEF DebounceSpec, ImplementsLatestWins, Abstract!Spec
-----------------------------------------------------------------------------
(* The mutations.  The one in the map of disposables is the last one that  *)
(* was made with its key; requests of a key that is not muddled are served *)
(* in order, so that when its answer is there, it is what the database     *)
(* has, and nothing else with the key is on its way.                       *)
Pending == debouncedMutation \cup inFlight

Latest(k) == [key |-> k, no |-> debouncedMutationMap[k]]

NonePending(k) == \A m \in Pending : m.key # k

InOrder(k) ==
  /\ \A m \in Pending : m.key = k => m.no <= debouncedMutationMap[k]
  /\ debouncedMutationMap[k] = 0 => confirmed[k] = value[k]
  /\ debouncedMutationMap[k] # 0 =>
       \/ Latest(k) \in Pending
       \/ /\ [to |-> Latest(k), ok |-> TRUE] \in answers
          /\ value[k] = debouncedMutationMap[k]
          /\ NonePending(k)
  /\ \A a \in answers : a.to.key = k => a.ok

(* A mutation waits, or is on its way, or is answered.                     *)
InOnePlace ==
  /\ debouncedMutation \cap inFlight = {}
  /\ \A a \in answers : a.to \notin Pending /\ a.to.no <= count
  /\ \A m \in Pending : m.no <= count
  /\ \A m \in debouncedMutation : debouncedMutationMap[m.key] = m.no

MutationTypeOK ==
  /\ debouncedMutationMap \in [Key -> 0 .. MaxRequests]
  /\ confirmed \in [Key -> 0 .. MaxRequests]
  /\ value \in [Key -> 0 .. MaxRequests]
  /\ inFlight \subseteq Mutation
  /\ answers \subseteq [to : Mutation, ok : BOOLEAN]
  /\ muddled \subseteq Key

MutationInv ==
  MutationTypeOK /\ InOnePlace /\ \A k \in Key \ muddled : InOrder(k)

LEMMA MutationsStart == Optimistic!Init => MutationInv
  BY RequestsAssumption
     DEF Optimistic!Init, Optimistic!DebounceInit, Optimistic!NoMutation,
         MutationInv,
         MutationTypeOK, InOnePlace, InOrder, Pending

LEMMA CountType ==
  ASSUME DebounceInv
  PROVE  count \in Nat
  BY RequestsAssumption DEF DebounceInv, DebounceTypeOK

LEMMA PendingTypes ==
  ASSUME DebounceInv, MutationInv, NEW m \in Pending
  PROVE  /\ m \in Mutation /\ m.key \in Key /\ m.no \in Nat /\ m.no # 0
         /\ m = [key |-> m.key, no |-> m.no]
         /\ m.no <= count
  BY DEF DebounceInv, DebounceTypeOK, MutationInv, MutationTypeOK, InOnePlace,
     Pending,
         Mutation, Number

LEMMA AnswerTypes ==
  ASSUME MutationInv, NEW a \in answers
  PROVE  /\ a.to \in Mutation /\ a.ok \in BOOLEAN
         /\ a.to.key \in Key /\ a.to.no \in Nat /\ a.to.no # 0
         /\ a.to = [key |-> a.to.key, no |-> a.to.no]
         /\ a = [to |-> a.to, ok |-> a.ok]
         /\ a.to \notin Pending /\ a.to.no <= count
<1>1. a \in [to : Mutation, ok : BOOLEAN]
  BY DEF MutationInv, MutationTypeOK
<1>2. a.to \in Mutation /\ a.ok \in BOOLEAN /\ a = [to |-> a.to, ok |-> a.ok]
  BY <1>1
<1>3. a.to \notin Pending /\ a.to.no <= count
  BY DEF MutationInv, InOnePlace
<1> QED BY <1>2, <1>3 DEF Mutation, Number

LEMMA MapType ==
  ASSUME MutationInv, NEW k \in Key
  PROVE  debouncedMutationMap[k] \in Nat
  BY RequestsAssumption DEF MutationInv, MutationTypeOK

(* The mutation that is made is the last one with its key.                 *)
LEMMA PerformKeeps ==
  ASSUME DebounceInv, MutationInv, NEW k \in Key, Optimistic!performMutation(k)
  PROVE  MutationInv'
<1>1. PICK n \in Number : n = count + 1
  BY NewNumber DEF DebounceInv, Optimistic!performMutation, Optimistic!Debounce,
     Optimistic!Request, Request
<1> DEFINE new == [key |-> k, no |-> n]
           sends == {m \in debouncedMutation : m.key # k}
<1>2. /\ count' = n /\ debouncedMutation' = {new}
      /\ inFlight' = inFlight \cup sends
      /\ debouncedMutationMap' = [debouncedMutationMap EXCEPT ![k] = n]
      /\ UNCHANGED <<confirmed, value, answers, muddled>>
  BY <1>1 DEF Optimistic!performMutation, Optimistic!Debounce,
     Optimistic!Request,
     Optimistic!Depart
<1>3. new \in Mutation /\ n \in 0 .. MaxRequests /\ n \in Nat /\ n # 0
  BY RequestsAssumption DEF Mutation, Number
<1>4. \A m \in Pending : m.no < n /\ m # new
  <2>1. \A m \in Pending : m.no \in Nat /\ m.no <= count
    BY PendingTypes
  <2> QED BY <1>1, <1>3, <2>1, CountType
<1>5. \A a \in answers : a.to.no < n /\ a.to # new /\ a.to.no \in Nat
  <2>1. \A a \in answers : a.to.no \in Nat /\ a.to.no <= count
    BY AnswerTypes
  <2> QED BY <1>1, <1>3, <2>1, CountType
<1>6. sends \subseteq debouncedMutation /\ debouncedMutation \subseteq Mutation
  BY DEF DebounceInv, DebounceTypeOK
<1>7. /\ \A m \in Pending' : m \in Pending \/ m = new
      /\ \A m \in Pending : m \in Pending' \/ m.key = k
      /\ new \in Pending'
  BY <1>2 DEF Pending
<1>8. debouncedMutation' \cap inFlight' = {}
  BY <1>2, <1>4 DEF Pending
<1> HIDE DEF sends
<1>9. /\ debouncedMutationMap'[k] = n
      /\ \A j \in Key \ {k} : debouncedMutationMap'[j] = debouncedMutationMap[j]
  BY <1>2 DEF MutationInv, MutationTypeOK
<1>10. MutationTypeOK'
  BY <1>2, <1>3, <1>6 DEF MutationInv, MutationTypeOK, Mutation
<1>11. InOnePlace'
  <2>1. \A a \in answers' : a.to \notin Pending' /\ a.to.no <= count'
    <3>1. SUFFICES ASSUME NEW a \in answers
                   PROVE  a.to \notin Pending' /\ a.to.no <= n
      BY <1>2
    <3>2. a.to.no < n /\ a.to # new /\ a.to.no \in Nat /\ a.to \notin Pending
      BY <1>5, AnswerTypes
    <3>3. a.to \notin Pending'
      BY <1>7, <3>2
    <3> HIDE DEF new
    <3> QED BY <1>3, <3>2, <3>3
  <2>2. \A m \in Pending' : m.no <= count'
    BY <1>2, <1>3, <1>4, <1>7, PendingTypes
  <2>3. \A m \in debouncedMutation' : debouncedMutationMap'[m.key] = m.no
    BY <1>2, <1>9
  <2> QED BY <1>8, <2>1, <2>2, <2>3 DEF InOnePlace
<1>12. ASSUME NEW j \in Key \ muddled' PROVE InOrder(j)'
  <2>1. InOrder(j) /\ j \in Key
    BY <1>2, <1>12 DEF MutationInv
  <2>2. CASE j = k
    <3>1. \A m \in Pending' : m.key = j => m.no <= debouncedMutationMap'[j]
      BY <1>3, <1>4, <1>7, <1>9, <2>2, PendingTypes
    <3>2. Latest(j)' \in Pending'
      BY <1>7, <1>9, <2>2 DEF Latest
    <3> QED BY <1>2, <1>3, <1>9, <2>1, <2>2, <3>1, <3>2 DEF InOrder
  <2>3. CASE j # k
    <3>1. /\ debouncedMutationMap'[j] = debouncedMutationMap[j]
          /\ Latest(j)' = Latest(j)
      BY <1>9, <2>1, <2>3 DEF Latest
    <3>2. \A m : m.key = j => (m \in Pending' <=> m \in Pending)
      BY <1>7, <2>3
    <3>3. NonePending(j) => NonePending(j)'
      BY <3>2 DEF NonePending
    <3>4. Latest(j) \in Pending => Latest(j)' \in Pending'
      BY <3>1, <3>2 DEF Latest
    <3> QED BY <1>2, <2>1, <3>1, <3>2, <3>3, <3>4 DEF InOrder
  <2> QED BY <2>2, <2>3
<1> QED BY <1>10, <1>11, <1>12 DEF MutationInv

(* What waits is sent: it is in another place, and nothing else changes.   *)
LEMMA DepartKeeps ==
  ASSUME DebounceInv, MutationInv, debouncedMutation' = {},
         inFlight' = inFlight \cup debouncedMutation,
         count' \in Nat, count <= count',
         UNCHANGED <<debouncedMutationMap, confirmed, value, answers, muddled>>
  PROVE  MutationInv'
<1>1. Pending' = Pending
  BY DEF Pending
<1>2. MutationTypeOK'
  BY DEF DebounceInv, DebounceTypeOK, MutationInv, MutationTypeOK
<1>3. InOnePlace'
  <2>1. \A a \in answers' : a.to \notin Pending' /\ a.to.no <= count'
    <3>1. \A a \in answers : a.to.no \in Nat /\ a.to.no <= count /\ a.to \notin Pending
      BY AnswerTypes
    <3> QED BY <1>1, <3>1, CountType
  <2>2. \A m \in Pending' : m.no <= count'
    <3>1. \A m \in Pending : m.no \in Nat /\ m.no <= count
      BY PendingTypes
    <3> QED BY <1>1, <3>1, CountType
  <2> QED BY <2>1, <2>2 DEF InOnePlace
<1>4. \A j \in Key \ muddled' : InOrder(j)'
  BY <1>1 DEF MutationInv, InOrder, NonePending, Latest
<1> QED BY <1>2, <1>3, <1>4 DEF MutationInv

LEMMA OtherKeeps ==
  ASSUME DebounceInv, MutationInv,
         Optimistic!Other \/ \E m \in timers : Optimistic!RunOut(m)
  PROVE  MutationInv'
<1>1. count' \in Nat /\ count <= count'
  <2>1. count' = count \/ count' = count + 1
    BY DEF Optimistic!Other, Optimistic!PassThrough, Optimistic!Request,
       Optimistic!RunOut, Optimistic!debouncedFn
  <2> QED BY <2>1, CountType
<1>2. CASE Optimistic!Other
  BY <1>1, <1>2, DepartKeeps DEF Optimistic!Other, Optimistic!PassThrough,
     Optimistic!Depart
<1>3. ASSUME NEW m \in timers, Optimistic!RunOut(m) PROVE MutationInv'
  <2>1. debouncedMutation = {m}
    BY DEF DebounceInv, TimersAreOwn, OneWaits
  <2> QED BY <1>1, <1>3, <2>1, DepartKeeps
          DEF Optimistic!RunOut, Optimistic!debouncedFn, Optimistic!Depart
<1> QED BY <1>2, <1>3

(* A request that is served in order is the first one with its key; if it  *)
(* is also the last one, none is left.                                     *)
LEMMA ServeKeeps ==
  ASSUME DebounceInv, MutationInv, NEW m \in inFlight, NEW ok \in BOOLEAN,
         Optimistic!Serve(m, ok)
  PROVE  MutationInv'
<1> DEFINE a == [to |-> m, ok |-> ok]
<1>1. /\ inFlight' = inFlight \ {m}
      /\ answers' = answers \cup {a}
      /\ value' = IF ok THEN [value EXCEPT ![m.key] = m.no] ELSE value
      /\ UNCHANGED <<debouncedMutation, count, debouncedMutationMap, confirmed>>
      /\ muddled \subseteq muddled' /\ muddled' \subseteq muddled \cup {m.key}
  BY DEF Optimistic!Serve, Optimistic!debounce
<1>2. m.key \notin muddled' =>
        ok /\ \A n \in inFlight : ~ (n.key = m.key /\ n.no < m.no)
  BY DEF Optimistic!Serve
<1>3. /\ m \in Pending /\ m \notin debouncedMutation
      /\ m.key \in Key /\ m.no \in Nat /\ m.no # 0 /\ m \in Mutation
      /\ m = [key |-> m.key, no |-> m.no]
  BY PendingTypes DEF Pending, MutationInv, InOnePlace
<1>4. Pending' = Pending \ {m}
  BY <1>1, <1>3 DEF Pending
<1>5. MutationTypeOK'
  BY <1>1, <1>3 DEF MutationInv, MutationTypeOK, Mutation, Number
<1>6. InOnePlace'
  <2>1. m.no <= count
    BY <1>3 DEF MutationInv, InOnePlace
  <2>2. \A b \in answers' : b.to \notin Pending' /\ b.to.no <= count'
    BY <1>1, <1>4, <2>1 DEF MutationInv, InOnePlace
  <2> QED BY <1>1, <1>4, <2>2 DEF MutationInv, InOnePlace
<1>7. ASSUME NEW j \in Key \ muddled' PROVE InOrder(j)'
  <2>1. InOrder(j) /\ j \in Key
    BY <1>1, <1>7 DEF MutationInv
  <2>2. Latest(j)' = Latest(j) /\ debouncedMutationMap'[j] = debouncedMutationMap[j]
    BY <1>1 DEF Latest
  <2>3. \A n \in Pending' : n.key = j => n.no <= debouncedMutationMap'[j]
    BY <1>4, <2>1, <2>2 DEF InOrder
  <2>4. CASE j # m.key
    <3>1. value'[j] = value[j]
      BY <1>1, <2>1, <2>4 DEF MutationInv, MutationTypeOK
    <3>2. NonePending(j) => NonePending(j)'
      BY <1>4 DEF NonePending
    <3>3. Latest(j) \in Pending => Latest(j)' \in Pending'
      BY <1>4, <2>2, <2>4 DEF Latest
    <3>4. \A b \in answers' : b.to.key = j => b.ok
      BY <1>1, <2>1, <2>4 DEF InOrder
    <3> QED BY <1>1, <2>1, <2>2, <2>3, <3>1, <3>2, <3>3, <3>4 DEF InOrder
  <2>5. CASE j = m.key
    <3>1. ok = TRUE /\ \A n \in inFlight : ~ (n.key = j /\ n.no < m.no)
      BY <1>2, <1>7, <2>5
    <3>2. m.no <= debouncedMutationMap[j] /\ debouncedMutationMap[j] # 0
          /\ debouncedMutationMap[j] \in Nat
      BY <1>3, <2>1, <2>5, MapType DEF InOrder
    <3>3. \A b \in answers' : b.to.key = j => b.ok
      <4>1. a.ok
        BY <3>1
      <4>2. \A b \in answers : b.to.key = j => b.ok
        BY <2>1 DEF InOrder
      <4> HIDE DEF a
      <4> QED BY <1>1, <4>1, <4>2
    <3>4. CASE m.no = debouncedMutationMap[j]
      <4>1. NonePending(j)'
        <5> SUFFICES ASSUME NEW n \in Pending, n # m, n.key = j PROVE FALSE
          BY <1>4 DEF NonePending
        <5>1. n.no <= m.no /\ n.no \in Nat /\ n = [key |-> n.key, no |-> n.no]
          BY <2>1, <3>4, PendingTypes DEF InOrder
        <5>2. CASE n \in inFlight
          <6>1. n.no = m.no
            BY <1>3, <3>1, <5>1, <5>2
          <6> QED BY <1>3, <2>5, <5>1, <6>1
        <5>3. CASE n \in debouncedMutation
          <6>1. n.no = m.no
            BY <3>4, <5>3 DEF MutationInv, InOnePlace
          <6> QED BY <1>3, <2>5, <5>1, <6>1
        <5> QED BY <5>2, <5>3 DEF Pending
      <4>2. Latest(j)' = m /\ value'[j] = debouncedMutationMap'[j]
        BY <1>1, <1>3, <2>1, <2>2, <2>5, <3>1, <3>4 DEF Latest, MutationInv,
           MutationTypeOK
      <4>3. [to |-> Latest(j)', ok |-> TRUE] \in answers'
        BY <1>1, <3>1, <4>2
      <4> QED BY <2>2, <2>3, <3>2, <3>3, <4>1, <4>2, <4>3 DEF InOrder
    <3>5. CASE m.no # debouncedMutationMap[j]
      <4>1. ~ NonePending(j)
        BY <1>3, <2>5 DEF NonePending
      <4>2. Latest(j) \in Pending /\ Latest(j) # m
        BY <2>1, <3>2, <3>5, <4>1 DEF InOrder, Latest
      <4>3. Latest(j)' \in Pending'
        BY <1>4, <2>2, <4>2
      <4> QED BY <2>2, <2>3, <3>2, <3>3, <4>3 DEF InOrder
    <3> QED BY <3>4, <3>5
  <2> QED BY <2>4, <2>5
<1> QED BY <1>5, <1>6, <1>7 DEF MutationInv

(* The answer of the mutation in the map tells what the database has; that *)
(* of another one is ignored.                                              *)
LEMMA SettleKeeps ==
  ASSUME DebounceInv, MutationInv, NEW a \in answers, Optimistic!Settle(a)
  PROVE  MutationInv'
<1> DEFINE k == a.to.key
           live == debouncedMutationMap[k] = a.to.no
<1>1. /\ answers' = answers \ {a}
      /\ debouncedMutationMap' =
           IF live THEN [debouncedMutationMap EXCEPT ![k] = 0] ELSE debouncedMutationMap
      /\ confirmed' = IF live /\ a.ok THEN [confirmed EXCEPT ![k] = a.to.no] ELSE confirmed
      /\ UNCHANGED <<debouncedMutation, count, value, inFlight, muddled>>
  BY DEF Optimistic!Settle, Optimistic!isLive, Optimistic!NoMutation,
     Optimistic!debounce
<1>2. /\ k \in Key /\ a.to.no \in Nat /\ a.to.no # 0 /\ a.to \in Mutation
      /\ a.to = [key |-> k, no |-> a.to.no] /\ a = [to |-> a.to, ok |-> a.ok]
      /\ a.ok \in BOOLEAN
  BY AnswerTypes
<1>3. Pending' = Pending
  BY <1>1 DEF Pending
<1>4. 0 \in 0 .. MaxRequests /\ a.to.no \in 0 .. MaxRequests
  BY <1>2, RequestsAssumption DEF Mutation, Number
<1>5. MutationTypeOK'
  BY <1>1, <1>2, <1>4 DEF MutationInv, MutationTypeOK
<1>6. a.to \notin Pending
  BY DEF MutationInv, InOnePlace
<1>7. InOnePlace'
  <2>1. ASSUME NEW m \in debouncedMutation PROVE debouncedMutationMap'[m.key] = m.no
    <3>1. m \in Pending /\ m # a.to /\ debouncedMutationMap[m.key] = m.no
      BY <1>6 DEF Pending, MutationInv, InOnePlace
    <3>2. m.key \in Key /\ m = [key |-> m.key, no |-> m.no]
      BY <3>1, PendingTypes
    <3>3. ~ (live /\ m.key = k)
      BY <1>2, <3>1, <3>2
    <3> QED BY <1>1, <3>1, <3>2, <3>3 DEF MutationInv, MutationTypeOK
  <2> QED BY <1>1, <1>3, <2>1 DEF MutationInv, InOnePlace
<1>8. ASSUME NEW j \in Key \ muddled' PROVE InOrder(j)'
  <2>1. InOrder(j) /\ j \in Key
    BY <1>1, <1>8 DEF MutationInv
  <2>2. \A b \in answers' : b.to.key = j => b.ok
    BY <1>1, <2>1 DEF InOrder
  <2>3. CASE j = k /\ live
    <3>1. a.ok = TRUE
      BY <1>2, <2>1, <2>3 DEF InOrder
    <3>2. Latest(j) = a.to /\ debouncedMutationMap[j] # 0
      BY <1>2, <2>3 DEF Latest
    <3>3. NonePending(j) /\ value[j] = a.to.no
      BY <1>6, <2>1, <2>3, <3>2 DEF InOrder
    <3>4. /\ debouncedMutationMap'[j] = 0
          /\ confirmed'[j] = value'[j]
      BY <1>1, <2>1, <2>3, <3>1, <3>3 DEF MutationInv, MutationTypeOK
    <3>5. \A m \in Pending' : m.key # j
      BY <1>3, <3>3 DEF NonePending
    <3> QED BY <2>2, <3>4, <3>5 DEF InOrder
  <2>4. CASE ~ (j = k /\ live)
    <3>1. /\ debouncedMutationMap'[j] = debouncedMutationMap[j]
          /\ confirmed'[j] = confirmed[j] /\ value'[j] = value[j]
          /\ Latest(j)' = Latest(j)
      BY <1>1, <2>1, <2>4 DEF Latest, MutationInv, MutationTypeOK
    <3>2. a # [to |-> Latest(j), ok |-> TRUE]
      BY <1>2, <2>4 DEF Latest
    <3>3. [to |-> Latest(j), ok |-> TRUE] \in answers =>
            [to |-> Latest(j)', ok |-> TRUE] \in answers'
      BY <1>1, <3>1, <3>2
    <3>4. NonePending(j)' <=> NonePending(j)
      BY <1>3 DEF NonePending
    <3> QED BY <1>3, <2>1, <2>2, <3>1, <3>3, <3>4 DEF InOrder
  <2> QED BY <2>3, <2>4
<1> QED BY <1>5, <1>7, <1>8 DEF MutationInv

LEMMA MutationStep ==
  ASSUME DebounceInv, MutationInv, [Optimistic!Next]_(Optimistic!vars)
  PROVE  MutationInv'
<1>1. ASSUME NEW k \in Key, Optimistic!performMutation(k) PROVE MutationInv'
  BY <1>1, PerformKeeps
<1>2. CASE Optimistic!Other \/ \E m \in timers : Optimistic!RunOut(m)
  BY <1>2, OtherKeeps
<1>3. ASSUME NEW m \in inFlight, NEW ok \in BOOLEAN, Optimistic!Serve(m, ok)
      PROVE  MutationInv'
  BY <1>3, ServeKeeps
<1>4. ASSUME NEW a \in answers, Optimistic!Settle(a) PROVE MutationInv'
  BY <1>4, SettleKeeps
<1>5. CASE UNCHANGED Optimistic!vars
  BY <1>5 DEF Optimistic!vars, Optimistic!debounce, Optimistic!others,
     MutationInv,
     MutationTypeOK, InOnePlace, InOrder, NonePending, Latest, Pending
<1> QED BY <1>1, <1>2, <1>3, <1>4, <1>5 DEF Optimistic!Next

LEMMA RestShowsTheDatabase ==
  ASSUME DebounceInv, MutationInv
  PROVE  Optimistic!SettledShowsTheDatabase
<1> SUFFICES ASSUME debouncedMutation = {}, inFlight = {}, answers = {},
                    NEW k \in Key \ muddled
             PROVE  Optimistic!Shown(k) = value[k]
  BY DEF Optimistic!SettledShowsTheDatabase
<1>1. InOrder(k)
  BY DEF MutationInv
<1>2. debouncedMutationMap[k] = 0 /\ confirmed[k] = value[k]
  BY <1>1 DEF InOrder, Pending
<1> QED BY <1>2 DEF Optimistic!Shown, Optimistic!NoMutation

-----------------------------------------------------------------------------
(* The parts.                                                              *)

LEMMA PartsMove ==
  ASSUME [Next]_vars
  PROVE  /\ part' = part
         /\ part = "charges" => [Charge!Next]_(Charge!vars)
         /\ part = "mappings" => [Map!Next]_(Map!vars)
         /\ part = "diff" => [Diff!Next]_(Diff!vars)
         /\ part = "browser" => [Browser!Next]_(Browser!vars)
         /\ part = "mutations" => [Optimistic!Next]_(Optimistic!vars)
         /\ part # "mutations" => UNCHANGED debounce
<1>1. CASE UNCHANGED vars
  BY <1>1 DEF vars, fuelVars, selection, chargeVars, mappingVars, diffVars,
     browserVars,
              mutationVars, debounce, Charge!vars, Charge!selection,
              Charge!store,
              Charge!network, Charge!counters, Map!vars, Map!selection,
              Map!store,
              Map!network, Map!history, Diff!vars, Browser!vars,
              Optimistic!vars,
              Optimistic!debounce, Optimistic!others
<1>2. CASE Next
  BY <1>2 DEF Next, mutationVars
<1> QED BY <1>1, <1>2

(* The middleware's variables are touched by the mutations alone, and each *)
(* of their steps is one of the middleware, or none.                       *)
LEMMA DebounceMoves ==
  ASSUME [Next]_vars
  PROVE  [DebounceNext]_debounce
<1>1. CASE part # "mutations"
  BY <1>1, PartsMove
<1>2. CASE part = "mutations"
  <2>1. [Optimistic!Next]_(Optimistic!vars)
    BY <1>2, PartsMove
  <2>2. ASSUME NEW k \in Key, Optimistic!performMutation(k) PROVE DebounceNext
    BY <2>2 DEF Optimistic!performMutation, Optimistic!Debounce,
       Optimistic!Request,
       Optimistic!ClearTimeout, DebounceNext, Debounce, Request, ClearTimeout
  <2>3. CASE Optimistic!Other
    BY <2>3 DEF Optimistic!Other, Optimistic!PassThrough, Optimistic!Request,
       Optimistic!ClearTimeout, DebounceNext, PassThrough, Request, ClearTimeout
  <2>4. ASSUME NEW m \in timers, Optimistic!RunOut(m) PROVE DebounceNext
    BY <2>4 DEF Optimistic!RunOut, Optimistic!debouncedFn,
       Optimistic!ClearTimeout,
       DebounceNext, debouncedFn, ClearTimeout
  <2>5. ASSUME NEW m \in inFlight, NEW ok \in BOOLEAN, Optimistic!Serve(m, ok)
        PROVE  UNCHANGED debounce
    BY <2>5 DEF Optimistic!Serve, Optimistic!debounce, debounce
  <2>6. ASSUME NEW a \in answers, Optimistic!Settle(a) PROVE UNCHANGED debounce
    BY <2>6 DEF Optimistic!Settle, Optimistic!debounce, debounce
  <2>7. CASE UNCHANGED Optimistic!vars
    BY <2>7 DEF Optimistic!vars, Optimistic!debounce, debounce
  <2> QED BY <2>1, <2>2, <2>3, <2>4, <2>5, <2>6, <2>7 DEF Optimistic!Next
<1> QED BY <1>1, <1>2

LEMMA ClientDebounces == Spec => DebounceSpec
<1>1. Init => DebounceInit
  BY DEF Init, MutationsOff, Optimistic!Init, Optimistic!DebounceInit,
     DebounceInit
<1>2. [Next]_vars => [DebounceNext]_debounce
  BY DebounceMoves
<1> QED BY <1>1, <1>2, PTL DEF Spec, DebounceSpec

-----------------------------------------------------------------------------
(* Theorems.                                                               *)

LEMMA ChargesHold == Spec => [](part = "charges" => ChargeInv)
<1> DEFINE I == part = "charges" => ChargeInv
<1>1. ChargeAssumptions
  BY PartAssumption DEF ChargeAssumptions
<1>2. Init => I
  BY <1>1, ChargeInit DEF Init
<1>3. I /\ [Next]_vars => I'
  BY <1>1, ChargeStep, PartsMove
<1> QED BY <1>2, <1>3, PTL DEF Spec

LEMMA ChargesFollow == Spec => [](part = "charges" => ChargesFollowed)
<1> DEFINE I == part = "charges" => ChargesFollowed
<1>1. ChargeAssumptions
  BY PartAssumption DEF ChargeAssumptions
<1>2. Init => I
  BY ChargesStart DEF Init
<1>3. (part = "charges" => ChargeInv) /\ I /\ [Next]_vars => I'
  BY <1>1, ChargesGoOn, PartsMove
<1> QED BY <1>2, <1>3, ChargesHold, PTL DEF Spec

LEMMA MappingsHold == Spec => [](part = "mappings" => MapInv)
<1> DEFINE I == part = "mappings" => MapInv
<1>1. MapAssumptions
  BY PartAssumption DEF MapAssumptions, Map!SelectionAssumption,
     Charge!SelectionAssumption
<1>2. Init => I
  BY <1>1, MapStarts DEF Init
<1>3. I /\ [Next]_vars => I'
  BY <1>1, MapStep, PartsMove
<1> QED BY <1>2, <1>3, PTL DEF Spec

LEMMA BrowserHolds == Spec => [](part = "browser" => BrowserInv)
<1> DEFINE I == part = "browser" => BrowserInv
<1>1. Browser!BrowserAssumption
  BY PartAssumption
<1>2. Init => I
  BY <1>1, BrowserInit DEF Init
<1>3. I /\ [Next]_vars => I'
  BY <1>1, BrowserStep, PartsMove
<1> QED BY <1>2, <1>3, PTL DEF Spec

LEMMA DiffHolds == Spec => [](part = "diff" => DiffInv)
<1> DEFINE I == part = "diff" => DiffInv
<1>1. Diff!DiffAssumption
  BY PartAssumption
<1>2. Init => I
  BY <1>1, DiffStarts DEF Init
<1>3. I /\ [Next]_vars => I'
  BY <1>1, DiffStep, PartsMove
<1> QED BY <1>2, <1>3, PTL DEF Spec

LEMMA MiddlewareHolds == Spec => []DebounceInv
  BY ClientDebounces, DebounceStarts, DebounceGoesOn, PTL DEF DebounceSpec

LEMMA MutationsHold == Spec => [](part = "mutations" => MutationInv)
<1> DEFINE I == part = "mutations" => MutationInv
<1>1. Init => I
  BY MutationsStart DEF Init
<1>2. DebounceInv /\ I /\ [Next]_vars => I'
  BY MutationStep, PartsMove
<1> QED BY <1>1, <1>2, MiddlewareHolds, PTL DEF Spec

(* The variables of the part that runs keep the types its module gives     *)
(* them.                                                                   *)
THEOREM TypeCorrect == Spec => []TypeOK
<1>1. (part = "charges" => ChargeInv) => (part = "charges" => Charge!TypeOK)
  BY DEF ChargeInv
<1>2. (part = "mappings" => MapInv) => (part = "mappings" => Map!TypeOK)
  BY DEF MapInv, MapTypes
<1>3. (part = "diff" => DiffInv) => (part = "diff" => Diff!TypeOK)
  BY DEF DiffInv
<1>4. (part = "browser" => BrowserInv) => (part = "browser" => Browser!TypeOK)
  BY DEF BrowserInv
<1>5. DebounceInv /\ (part = "mutations" => MutationInv)
        => (part = "mutations" => Optimistic!TypeOK)
  BY DEF DebounceInv, DebounceTypeOK, MutationInv, MutationTypeOK, Mutation,
     Number,
     Optimistic!TypeOK, Optimistic!DebounceTypeOK, Optimistic!Mutation,
     Optimistic!Number,
     Optimistic!Answer
<1> QED BY <1>1, <1>2, <1>3, <1>4, <1>5, ChargesHold, MappingsHold, DiffHolds,
        BrowserHolds, MiddlewareHolds, MutationsHold, PTL DEF TypeOK

(* For any number of dates, rows, saves and losses: the page of the fuel   *)
(* charges lists every row under its own fuel, and at rest shows the rows  *)
(* its user saved last as they are in the table, but for those of which an *)
(* answer came late or was lost (createFuelCharge, updateFuelCharge).      *)
THEOREM ChargesAreRight == Spec => []SettledChargesAreRight
<1>1. (part = "charges" => ChargeInv) /\ (part = "charges" => ChargesFollowed)
        => SettledChargesAreRight
  BY SettledChargesRight DEF SettledChargesAreRight
<1> QED BY <1>1, ChargesHold, ChargesFollow, PTL

(* For any fuel types and any number of saves, visits and losses: the page *)
(* of the fuel mappings, at rest, shows the table, although each answer    *)
(* brought a part of it as of its own commit (createFuelMappingCascade,    *)
(* updateFuelMapping, deleteFuelMapping).                                  *)
THEOREM MappingsAreRight == Spec => []SettledMappingsAreRight
<1>1. (part = "mappings" => MapInv) => SettledMappingsAreRight
  BY SettledMapsRight DEF SettledMappingsAreRight
<1> QED BY <1>1, MappingsHold, PTL

(* For any number of dates, rows and users: a period that was compared     *)
(* with another one that it overlaps is around it; the form's two checks   *)
(* rule out everything else (CreateEditFuelChargeRow 86-127).              *)
THEOREM OverlapsAreAround == Spec => []OverlapHasACause
<1>1. (part = "charges" => ChargeInv) => OverlapHasACause
  BY OnlyAround DEF OverlapHasACause
<1> QED BY <1>1, ChargesHold, PTL

(* For any number of archives and clicks: the files below the name of an   *)
(* archive are its own unless an answer came after a later selection       *)
(* (FileDetails).                                                          *)
THEOREM ContentsAreRight == Spec => []ContentsAreOfTheSelected
<1>1. (part = "browser" => BrowserInv) => ContentsAreOfTheSelected
  BY DEF BrowserInv, ContentsAreOfTheSelected
<1> QED BY <1>1, BrowserHolds, PTL

(* For any reports and any order of keys, timers and controls: a page on  *)
(* which no timer runs agrees with itself, unless a control was set at     *)
(* first or used while a timer ran, or an id was typed while the sides     *)
(* were swapped (ReportSelector, DiffControls).                            *)
THEOREM PageAgrees == Spec => []SettledPageAgrees
<1>1. (part = "diff" => DiffInv) => SettledPageAgrees
  BY CalmPageAgrees DEF SettledPageAgrees
<1> QED BY <1>1, DiffHolds, PTL

(* For any keys and any number of requests, a timer that runs out is that  *)
(* of the mutation that waits (debounceMutationMiddleware 51-62).          *)
THEOREM TimersStayOwn == Spec => []TimersAreOwn
<1>1. DebounceInv => TimersAreOwn
  BY DEF DebounceInv
<1> QED BY <1>1, MiddlewareHolds, PTL

(* For any keys and any number of requests, the middleware holds back,     *)
(* replaces and sends mutations as LatestWins says.                        *)
THEOREM MiddlewareIsLatestWins == Spec => ImplementsLatestWins
  BY ClientDebounces, DebounceImplements, PTL

(* For any keys and any number of requests: a client that waits for        *)
(* nothing shows what is in the database, but for the keys of which a      *)
(* request was refused or overtook another one (BaseMutation).             *)
THEOREM RestIsRight == Spec => []SettledShowsTheDatabase
<1>1. DebounceInv /\ (part = "mutations" => MutationInv) => SettledShowsTheDatabase
  BY RestShowsTheDatabase DEF SettledShowsTheDatabase
<1> QED BY <1>1, MiddlewareHolds, MutationsHold, PTL
=============================================================================
