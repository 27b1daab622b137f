------------------------------- MODULE XmlDiff -------------------------------
(***************************************************************************)
(* The page that compares the XML files of two reports.  What is compared, *)
(* and how, is the query of the route; the two selectors and the controls  *)
(* keep a state of their own, which they copy into the route: a selector   *)
(* a second after the last key, the controls at once.                      *)
(*                                                                         *)
(* A selector pushes the query its timer was set with, plus its own side.  *)
(* A push makes a new router, so that keys typed after it set a timer      *)
(* beside the one that is running, instead of setting that one anew.       *)
(*                                                                         *)
(* Selector 1 is in the left column, and in the right one when the query   *)
(* is reversed; its side is "First", or "Second" when it is reversed.      *)
(***************************************************************************)
EXTENDS Naturals, Sequences, SequencesExt

CONSTANTS
  ReportId,   \* the ids of the reports in the database
  WrongId,    \* an id that is in no report
  NoId,       \* nothing typed
  OpenedWith, \* the queries the page may be opened with
  MaxPushes   \* bound: changes of the route

Side == {"First", "Second"}
Selector == {1, 2}
Text == ReportId \cup {WrongId, NoId}

(* An id in the query goes with the relay id of its report: an id without  *)
(* a report never stays.                                                   *)
Query == [First : ReportId \cup {NoId}, Second : ReportId \cup {NoId},
          collapsed : BOOLEAN, reversed : BOOLEAN]

DiffAssumption ==
  /\ WrongId \notin ReportId /\ NoId \notin ReportId /\ WrongId # NoId
  /\ OpenedWith \subseteq Query
  /\ MaxPushes \in Nat

VARIABLES
  query,     \* router.query
  pushes,    \* the number of pushes, which tells the routers apart
  swrsReportId,         \* what each selector shows
  swrsReportIdIsValid,  \* and what it says of it
  editing,   \* the selectors that disable the other one
  timers,    \* the calls of debouncedToRouter to come, the next one first
  controls,  \* the switch and the button: collapsed and reversed
  disturbed  \* history: see SettledPageAgrees

vars == <<query, pushes, swrsReportId, swrsReportIdIsValid, editing, timers,
          controls, disturbed>>

Controls == [collapsed : BOOLEAN, reversed : BOOLEAN]
Timer == [selector : Selector, value : Text, query : Query, router : Nat]

TypeOK ==
  /\ query \in Query
  /\ pushes \in 0 .. MaxPushes
  /\ swrsReportId \in [Selector -> Text]
  /\ swrsReportIdIsValid \in [Selector -> {"null", "true", "false"}]
  /\ editing \subseteq Selector
  /\ timers \in Seq(Timer)
  /\ controls \in Controls
  /\ disturbed \in BOOLEAN

-----------------------------------------------------------------------------
diffSide(i, q) == IF (i = 1) = q.reversed THEN "Second" ELSE "First"

(* The page is opened: the selectors start with the ids of their sides,    *)
(* and the controls start from scratch.                                    *)
Init ==
  /\ query \in OpenedWith
  /\ pushes = 0
  /\ swrsReportId = [i \in Selector |-> query[diffSide(i, query)]]
  /\ swrsReportIdIsValid = [i \in Selector |-> "null"]
  /\ editing = {}
  /\ timers = <<>>
  /\ controls = [collapsed |-> FALSE, reversed |-> FALSE]
  /\ disturbed = (query.collapsed \/ query.reversed)

Push(q) ==
  /\ pushes < MaxPushes
  /\ pushes' = pushes + 1
  /\ query' = q

(* A key sets the timer of this router anew; one that another router set   *)
(* keeps running.                                                          *)
handleChange(i, v) ==
  LET mine(t) == t.selector = i /\ t.router = pushes
      new == [selector |-> i, value |-> v, query |-> query, router |-> pushes]
  IN
  /\ editing \subseteq {i}
  /\ swrsReportId' = [swrsReportId EXCEPT ![i] = v]
  /\ editing' = {i}
  /\ \/ /\ \A n \in DOMAIN timers : ~ mine(timers[n])
        /\ timers' = Append(timers, new)
     \/ \E n \in DOMAIN timers :
          mine(timers[n]) /\ timers' = Append(RemoveAt(timers, n), new)
  /\ disturbed' = (disturbed \/ query.reversed)
  /\ UNCHANGED <<query, pushes, swrsReportIdIsValid, controls>>

validateReportId(v) ==
  IF v = NoId THEN "null" ELSE IF v \in ReportId THEN "true" ELSE "false"

\* Mutant of handleRouter: the query takes any id.
TakesAny(t) == [t.query EXCEPT ![diffSide(t.selector, t.query)] = t.value]

\* Mutant of handleRouter: an id without a report leaves the query alone.
KeepsTheOldOne(t) ==
  IF t.value \in ReportId
    THEN [t.query EXCEPT ![diffSide(t.selector, t.query)] = t.value] ELSE t.query

(* A report that exists goes into the query, anything else takes the side  *)
(* out of it.                                                              *)
handleRouter(t) ==
  [t.query EXCEPT ![diffSide(t.selector, t.query)] =
     IF t.value \in ReportId THEN t.value ELSE NoId]

(* The timer runs out.                                                     *)
debouncedToRouter ==
  LET t == Head(timers) IN
  /\ timers # <<>>
  /\ timers' = Tail(timers)
  /\ editing' = editing \ {t.selector}
  /\ swrsReportIdIsValid' =
       [swrsReportIdIsValid EXCEPT ![t.selector] = validateReportId(t.value)]
  /\ Push(handleRouter(t))
  /\ UNCHANGED <<swrsReportId, controls, disturbed>>

handleCollapse ==
  /\ controls' = [controls EXCEPT !.collapsed = ~ @]
  /\ Push([query EXCEPT !.collapsed = controls'.collapsed])
  /\ disturbed' = (disturbed \/ timers # <<>>)
  /\ UNCHANGED <<swrsReportId, swrsReportIdIsValid, editing, timers>>

handleReverse ==
  /\ controls' = [controls EXCEPT !.reversed = ~ @]
  /\ Push([query EXCEPT !.reversed = controls'.reversed])
  /\ disturbed' = (disturbed \/ timers # <<>>)
  /\ UNCHANGED <<swrsReportId, swrsReportIdIsValid, editing, timers>>

Next ==
  \/ \E i \in Selector, v \in Text : handleChange(i, v)
  \/ debouncedToRouter
  \/ handleCollapse
  \/ handleReverse

Spec == Init /\ [][Next]_vars

-----------------------------------------------------------------------------
(* What is on display                                                      *)

(* The columns, left and right, of the selectors, of the details and of    *)
(* the texts that are compared; nothing is compared without both.          *)
column(first) == IF query.reversed THEN 3 - first ELSE first

DetailsIn(c) == IF column(1) = c THEN query.First ELSE query.Second

Compared == query.First # NoId /\ query.Second # NoId
DiffIn(c) ==
  LET texts == IF query.reversed THEN <<query.Second, query.First>>
               ELSE <<query.First, query.Second>>
  IN  texts[c]

Entered(i) == IF swrsReportId[i] = WrongId THEN NoId ELSE swrsReportId[i]

BelowSelectors ==
  \A i \in Selector :
    /\ DetailsIn(column(i)) = Entered(i)
    /\ Compared => DiffIn(column(i)) = Entered(i)

(* When no timer runs, the page is in agreement with itself: the details   *)
(* and the text below each selector are those of the report it names, on   *)
(* the side where it is, what it says of an id is true, and the controls   *)
(* show how the reports are compared.  This needs that the page was opened *)
(* with no control set, that nothing was typed while the sides were        *)
(* swapped, and that no control was used while a timer ran (which then     *)
(* takes it back).                                                         *)
SettledPageAgrees ==
  timers = <<>> /\ ~ disturbed =>
    /\ BelowSelectors
    /\ controls = [collapsed |-> query.collapsed, reversed |-> query.reversed]
    /\ editing = {}
    /\ \A i \in Selector :
         swrsReportIdIsValid[i] # "null" =>
           (swrsReportIdIsValid[i] = "true") = (swrsReportId[i] \in ReportId)
=============================================================================
