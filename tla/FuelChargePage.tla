--------------------------- MODULE FuelChargePage ---------------------------
(***************************************************************************)
(* The page on which the rates of the carbon-taxed fuels are managed: the  *)
(* list of the rate periods of the selected fuel, a form in each row that  *)
(* is edited, and the form that adds a row.                                *)
(*                                                                         *)
(* Nothing in the database keeps the periods of a fuel apart.  The page    *)
(* checks a date when the user leaves its field, against the rows it has   *)
(* at that moment, and the save follows later, in a request of its own;    *)
(* other users save too.  The page shows what its Relay store holds: the   *)
(* lists it fetched, and what the answers to its own mutations put in.     *)
(* Rates and comments are saved with the dates and left out.               *)
(***************************************************************************)
EXTENDS FuelSelection, Sequences, FiniteSets, SequencesExt, Functions

CONSTANTS
  Elsewhere,   \* what other users may save
  MaxDate,     \* dates are 1 .. MaxDate
  MaxCharge,   \* bound: rows of fuel_charge
  MaxEntries,  \* bound: dates entered on this page
  MaxSaves,    \* bound: saves on this page
  MaxForeign,  \* bound: saves of other users
  MaxFaults    \* bound: requests and answers that are lost

ChargeAssumption ==
  Elsewhere \subseteq [fuel : Item, start : 1 .. MaxDate, end : 1 .. MaxDate] /\
  {MaxDate, MaxCharge, MaxEntries, MaxSaves, MaxForeign, MaxFaults} \subseteq Nat

VARIABLES
  charges,   \* fuel_charge, by id
  lists,     \* the lists in the store, for each fuel that was fetched
  records,   \* the rows in the store, by id
  forms,     \* the forms that are open: the new row, and those being edited
  requests,  \* the mutations on their way to the server
  answers,   \* and their answers on the way back
  entries, saves, foreign, faults,  \* counters for the bounds
  overtaken  \* history: ids whose answers came late, or never

store == <<lists, records>>
network == <<requests, answers>>
counters == <<entries, saves, foreign, faults>>
vars == <<selection, charges, store, forms, network, counters, overtaken>>

-----------------------------------------------------------------------------
Put(f, x, v) == [y \in DOMAIN f \cup {x} |-> IF y = x THEN v ELSE f[y]]

Id == 1 .. MaxCharge
New == 0
Date == 1 .. MaxDate
NoDate == 0

Covers(c, d) == c.start <= d /\ d <= c.end
Overlap(c, d) == c.start <= d.end /\ d.start <= c.end
Inside(c, d) == d.start < c.start /\ c.end < d.end

Compared == [id : Id, start : Date, end : Date]

(* version counts the saves of a row; mine says that the last one was made *)
(* here; against holds the rows its dates were both compared with.         *)
Charge == [fuel : Item, start : Date, end : Date, version : Nat,
           mine : BOOLEAN, against : SUBSET Compared]
Record == [start : Date, end : Date, version : Nat]

(* seenStart and seenEnd hold the rows a date was compared with.           *)
Form == [start : Date \cup {NoDate}, end : Date \cup {NoDate},
         startError : BOOLEAN, endError : BOOLEAN,
         seenStart : SUBSET Compared, seenEnd : SUBSET Compared]

(* A mutation: the id (New for a creation), the fuel on display, the dates *)
(* of the form and the rows they were compared with.                       *)
Request == [id : Id \cup {New}, fuel : Item, start : Date, end : Date,
            against : SUBSET Compared, no : 1 .. MaxSaves]
Answer == [created : BOOLEAN, id : Id, fuel : Item, start : Date, end : Date,
           version : Nat]

TypeOK ==
  /\ SelectionTypeOK
  /\ DOMAIN charges \subseteq Id /\ Range(charges) \subseteq Charge
  /\ DOMAIN lists \subseteq Item /\ Range(lists) \subseteq Seq(Id)
  /\ DOMAIN records \subseteq DOMAIN charges /\ Range(records) \subseteq Record
  /\ DOMAIN forms \subseteq Id \cup {New} /\ Range(forms) \subseteq Form
  /\ requests \subseteq Request
  /\ answers \subseteq Answer
  /\ {entries, saves, foreign, faults} \subseteq Nat
  /\ overtaken \subseteq Id

-----------------------------------------------------------------------------
(* The page *)

(* The rows on display: from startIndex to the end, which slice counts     *)
(* from the end of the list when it is negative.                           *)
RatePeriodsToShow == 3

startIndex(list) ==
  LET n == Len(list) - RatePeriodsToShow IN
  IF n >= 0 THEN n
  ELSE IF Len(list) + n >= 0 THEN Len(list) + n ELSE 0

Shown(u, ls) ==
  IF u.item \notin DOMAIN ls THEN <<>>
  ELSE IF u.showAll THEN ls[u.item]
  ELSE SubSeq(ls[u.item], startIndex(ls[u.item]) + 1, Len(ls[u.item]))

(* A row that is no longer on display is unmounted, and its form is lost;  *)
(* the new row keeps its form when another fuel is selected.               *)
Mounted(fs, u, ls) ==
  LET kept == DOMAIN fs \cap ({New} \cup ToSet(Shown(u, ls)))
  IN  [k \in kept |-> fs[k]]

(* All that is in a form when it opens: the dates of its row, or nothing.  *)
Opened(start, end) ==
  [start |-> start, end |-> end, startError |-> FALSE, endError |-> FALSE,
   seenStart |-> {}, seenEnd |-> {}]
Blank == Opened(NoDate, NoDate)
Fresh == [k \in {New} |-> Blank]

Init ==
  /\ SelectionInit
  /\ charges = [i \in {} |-> Blank]
  /\ lists = [i \in {} |-> <<>>]
  /\ records = [i \in {} |-> Blank]
  /\ forms = Fresh
  /\ requests = {} /\ answers = {}
  /\ entries = 0 /\ saves = 0 /\ foreign = 0 /\ faults = 0
  /\ overtaken = {}

RecordOf(c) == [start |-> c.start, end |-> c.end, version |-> c.version]

(* The query of the page: the rows of a fuel, by their start.              *)
Fetched(f) ==
  LET ids == {i \in DOMAIN charges : charges[i].fuel = f}
      earlier(i, j) == charges[i].start < charges[j].start
                         \/ (charges[i].start = charges[j].start /\ i < j)
      Row == 1 .. Cardinality(ids)
  IN  /\ \E list \in [Row -> ids] :
           /\ \A m, n \in Row : m < n => earlier(list[m], list[n])
           /\ lists' = Put(lists, f, list)
      /\ records' = [i \in ids \cup DOMAIN records |->
                      IF i \in ids THEN RecordOf(charges[i]) ELSE records[i]]

Ready == url.item \in DOMAIN lists

PageOnly == UNCHANGED <<fetches, visits, charges, network, counters,
                        overtaken>>

SelectFuel(f) ==
  /\ Click(f, f \in DOMAIN lists)
  /\ forms' = Mounted(forms, url', lists)
  /\ UNCHANGED <<charges, store, network, counters, overtaken>>

(* When the fetch fails, the page fetches again as it renders.             *)
FetchEnds(x) ==
  /\ x \in fetches
  /\ AfterFetch({x})
  /\ IF x.to.item \in DOMAIN lists THEN UNCHANGED store ELSE Fetched(x.to.item)
  /\ forms' = Mounted(forms, url', lists')
  /\ UNCHANGED <<charges, network, counters, overtaken>>

VisitPage ==
  /\ Visit
  /\ forms' = Fresh
  /\ UNCHANGED <<charges, store, network, counters, overtaken>>

handleShowCharges ==
  /\ Ready
  /\ url' = [url EXCEPT !.showAll = ~ @]
  /\ forms' = Mounted(forms, url', lists)
  /\ UNCHANGED store
  /\ PageOnly

StartEdit(i) ==
  /\ Ready
  /\ i \in ToSet(Shown(url, lists)) \ DOMAIN forms
  /\ forms' = Put(forms, i, Opened(records[i].start, records[i].end))
  /\ UNCHANGED <<url, store>>
  /\ PageOnly

(* isDateInFuelTypeFuelCharges: the rows of the list but the one that is   *)
(* edited.  No date, which is an invalid Date, is in no period.            *)
Others(k) ==
  {[id |-> i, start |-> records[i].start, end |-> records[i].end]
     : i \in ToSet(lists[url.item]) \ {k}}
IsFree(d, k) == \A c \in Others(k) : ~ Covers(c, d)

(* An error stays until the form is cleared.                               *)
handleValidate(hasError, d, k) == hasError \/ ~ IsFree(d, k)

Entry ==
  /\ Ready
  /\ entries < MaxEntries
  /\ entries' = entries + 1
  /\ UNCHANGED <<selection, charges, store, network, saves, foreign, faults,
                 overtaken>>

(* A date is typed, and checked when the user leaves its field.            *)
EnterStart(k, d) ==
  /\ Entry
  /\ forms' = [forms EXCEPT
       ![k].start = d,
       ![k].startError = handleValidate(@, d, k),
       ![k].seenStart = Others(k)]

EnterEnd(k, d) ==
  /\ Entry
  /\ forms' = [forms EXCEPT
       ![k].end = d,
       ![k].endError = handleValidate(@, d, k),
       ![k].seenEnd = Others(k)]

(* clearStateData, and setIsEditing(false) when a row is edited.           *)
Closed(k) ==
  IF k = New THEN [forms EXCEPT ![New] = Blank] ELSE Restrict(forms, DOMAIN forms \ {k})

handleCancelEdit(k) ==
  /\ Ready
  /\ forms' = Closed(k)
  /\ UNCHANGED <<url, store>>
  /\ PageOnly

\* Mutant of disableSaveButton: an end in another period does not disable.
WithoutEndError(k) ==
  forms[k].startError \/ forms[k].start = NoDate \/ forms[k].end = NoDate

disableSaveButton(k) ==
  \/ forms[k].startError \/ forms[k].endError
  \/ forms[k].start = NoDate \/ forms[k].end = NoDate

(* The request of a new row takes the fuel on display when it is saved,    *)
(* not when its dates were checked.                                        *)
handleSave(k) ==
  /\ Ready
  /\ ~ disableSaveButton(k)
  /\ saves < MaxSaves
  /\ saves' = saves + 1
  /\ forms' = Closed(k)
  /\ requests' = requests \cup
       {[id |-> k, fuel |-> url.item, start |-> forms[k].start,
         end |-> forms[k].end, no |-> saves + 1,
         against |-> forms[k].seenStart \cap forms[k].seenEnd]}
  /\ UNCHANGED <<selection, charges, store, answers, entries, foreign, faults,
                 overtaken>>

-----------------------------------------------------------------------------
(* The network, the server and the other users *)

NextId == Cardinality(DOMAIN charges) + 1

Version(i) == IF i \in DOMAIN charges THEN charges[i].version + 1 ELSE 1

(* create_fuel_charge and update_fuel_charge, in the order in which the    *)
(* requests happen to arrive.                                              *)
Commit(r) ==
  LET id == IF r.id = New THEN NextId ELSE r.id
      fuel == IF r.id = New THEN r.fuel ELSE charges[id].fuel
  IN
  /\ r \in requests
  /\ id \in Id
  /\ requests' = requests \ {r}
  /\ charges' = Put(charges, id,
                    [fuel |-> fuel, start |-> r.start, end |-> r.end,
                     version |-> Version(id), mine |-> TRUE,
                     against |-> r.against])
  /\ answers' = answers \cup
       {[created |-> r.id = New, id |-> id, fuel |-> r.fuel,
         start |-> r.start, end |-> r.end, version |-> Version(id)]}
  /\ UNCHANGED <<selection, store, forms, counters, overtaken>>

\* Mutant of connection: the list on display when the answer comes.
OnDisplay(a) == IF Ready THEN url.item ELSE a.fuel

(* The configs of createFuelCharge name the list the row was saved from.   *)
connection(a) == a.fuel

(* The answer of a creation is appended to the list the row was saved from *)
(* and both write the row to the store.  A form that edits it is set to    *)
(* the dates of the answer when something in the row changed (the rate or  *)
(* the comment may have, when the dates did not).                          *)
Receive(a) ==
  LET known == a.id \in DOMAIN records
      differs == known /\ (records[a.id].start # a.start
                             \/ records[a.id].end # a.end)
  IN
  /\ a \in answers
  /\ answers' = answers \ {a}
  /\ records' = Put(records, a.id, RecordOf(a))
  /\ lists' = IF a.created /\ a.id \notin ToSet(lists[connection(a)])
                THEN [lists EXCEPT ![connection(a)] = Append(@, a.id)]
                ELSE lists
  /\ \E reset \in {TRUE, differs} :
       LET fs == IF reset /\ a.id \in DOMAIN forms
                   THEN [forms EXCEPT ![a.id] =
                          [@ EXCEPT !.start = a.start, !.end = a.end,
                                    !.seenStart = {}, !.seenEnd = {}]]
                   ELSE forms
       IN  forms' = Mounted(fs, url, lists')
  /\ overtaken' = IF known /\ a.version < records[a.id].version
                    THEN overtaken \cup {a.id} ELSE overtaken
  /\ UNCHANGED <<selection, charges, requests, counters>>

(* A request or an answer is lost.  The page does not learn of it: the     *)
(* mutations have no onError, and the form is already cleared.             *)
Lose ==
  /\ faults < MaxFaults
  /\ faults' = faults + 1
  /\ \/ \E r \in requests : requests' = requests \ {r}
        /\ UNCHANGED <<answers, overtaken>>
     \/ \E a \in answers :
          /\ answers' = answers \ {a}
          /\ overtaken' = overtaken \cup {a.id}
        /\ UNCHANGED requests
  /\ UNCHANGED <<selection, charges, store, forms, entries, saves, foreign>>

(* Somebody else creates or updates a row.                                 *)
SaveElsewhere(id, c) ==
  /\ foreign < MaxForeign
  /\ id \in DOMAIN charges \cup {NextId}
  /\ id \in DOMAIN charges => charges[id].fuel = c.fuel
  /\ foreign' = foreign + 1
  /\ charges' = Put(charges, id,
                    [fuel |-> c.fuel, start |-> c.start, end |-> c.end,
                     version |-> Version(id), mine |-> FALSE, against |-> {}])
  /\ UNCHANGED <<selection, store, forms, network, entries, saves, faults,
                 overtaken>>

-----------------------------------------------------------------------------
Next ==
  \/ \E f \in Item : SelectFuel(f)
  \/ \E x \in fetches : FetchEnds(x)
  \/ VisitPage
  \/ handleShowCharges
  \/ \E i \in Id : StartEdit(i)
  \/ \E k \in DOMAIN forms, d \in Date \cup {NoDate} :
       EnterStart(k, d) \/ EnterEnd(k, d)
  \/ \E k \in DOMAIN forms : handleCancelEdit(k) \/ handleSave(k)
  \/ \E r \in requests : Commit(r)
  \/ \E a \in answers : Receive(a)
  \/ Lose
  \/ \E id \in Id, c \in Elsewhere : SaveElsewhere(id, c)

Spec == Init /\ [][Next]_vars

-----------------------------------------------------------------------------
(* Two periods of a fuel that overlap have a reason: a date is never saved *)
(* into a period it was compared with (CreateEditFuelChargeRow 86-127), so *)
(* what remains is a period around the other one, and rows that were not   *)
(* compared: saved elsewhere, or in flight, or of the fuel that was        *)
(* selected after the dates were entered.                                  *)
OverlapHasACause ==
  \A i, j \in DOMAIN charges :
    LET c == charges[i]
        d == charges[j]
    IN  [id |-> j, start |-> d.start, end |-> d.end] \in c.against /\ Overlap(c, d)
          => Inside(d, c)

(* What is on display when nothing is in flight is what this user saved:   *)
(* each answer went to the list of its fuel, whatever was selected when it *)
(* came, and the rows that nobody else saved are as they are in the        *)
(* database, unless their answers came in another order, or not at all.    *)
SettledChargesAreRight ==
  /\ \A f \in DOMAIN lists : \A i \in ToSet(lists[f]) : charges[i].fuel = f
  /\ requests = {} /\ answers = {} =>
       \A i \in DOMAIN charges :
         charges[i].mine /\ i \notin overtaken =>
           /\ charges[i].fuel \in DOMAIN lists
           /\ i \in ToSet(lists[charges[i].fuel])
           /\ records[i] = RecordOf(charges[i])
=============================================================================
