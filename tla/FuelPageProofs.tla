--------------------------- MODULE FuelPageProofs ---------------------------
(***************************************************************************)
(* Proofs about the two pages of the fuel management, as the client runs   *)
(* them.  The page of the rate periods: its types, that what the two       *)
(* checks of the form compare stays apart until it is in the table, and    *)
(* that the page at rest shows what its user saved.  The page of the fuel  *)
(* mappings: its types, and that it shows the table when it is at rest.    *)
(***************************************************************************)
EXTENDS WebClientMC, FiniteSetTheorems, TLAPS

ChargeAssumptions == Charge!SelectionAssumption /\ Charge!ChargeAssumption

(* What the page knows is in the table, and what it lists and edits it     *)
(* knows.                                                                  *)
ChargesKnown ==
  /\ \A f \in DOMAIN lists : Charge!ToSet(lists[f]) \subseteq DOMAIN records
  /\ DOMAIN forms \subseteq {Charge!New} \cup DOMAIN records
  /\ \A r \in requests : r.id \in {Charge!New} \cup DOMAIN charges
  /\ \A a \in answers : a.id \in DOMAIN charges

(* A date without an error is in none of the periods it was compared with. *)
FormChecked(f) ==
  /\ ~ f.startError => \A c \in f.seenStart : ~ Charge!Covers(c, f.start)
  /\ ~ f.endError => \A c \in f.seenEnd : ~ Charge!Covers(c, f.end)

(* So are both dates of a row on its way to the table, and in it.          *)
RowChecked(r) ==
  \A c \in r.against : ~ Charge!Covers(c, r.start) /\ ~ Charge!Covers(c, r.end)

ChargesChecked ==
  /\ \A k \in DOMAIN forms : FormChecked(forms[k])
  /\ \A r \in requests : RowChecked(r)
  /\ \A i \in DOMAIN charges : RowChecked(charges[i])

SavesCounted == saves \in 0 .. MaxSaves

ChargeInv == Charge!TypeOK /\ SavesCounted /\ ChargesKnown /\ ChargesChecked

-----------------------------------------------------------------------------
(* Operators of the page.                                                  *)

LEMMA BlankForm == Charge!Blank \in Charge!Form /\ FormChecked(Charge!Blank)
  BY DEF Charge!Blank, Charge!Opened, Charge!NoDate, Charge!Form, FormChecked

(* What is on display is in the list.                                      *)
LEMMA ShownIsListed ==
  ASSUME NEW u, u.item \in DOMAIN lists, Charge!TypeOK
  PROVE  Charge!ToSet(Charge!Shown(u, lists)) \subseteq Charge!ToSet(lists[u.item])
<1> DEFINE s == lists[u.item]
<1>1. s \in Seq(Charge!Id)
  BY DEF Charge!TypeOK, Charge!Range
<1>2. CASE u.showAll
  BY <1>2 DEF Charge!Shown
<1>3. CASE ~ u.showAll
  <2>1. Charge!startIndex(s) \in Nat /\ Len(s) \in Nat
    BY <1>1 DEF Charge!startIndex, Charge!RatePeriodsToShow
  <2>2. Charge!ToSet(SubSeq(s, Charge!startIndex(s) + 1,
  Len(s))) \subseteq Charge!ToSet(s)
    BY <1>1, <2>1 DEF Charge!ToSet
  <2> QED BY <1>3, <2>2 DEF Charge!Shown
<1> QED BY <1>2, <1>3

(* Rows that are unmounted take their forms along, and no other is changed.*)
LEMMA MountedForms ==
  ASSUME NEW fs, NEW u, NEW ls
  PROVE  /\ DOMAIN Charge!Mounted(fs, u, ls) \subseteq DOMAIN fs
         /\ \A k \in DOMAIN Charge!Mounted(fs, u, ls) : Charge!Mounted(fs, u, ls)[k] = fs[k]
  BY DEF Charge!Mounted

LEMMA ClosedForms ==
  ASSUME ChargeInv, NEW k \in DOMAIN forms, forms' = Charge!Closed(k)
  PROVE  /\ DOMAIN forms' \subseteq DOMAIN forms
         /\ \A j \in DOMAIN forms' : forms'[j] \in Charge!Form /\ FormChecked(forms'[j])
  BY BlankForm DEF Charge!Closed, Charge!Restrict, ChargeInv, Charge!TypeOK,
     Charge!Range, ChargesChecked

LEMMA OthersCompared ==
  ASSUME ChargeInv, Charge!Ready, NEW k
  PROVE  Charge!Others(k) \subseteq Charge!Compared
<1>1. Charge!ToSet(lists[url.item]) \subseteq DOMAIN records
  BY DEF ChargeInv, ChargesKnown, Charge!Ready
<1>2. \A i \in DOMAIN records : i \in Charge!Id /\ records[i] \in Charge!Record
  BY DEF ChargeInv, Charge!TypeOK, Charge!Range
<1> QED BY <1>1, <1>2 DEF Charge!Others, Charge!Compared, Charge!Record

-----------------------------------------------------------------------------
(* Steps.                                                                  *)

LEMMA ChargeInit ==
  ASSUME ChargeAssumptions, Charge!Init
  PROVE  ChargeInv
<1>1. DOMAIN forms = {Charge!New} /\ forms[Charge!New] = Charge!Blank
  BY DEF Charge!Init, Charge!Fresh
<1>2. Charge!SelectionTypeOK
  BY DEF ChargeAssumptions, Charge!Init, Charge!SelectionInit,
     Charge!SelectionTypeOK, Charge!SelectionAssumption,
         Charge!Url, Charge!Fetch
<1>3. 0 \in 0 .. MaxSaves
  BY DEF ChargeAssumptions, Charge!ChargeAssumption
<1>4. Charge!TypeOK
  BY <1>1, <1>2, BlankForm DEF Charge!Init, Charge!TypeOK, Charge!Range
<1> QED BY <1>1, <1>3, <1>4, BlankForm
        DEF Charge!Init, ChargeInv, SavesCounted, ChargesKnown, ChargesChecked

LEMMA ChargeBounds ==
  ASSUME ChargeAssumptions
  PROVE  MaxCharge \in Nat /\ MaxSaves \in Nat
  BY DEF ChargeAssumptions, Charge!ChargeAssumption

LEMMA ListTyped ==
  ASSUME NEW n \in Nat, NEW S \in SUBSET Charge!Id, NEW s \in [1 .. n -> S]
  PROVE  s \in Seq(Charge!Id) /\ Charge!ToSet(s) \subseteq S
  BY DEF Charge!ToSet

(* A function with one more value keeps the type of its values.            *)
LEMMA PutTyped ==
  ASSUME NEW f, NEW x, NEW v, NEW S, Charge!Range(f) \subseteq S, v \in S
  PROVE  /\ DOMAIN Charge!Put(f, x, v) = DOMAIN f \cup {x}
         /\ Charge!Put(f, x, v)[x] = v
         /\ \A y \in DOMAIN f : y # x => Charge!Put(f, x, v)[y] = f[y]
         /\ Charge!Range(Charge!Put(f, x, v)) \subseteq S
  BY DEF Charge!Put, Charge!Range

(* Steps that change the forms only, and perhaps the route.                *)
LEMMA FormsChange ==
  ASSUME ChargeInv, Charge!SelectionTypeOK',
         UNCHANGED <<charges, Charge!store, Charge!network, Charge!counters,
         overtaken>>,
         DOMAIN forms' \subseteq {Charge!New} \cup DOMAIN records,
         \A k \in DOMAIN forms' : forms'[k] \in Charge!Form /\ FormChecked(forms'[k])
  PROVE  ChargeInv'
<1> USE DEF Charge!store, Charge!network, Charge!counters
<1>1. Charge!TypeOK'
  BY DEF ChargeInv, Charge!TypeOK, Charge!Range, Charge!New, ChargesKnown
<1>2. ChargesKnown' /\ ChargesChecked' /\ SavesCounted'
  BY DEF ChargeInv, ChargesKnown, ChargesChecked, SavesCounted, FormChecked,
     RowChecked
<1> QED BY <1>1, <1>2 DEF ChargeInv

LEMMA FormsOK ==
  ASSUME ChargeInv
  PROVE  /\ DOMAIN forms \subseteq {Charge!New} \cup DOMAIN records
         /\ \A k \in DOMAIN forms : forms[k] \in Charge!Form /\ FormChecked(forms[k])
  BY DEF ChargeInv, Charge!TypeOK, Charge!Range, ChargesKnown, ChargesChecked

LEMMA SelectFuelKeeps ==
  ASSUME ChargeAssumptions, ChargeInv, NEW f \in Item, Charge!SelectFuel(f)
  PROVE  ChargeInv'
<1> DEFINE to == [url EXCEPT !.item = f]
<1>0. url \in Charge!Url /\ fetches \subseteq Charge!Fetch /\ visits \in 0 .. MaxVisits
  BY DEF ChargeInv, Charge!TypeOK, Charge!SelectionTypeOK
<1>1. Charge!SelectionTypeOK'
  <2>1. to \in [item : Item, showAll : BOOLEAN]
    BY <1>0 DEF Charge!Url
  <2>2. to \in Charge!Url /\ [to |-> to, gone |-> FALSE] \in Charge!Fetch
    BY <2>1 DEF Charge!Url, Charge!Fetch
  <2>3. url' \in Charge!Url /\ fetches' \subseteq Charge!Fetch /\ visits' = visits
    BY <1>0, <2>2 DEF Charge!SelectFuel, Charge!Click
  <2> QED BY <1>0, <2>3 DEF Charge!SelectionTypeOK
<1> QED BY <1>1, FormsOK, MountedForms, FormsChange DEF Charge!SelectFuel

LEMMA VisitPageKeeps ==
  ASSUME ChargeAssumptions, ChargeInv, Charge!VisitPage
  PROVE  ChargeInv'
<1>0. fetches \subseteq Charge!Fetch /\ visits \in 0 .. MaxVisits /\ MaxVisits \in Nat
  BY DEF ChargeAssumptions, Charge!SelectionAssumption, ChargeInv,
     Charge!TypeOK, Charge!SelectionTypeOK
<1>1. Charge!SelectionTypeOK'
  <2>1. \A x \in fetches : [x EXCEPT !.gone = TRUE] \in Charge!Fetch
    BY <1>0 DEF Charge!Fetch
  <2>2. fetches' \subseteq Charge!Fetch
    BY <2>1 DEF Charge!VisitPage, Charge!Visit
  <2>3. url' \in Charge!Url /\ visits' \in 0 .. MaxVisits
    BY <1>0 DEF Charge!VisitPage, Charge!Visit, Charge!Url
  <2> QED BY <2>2, <2>3 DEF Charge!SelectionTypeOK
<1> QED BY <1>1, BlankForm, FormsChange DEF Charge!VisitPage, Charge!Fresh

LEMMA ShowChargesKeeps ==
  ASSUME ChargeInv, Charge!handleShowCharges
  PROVE  ChargeInv'
<1>1. Charge!SelectionTypeOK'
  BY DEF ChargeInv, Charge!TypeOK, Charge!handleShowCharges, Charge!PageOnly,
     Charge!SelectionTypeOK, Charge!Url
<1> QED BY <1>1, FormsOK, MountedForms, FormsChange
        DEF Charge!handleShowCharges, Charge!PageOnly

LEMMA SelectionSame ==
  ASSUME ChargeInv, UNCHANGED Charge!selection
  PROVE  Charge!SelectionTypeOK'
  BY DEF ChargeInv, Charge!TypeOK, Charge!selection, Charge!SelectionTypeOK

LEMMA StartEditKeeps ==
  ASSUME ChargeInv, NEW i \in Charge!Id, Charge!StartEdit(i)
  PROVE  ChargeInv'
<1>1. i \in DOMAIN records
  BY ShownIsListed DEF Charge!StartEdit, Charge!Ready, ChargeInv, ChargesKnown
<1>2. records[i] \in Charge!Record
  BY <1>1 DEF ChargeInv, Charge!TypeOK, Charge!Range
<1>3. /\ Charge!Opened(records[i].start, records[i].end) \in Charge!Form
      /\ FormChecked(Charge!Opened(records[i].start, records[i].end))
  BY <1>2 DEF Charge!Opened, Charge!Record, Charge!Form, FormChecked
<1>4. /\ DOMAIN forms' = DOMAIN forms \cup {i}
      /\ \A k \in DOMAIN forms' : forms'[k] \in Charge!Form /\ FormChecked(forms'[k])
  BY <1>3, FormsOK DEF Charge!StartEdit, Charge!Put
<1>5. Charge!SelectionTypeOK'
  BY SelectionSame DEF Charge!StartEdit, Charge!PageOnly, Charge!selection
<1> QED BY <1>1, <1>4, <1>5, FormsOK, FormsChange DEF Charge!StartEdit,
           Charge!PageOnly

LEMMA CancelKeeps ==
  ASSUME ChargeInv, NEW k \in DOMAIN forms, Charge!handleCancelEdit(k)
  PROVE  ChargeInv'
<1>1. Charge!SelectionTypeOK'
  BY SelectionSame DEF Charge!handleCancelEdit, Charge!PageOnly,
     Charge!selection
<1> QED BY <1>1, ClosedForms, FormsOK, FormsChange DEF Charge!handleCancelEdit,
           Charge!PageOnly

(* The check, and the rows it compared.                                    *)
LEMMA EnterKeeps ==
  ASSUME ChargeInv, NEW k \in DOMAIN forms, NEW d \in Charge!Date \cup {Charge!NoDate},
         Charge!EnterStart(k, d) \/ Charge!EnterEnd(k, d)
  PROVE  ChargeInv'
<1>1. Charge!Others(k) \subseteq Charge!Compared
  BY OthersCompared DEF Charge!EnterStart, Charge!EnterEnd, Charge!Entry
<1>2. forms[k] \in Charge!Form /\ FormChecked(forms[k])
  BY FormsOK
<1>3. forms'[k] \in Charge!Form /\ FormChecked(forms'[k])
  <2>1. CASE Charge!EnterStart(k, d)
    BY <1>1, <1>2, <2>1 DEF Charge!EnterStart, Charge!handleValidate,
       Charge!IsFree, Charge!Form, FormChecked
  <2>2. CASE Charge!EnterEnd(k, d)
    BY <1>1, <1>2, <2>2 DEF Charge!EnterEnd, Charge!handleValidate,
       Charge!IsFree, Charge!Form, FormChecked
  <2> QED BY <2>1, <2>2
<1>4. /\ DOMAIN forms' = DOMAIN forms
      /\ \A j \in DOMAIN forms : j # k => forms'[j] = forms[j]
  BY DEF Charge!EnterStart, Charge!EnterEnd
<1>5. /\ UNCHANGED <<Charge!selection, charges, Charge!store, Charge!network, overtaken>>
      /\ UNCHANGED <<saves, foreign, faults>>
      /\ entries' = entries + 1
  BY DEF Charge!EnterStart, Charge!EnterEnd, Charge!Entry
<1>6. \A j \in DOMAIN forms' : forms'[j] \in Charge!Form /\ FormChecked(forms'[j])
  BY <1>3, <1>4, FormsOK
<1>7. Charge!SelectionTypeOK'
  BY <1>5, SelectionSame
<1>8. Charge!TypeOK'
  BY <1>4, <1>5, <1>6, <1>7 DEF Charge!store, Charge!network, ChargeInv,
     Charge!TypeOK, Charge!Range
<1>9. ChargesKnown' /\ ChargesChecked' /\ SavesCounted'
  BY <1>4, <1>5, <1>6
     DEF Charge!store, Charge!network, ChargeInv, ChargesKnown, ChargesChecked,
         SavesCounted, FormChecked, RowChecked
<1> QED BY <1>8, <1>9 DEF ChargeInv

LEMMA FetchEndsKeeps ==
  ASSUME ChargeAssumptions, ChargeInv, NEW x \in fetches, Charge!FetchEnds(x)
  PROVE  ChargeInv'
<1> DEFINE f == x.to.item
<1>1. x \in Charge!Fetch /\ f \in Item /\ x.to \in Charge!Url
  BY DEF ChargeInv, Charge!TypeOK, Charge!SelectionTypeOK, Charge!Fetch,
     Charge!Url
<1>2. Charge!SelectionTypeOK'
  BY <1>1 DEF Charge!FetchEnds, Charge!AfterFetch, ChargeInv, Charge!TypeOK,
     Charge!SelectionTypeOK
<1>3. UNCHANGED <<charges, Charge!network, Charge!counters, overtaken>>
  BY DEF Charge!FetchEnds
<1>4. /\ DOMAIN lists' \subseteq Item /\ Charge!Range(lists') \subseteq Seq(Charge!Id)
      /\ DOMAIN records' \subseteq DOMAIN charges /\ Charge!Range(records') \subseteq Charge!Record
      /\ DOMAIN records \subseteq DOMAIN records'
      /\ \A g \in DOMAIN lists' : Charge!ToSet(lists'[g]) \subseteq DOMAIN records'
  <2>1. CASE f \in DOMAIN lists
    BY <2>1 DEF Charge!FetchEnds, Charge!store, ChargeInv, Charge!TypeOK,
       ChargesKnown
  <2>2. CASE f \notin DOMAIN lists
    <3> DEFINE ids == {i \in DOMAIN charges : charges[i].fuel = f}
    <3>1. Charge!Fetched(f)
      BY <2>2 DEF Charge!FetchEnds
    <3>2. PICK list \in [1 .. Charge!Cardinality(ids) -> ids] : lists' = Charge!Put(lists, f, list)
      BY <3>1 DEF Charge!Fetched
    <3>3. /\ DOMAIN records' = ids \cup DOMAIN records
          /\ \A i \in DOMAIN records' :
               records'[i] = IF i \in ids THEN Charge!RecordOf(charges[i]) ELSE records[i]
      BY <3>1 DEF Charge!Fetched
    <3>4. \A i \in ids : Charge!RecordOf(charges[i]) \in Charge!Record
      BY DEF ChargeInv, Charge!TypeOK, Charge!Range, Charge!Charge,
         Charge!RecordOf, Charge!Record
    <3>5. ids \subseteq Charge!Id
      BY DEF ChargeInv, Charge!TypeOK
    <3>6. Charge!Cardinality(ids) \in Nat
      <4>1. IsFiniteSet(Charge!Id)
        BY ChargeBounds, FS_Interval DEF Charge!Id
      <4> QED BY <3>5, <4>1, FS_Subset, FS_CardinalityType
                 DEF Charge!Cardinality, Cardinality
    <3>7. list \in Seq(Charge!Id) /\ Charge!ToSet(list) \subseteq ids
      BY <3>2, <3>5, <3>6, ListTyped
    <3>8. DOMAIN lists' = DOMAIN lists \cup {f} /\ Charge!Range(lists') \subseteq Seq(Charge!Id)
      BY <3>2, <3>7, PutTyped DEF ChargeInv, Charge!TypeOK
    <3>9. ASSUME NEW g \in DOMAIN lists' PROVE Charge!ToSet(lists'[g]) \subseteq DOMAIN records'
      <4>1. CASE g = f
        BY <3>2, <3>3, <3>7, <4>1 DEF Charge!Put
      <4>2. CASE g # f
        <5>1. g \in DOMAIN lists /\ lists'[g] = lists[g]
          BY <3>2, <4>2 DEF Charge!Put
        <5> QED BY <3>3, <5>1 DEF ChargeInv, ChargesKnown
      <4> QED BY <4>1, <4>2
    <3> QED BY <1>1, <3>3, <3>4, <3>8, <3>9 DEF ChargeInv, Charge!TypeOK,
               Charge!Range
  <2> QED BY <2>1, <2>2
<1>5. /\ DOMAIN forms' \subseteq {Charge!New} \cup DOMAIN records'
      /\ \A k \in DOMAIN forms' : forms'[k] \in Charge!Form /\ FormChecked(forms'[k])
  BY <1>4, FormsOK, MountedForms DEF Charge!FetchEnds
<1>6. Charge!TypeOK'
  BY <1>2, <1>3, <1>4, <1>5
     DEF Charge!network, Charge!counters, ChargeInv, Charge!TypeOK,
         Charge!Range, Charge!New, ChargesKnown
<1>7. ChargesKnown' /\ ChargesChecked' /\ SavesCounted'
  BY <1>3, <1>4, <1>5
     DEF Charge!network, Charge!counters, ChargeInv, ChargesKnown,
         ChargesChecked, SavesCounted, FormChecked, RowChecked
<1> QED BY <1>6, <1>7 DEF ChargeInv

(* What is saved has no error, so that neither date is in a period that    *)
(* both were compared with.                                                *)
LEMMA SaveKeeps ==
  ASSUME ChargeAssumptions, ChargeInv, NEW k \in DOMAIN forms, Charge!handleSave(k)
  PROVE  ChargeInv'
<1> DEFINE r == [id |-> k, fuel |-> url.item, start |-> forms[k].start,
                 end |-> forms[k].end, no |-> saves + 1,
                 against |-> forms[k].seenStart \cap forms[k].seenEnd]
<1>1. forms[k] \in Charge!Form /\ FormChecked(forms[k])
  BY FormsOK
<1>2. saves + 1 \in 1 .. MaxSaves /\ saves' = saves + 1 /\ saves' \in 0 .. MaxSaves
  BY ChargeBounds DEF Charge!handleSave, ChargeInv, SavesCounted
<1>3. /\ forms[k].start \in Charge!Date /\ forms[k].end \in Charge!Date
      /\ ~ forms[k].startError /\ ~ forms[k].endError
  BY <1>1 DEF Charge!handleSave, Charge!disableSaveButton, Charge!Form
<1>4. k \in Charge!Id \cup {Charge!New} /\ url.item \in Item
  BY FormsOK DEF Charge!handleSave, Charge!Ready, ChargeInv, Charge!TypeOK
<1>5. r \in Charge!Request
  BY <1>1, <1>2, <1>3, <1>4 DEF Charge!Request, Charge!Form
<1>6. RowChecked(r)
  BY <1>1, <1>3 DEF RowChecked, FormChecked
<1>7. requests' = requests \cup {r}
  BY DEF Charge!handleSave
<1>8. /\ DOMAIN forms' \subseteq DOMAIN forms
      /\ \A j \in DOMAIN forms' : forms'[j] \in Charge!Form /\ FormChecked(forms'[j])
  BY ClosedForms DEF Charge!handleSave
<1>9. /\ UNCHANGED <<Charge!selection, charges, lists, records, answers, entries, foreign,
                     faults, overtaken>>
  BY DEF Charge!handleSave, Charge!store
<1>10. Charge!SelectionTypeOK'
  BY <1>9, SelectionSame
<1>11. Charge!TypeOK'
  <2>1. requests' \subseteq Charge!Request
    <3> HIDE DEF r
    <3> QED BY <1>5, <1>7 DEF ChargeInv, Charge!TypeOK
  <2>3. saves' \in Nat
    BY <1>2, ChargeBounds
  <2>2. DOMAIN forms' \subseteq Charge!Id \cup {Charge!New} /\ Charge!Range(forms') \subseteq Charge!Form
    BY <1>8 DEF ChargeInv, Charge!TypeOK, Charge!Range
  <2> QED BY <1>9, <1>10, <2>1, <2>2, <2>3 DEF ChargeInv, Charge!TypeOK
<1>12. k \in {Charge!New} \cup DOMAIN charges
  BY FormsOK DEF ChargeInv, Charge!TypeOK
<1>13. ChargesKnown' /\ ChargesChecked' /\ SavesCounted'
  BY <1>2, <1>6, <1>7, <1>8, <1>9, <1>12
     DEF ChargeInv, ChargesKnown, ChargesChecked, SavesCounted, FormChecked,
         RowChecked
<1> QED BY <1>11, <1>13 DEF ChargeInv

LEMMA CommitKeeps ==
  ASSUME ChargeInv, NEW r \in requests, Charge!Commit(r)
  PROVE  ChargeInv'
<1> DEFINE id == IF r.id = Charge!New THEN Charge!NextId ELSE r.id
           fuel == IF r.id = Charge!New THEN r.fuel ELSE charges[id].fuel
           c == [fuel |-> fuel, start |-> r.start, end |-> r.end,
                 version |-> Charge!Version(id), mine |-> TRUE,
                 against |-> r.against]
           a == [created |-> r.id = Charge!New, id |-> id, fuel |-> r.fuel,
                 start |-> r.start, end |-> r.end,
                 version |-> Charge!Version(id)]
<1>1. r \in Charge!Request /\ RowChecked(r) /\ r.id \in {Charge!New} \cup DOMAIN charges
  BY DEF ChargeInv, Charge!TypeOK, ChargesKnown, ChargesChecked
<1>2. /\ id \in Charge!Id
      /\ charges' = Charge!Put(charges, id, c)
      /\ requests' = requests \ {r}
      /\ answers' = answers \cup {a}
      /\ UNCHANGED <<Charge!selection, lists, records, forms, entries, saves, foreign,
                     faults, overtaken>>
  BY DEF Charge!Commit, Charge!store, Charge!counters
<1>3. \A i \in DOMAIN charges : charges[i] \in Charge!Charge
  BY DEF ChargeInv, Charge!TypeOK, Charge!Range
<1>4. Charge!Version(id) \in Nat
  BY <1>3 DEF Charge!Version, Charge!Charge
<1>5. fuel \in Item
  BY <1>1, <1>3 DEF Charge!Request, Charge!Charge
<1>6. c \in Charge!Charge /\ a \in Charge!Answer
  BY <1>1, <1>2, <1>4, <1>5 DEF Charge!Request, Charge!Charge, Charge!Answer
<1>7. RowChecked(c)
  BY <1>1 DEF RowChecked
<1> HIDE DEF id, fuel, c, a
<1>8. Charge!Range(charges) \subseteq Charge!Charge /\ DOMAIN charges \subseteq Charge!Id
  BY DEF ChargeInv, Charge!TypeOK
<1>9. /\ DOMAIN charges' = DOMAIN charges \cup {id} /\ Charge!Range(charges') \subseteq Charge!Charge
      /\ charges'[id] = c
      /\ \A i \in DOMAIN charges : i # id => charges'[i] = charges[i]
  <2>1. /\ DOMAIN charges' = DOMAIN charges \cup {id} /\ charges'[id] = c
        /\ \A i \in DOMAIN charges : i # id => charges'[i] = charges[i]
    BY <1>2 DEF Charge!Put
  <2> QED BY <1>6, <1>8, <2>1 DEF Charge!Range
<1>10. Charge!SelectionTypeOK'
  BY <1>2, SelectionSame
<1>11. Charge!TypeOK'
  BY <1>2, <1>6, <1>8, <1>9, <1>10 DEF ChargeInv, Charge!TypeOK
<1>12. ChargesChecked'
  <2>1. \A i \in DOMAIN charges' : RowChecked(charges'[i])
    BY <1>7, <1>9 DEF ChargeInv, ChargesChecked
  <2> QED BY <1>2, <2>1 DEF ChargeInv, ChargesChecked, FormChecked, RowChecked
<1>13. a.id \in DOMAIN charges'
  BY <1>9 DEF a
<1>14. ChargesKnown' /\ SavesCounted'
  BY <1>2, <1>9, <1>13 DEF ChargeInv, ChargesKnown, SavesCounted
<1> QED BY <1>11, <1>12, <1>14 DEF ChargeInv

LEMMA ReceiveKeeps ==
  ASSUME ChargeInv, NEW a \in answers, Charge!Receive(a)
  PROVE  ChargeInv'
<1>1. a \in Charge!Answer /\ a.id \in DOMAIN charges
  BY DEF ChargeInv, Charge!TypeOK, ChargesKnown
<1>2. /\ UNCHANGED <<Charge!selection, charges, requests, entries, saves, foreign, faults>>
      /\ answers' = answers \ {a}
      /\ records' = Charge!Put(records, a.id, Charge!RecordOf(a))
      /\ overtaken' \subseteq overtaken \cup {a.id}
  BY DEF Charge!Receive, Charge!counters
<1>3. Charge!RecordOf(a) \in Charge!Record
  BY <1>1 DEF Charge!RecordOf, Charge!Record, Charge!Answer
<1>4. /\ DOMAIN records' = DOMAIN records \cup {a.id}
      /\ DOMAIN records' \subseteq DOMAIN charges /\ Charge!Range(records') \subseteq Charge!Record
  <2>1. /\ DOMAIN records' = DOMAIN records \cup {a.id} /\ records'[a.id] = Charge!RecordOf(a)
        /\ \A i \in DOMAIN records : i # a.id => records'[i] = records[i]
    BY <1>2 DEF Charge!Put
  <2> QED BY <1>1, <1>3, <2>1 DEF Charge!Range, ChargeInv, Charge!TypeOK
<1>5. /\ DOMAIN lists' = DOMAIN lists
      /\ \A f \in DOMAIN lists :
           lists'[f] = lists[f] \/ lists'[f] = Append(lists[f], a.id)
  BY DEF Charge!Receive
<1>6. ASSUME NEW f \in DOMAIN lists
      PROVE  lists'[f] \in Seq(Charge!Id) /\ Charge!ToSet(lists'[f]) \subseteq DOMAIN records'
  <2>1. lists[f] \in Seq(Charge!Id) /\ a.id \in Charge!Id /\ Charge!ToSet(lists[f]) \subseteq DOMAIN records
    BY <1>1 DEF ChargeInv, Charge!TypeOK, Charge!Range, ChargesKnown
  <2>2. /\ Append(lists[f], a.id) \in Seq(Charge!Id)
        /\ Charge!ToSet(Append(lists[f], a.id)) \subseteq Charge!ToSet(lists[f]) \cup {a.id}
    BY <2>1 DEF Charge!ToSet
  <2> QED BY <1>4, <1>5, <2>1, <2>2
<1>7. /\ DOMAIN forms' \subseteq {Charge!New} \cup DOMAIN records
      /\ \A k \in DOMAIN forms' : forms'[k] \in Charge!Form /\ FormChecked(forms'[k])
  <2>1. PICK fs : /\ fs = forms \/ /\ a.id \in DOMAIN forms
                                   /\ fs = [forms EXCEPT ![a.id] =
                                              [@ EXCEPT !.start = a.start, !.end = a.end,
                                                        !.seenStart = {},
                                                        !.seenEnd = {}]]
                  /\ forms' = Charge!Mounted(fs, url, lists')
    BY DEF Charge!Receive
  <2>2. /\ DOMAIN fs = DOMAIN forms
        /\ \A k \in DOMAIN fs : fs[k] \in Charge!Form /\ FormChecked(fs[k])
    <3>1. CASE fs = forms
      BY <3>1, FormsOK
    <3>2. CASE fs # forms
      <4>1. forms[a.id] \in Charge!Form
        BY <2>1, <3>2, FormsOK
      <4>2. fs[a.id] = [forms[a.id] EXCEPT !.start = a.start, !.end = a.end,
                                           !.seenStart = {}, !.seenEnd = {}]
        BY <2>1, <3>2
      <4>3. a.start \in Charge!Date /\ a.end \in Charge!Date
        BY <1>1 DEF Charge!Answer
      <4>4. fs[a.id] \in Charge!Form /\ fs[a.id].seenStart = {} /\ fs[a.id].seenEnd = {}
        BY <4>1, <4>2, <4>3 DEF Charge!Form
      <4>5. FormChecked(fs[a.id])
        BY <4>4 DEF FormChecked
      <4> QED BY <2>1, <3>2, <4>4, <4>5, FormsOK
    <3> QED BY <3>1, <3>2
  <2> QED BY <2>1, <2>2, FormsOK, MountedForms
<1>8. Charge!SelectionTypeOK'
  BY <1>2, SelectionSame
<1>9. Charge!TypeOK'
  <2>1. Charge!Range(lists') \subseteq Seq(Charge!Id)
    BY <1>5, <1>6 DEF Charge!Range
  <2>2. DOMAIN forms' \subseteq Charge!Id \cup {Charge!New} /\ Charge!Range(forms') \subseteq Charge!Form
    BY <1>7 DEF Charge!Range, ChargeInv, Charge!TypeOK
  <2>3. overtaken' \subseteq Charge!Id
    BY <1>1, <1>2 DEF Charge!Answer, ChargeInv, Charge!TypeOK
  <2> QED BY <1>2, <1>4, <1>5, <1>8, <2>1, <2>2, <2>3 DEF ChargeInv,
             Charge!TypeOK
<1>10. ChargesKnown' /\ ChargesChecked' /\ SavesCounted'
  BY <1>2, <1>4, <1>5, <1>6, <1>7
     DEF ChargeInv, ChargesKnown, ChargesChecked, SavesCounted, FormChecked,
         RowChecked
<1> QED BY <1>9, <1>10 DEF ChargeInv

LEMMA LoseKeeps ==
  ASSUME ChargeInv, Charge!Lose
  PROVE  ChargeInv'
<1>1. /\ requests' \subseteq requests /\ answers' \subseteq answers
      /\ UNCHANGED <<Charge!selection, charges, lists, records, forms, entries, saves, foreign>>
      /\ faults' = faults + 1
  BY DEF Charge!Lose, Charge!store
<1>2. overtaken' \subseteq Charge!Id
  BY DEF Charge!Lose, ChargeInv, Charge!TypeOK, ChargesKnown
<1>3. Charge!SelectionTypeOK'
  BY <1>1, SelectionSame
<1> QED BY <1>1, <1>2, <1>3
        DEF ChargeInv, Charge!TypeOK, ChargesKnown, ChargesChecked,
            SavesCounted, FormChecked, RowChecked

LEMMA SaveElsewhereKeeps ==
  ASSUME ChargeAssumptions, ChargeInv, NEW id \in Charge!Id, NEW x \in Elsewhere, Charge!SaveElsewhere(id, x)
  PROVE  ChargeInv'
<1> DEFINE c == [fuel |-> x.fuel, start |-> x.start, end |-> x.end,
                 version |-> Charge!Version(id), mine |-> FALSE, against |-> {}]
<1>1. /\ charges' = Charge!Put(charges, id, c)
      /\ UNCHANGED <<Charge!selection, lists, records, forms, requests, answers, entries, saves,
                     faults, overtaken>>
      /\ foreign' = foreign + 1
  BY DEF Charge!SaveElsewhere, Charge!store, Charge!network
<1>2. Charge!Version(id) \in Nat
  BY DEF Charge!Version, Charge!Charge, ChargeInv, Charge!TypeOK, Charge!Range
<1>3. c \in Charge!Charge
  BY <1>2 DEF ChargeAssumptions, Charge!ChargeAssumption, Charge!Charge,
     Charge!Date
<1>4. RowChecked(c)
  BY DEF RowChecked
<1> HIDE DEF c
<1>5. /\ DOMAIN charges' = DOMAIN charges \cup {id} /\ Charge!Range(charges') \subseteq Charge!Charge
      /\ charges'[id] = c
      /\ \A i \in DOMAIN charges : i # id => charges'[i] = charges[i]
  <2>1. /\ DOMAIN charges' = DOMAIN charges \cup {id} /\ charges'[id] = c
        /\ \A i \in DOMAIN charges : i # id => charges'[i] = charges[i]
    BY <1>1 DEF Charge!Put
  <2> QED BY <1>3, <2>1 DEF Charge!Range, ChargeInv, Charge!TypeOK
<1>6. Charge!SelectionTypeOK'
  BY <1>1, SelectionSame
<1>7. Charge!TypeOK'
  BY <1>1, <1>5, <1>6 DEF ChargeInv, Charge!TypeOK
<1>8. \A i \in DOMAIN charges' : RowChecked(charges'[i])
  BY <1>4, <1>5 DEF ChargeInv, ChargesChecked
<1>9. ChargesKnown' /\ ChargesChecked' /\ SavesCounted'
  BY <1>1, <1>5, <1>8 DEF ChargeInv, ChargesKnown, ChargesChecked,
     SavesCounted, FormChecked, RowChecked
<1> QED BY <1>7, <1>9 DEF ChargeInv

LEMMA ChargeStep ==
  ASSUME ChargeAssumptions, ChargeInv, [Charge!Next]_(Charge!vars)
  PROVE  ChargeInv'
<1>1. ASSUME NEW f \in Item, Charge!SelectFuel(f) PROVE ChargeInv'
  BY <1>1, SelectFuelKeeps
<1>2. ASSUME NEW x \in fetches, Charge!FetchEnds(x) PROVE ChargeInv'
  BY <1>2, FetchEndsKeeps
<1>3. CASE Charge!VisitPage
  BY <1>3, VisitPageKeeps
<1>4. CASE Charge!handleShowCharges
  BY <1>4, ShowChargesKeeps
<1>5. ASSUME NEW i \in Charge!Id, Charge!StartEdit(i) PROVE ChargeInv'
  BY <1>5, StartEditKeeps
<1>6. ASSUME NEW k \in DOMAIN forms, NEW d \in Charge!Date \cup {Charge!NoDate},
             Charge!EnterStart(k, d) \/ Charge!EnterEnd(k, d)
      PROVE  ChargeInv'
  BY <1>6, EnterKeeps
<1>7. ASSUME NEW k \in DOMAIN forms, Charge!handleCancelEdit(k) \/ Charge!handleSave(k) PROVE ChargeInv'
  BY <1>7, CancelKeeps, SaveKeeps
<1>8. ASSUME NEW r \in requests, Charge!Commit(r) PROVE ChargeInv'
  BY <1>8, CommitKeeps
<1>9. ASSUME NEW a \in answers, Charge!Receive(a) PROVE ChargeInv'
  BY <1>9, ReceiveKeeps
<1>10. CASE Charge!Lose
  BY <1>10, LoseKeeps
<1>11. ASSUME NEW id \in Charge!Id, NEW c \in Elsewhere, Charge!SaveElsewhere(id, c) PROVE ChargeInv'
  BY <1>11, SaveElsewhereKeeps
<1>12. CASE UNCHANGED Charge!vars
  <2>1. Charge!SelectionTypeOK'
    BY <1>12, SelectionSame DEF Charge!vars
  <2> QED BY <1>12, <2>1
          DEF Charge!vars, Charge!store, Charge!network, Charge!counters,
              ChargeInv, Charge!TypeOK, ChargesKnown, ChargesChecked,
              SavesCounted,
              FormChecked, RowChecked
<1>13. CASE Charge!Next
  BY <1>13, <1>1, <1>2, <1>3, <1>4, <1>5, <1>6, <1>7, <1>8, <1>9, <1>10, <1>11
     DEF Charge!Next
<1> QED BY <1>12, <1>13

(* A period that was compared with another one that it overlaps is around  *)
(* it; the form's two checks rule out everything else.                     *)
LEMMA OnlyAround ==
  ASSUME ChargeInv
  PROVE  Charge!OverlapHasACause
<1> SUFFICES ASSUME NEW i \in DOMAIN charges, NEW j \in DOMAIN charges,
                    [id |-> j, start |-> charges[j].start, end |-> charges[j].end]
                      \in charges[i].against,
                    Charge!Overlap(charges[i], charges[j])
             PROVE  Charge!Inside(charges[j], charges[i])
  BY DEF Charge!OverlapHasACause
<1> DEFINE d == [id |-> j, start |-> charges[j].start, end |-> charges[j].end]
<1>1. ~ Charge!Covers(d, charges[i].start) /\ ~ Charge!Covers(d, charges[i].end)
  BY DEF ChargeInv, ChargesChecked, RowChecked
<1>2. /\ charges[i].start \in Nat /\ charges[i].end \in Nat
      /\ charges[j].start \in Nat /\ charges[j].end \in Nat
  BY DEF ChargeInv, Charge!TypeOK, Charge!Range, Charge!Charge, Charge!Date
<1> QED BY <1>1, <1>2 DEF Charge!Covers, Charge!Overlap, Charge!Inside

-----------------------------------------------------------------------------
(* What the page shows of the rows that its user saved.  Every row is of   *)
(* one fuel for good, and the rows the page lists, edits and saves are in  *)
(* the list of their fuel.  What an answer or the store says of a row is   *)
(* an earlier version of it, or the row as it is.                          *)
Listed(i) ==
  /\ charges[i].fuel \in DOMAIN lists
  /\ i \in Charge!ToSet(lists[charges[i].fuel])

IsVersionOf(x, i) ==
  /\ x.version <= charges[i].version
  /\ x.version = charges[i].version => x.start = charges[i].start /\ x.end = charges[i].end

Expected(a) ==
  /\ a.fuel \in DOMAIN lists
  /\ IsVersionOf(a, a.id)
  /\ a.created => charges[a.id].fuel = a.fuel
  /\ ~ a.created => Listed(a.id)

(* A row that is not shown as it is has its answer on the way.             *)
ComesToList(i) == Listed(i) \/ \E a \in answers : a.id = i /\ a.created
ComesToStore(i) ==
  \/ i \in DOMAIN records /\ records[i].version = charges[i].version
  \/ \E a \in answers : a.id = i /\ a.version = charges[i].version

ChargesFollowed ==
  /\ \E n \in Nat : DOMAIN charges = 1 .. n
  /\ \A f \in DOMAIN lists : \A i \in Charge!ToSet(lists[f]) : charges[i].fuel = f
  /\ \A k \in DOMAIN forms : k # Charge!New => Listed(k)
  /\ \A r \in requests : r.fuel \in DOMAIN lists /\ (r.id # Charge!New => Listed(r.id))
  /\ \A a \in answers : Expected(a)
  /\ \A i \in DOMAIN records : IsVersionOf(records[i], i)
  /\ \A i \in DOMAIN charges :
       charges[i].mine /\ i \notin overtaken => ComesToList(i) /\ ComesToStore(i)

LEMMA ChargeTypes ==
  ASSUME ChargeInv
  PROVE  /\ \A i \in DOMAIN charges : charges[i] \in Charge!Charge /\ i \in Nat /\ i # Charge!New
         /\ \A i \in DOMAIN records : records[i] \in Charge!Record /\ i \in DOMAIN charges
         /\ \A r \in requests : r \in Charge!Request /\ r.id \in {Charge!New} \cup DOMAIN charges
         /\ \A a \in answers : a \in Charge!Answer /\ a.id \in DOMAIN charges
         /\ \A f \in DOMAIN lists : /\ lists[f] \in Seq(Charge!Id)
                                    /\ Charge!ToSet(lists[f]) \subseteq DOMAIN charges
         /\ DOMAIN forms \subseteq {Charge!New} \cup DOMAIN charges
  BY DEF ChargeInv, Charge!TypeOK, Charge!Range, ChargesKnown, Charge!Id,
     Charge!New

LEMMA ChargesStart ==
  ASSUME Charge!Init
  PROVE  ChargesFollowed
<1>1. DOMAIN charges = {} /\ DOMAIN lists = {} /\ DOMAIN records = {} /\ DOMAIN forms = {Charge!New}
      /\ requests = {} /\ answers = {}
  BY DEF Charge!Init, Charge!Fresh
<1>2. 1 .. 0 = {} /\ 0 \in Nat
  OBVIOUS
<1> QED BY <1>1, <1>2 DEF ChargesFollowed

(* Steps of which the rest of the page and of the network knows nothing.   *)
LEMMA FormsFollow ==
  ASSUME ChargesFollowed,
         UNCHANGED <<charges, lists, records, answers, overtaken>>,
         \A r \in requests' \ requests :
           r.fuel \in DOMAIN lists /\ (r.id # Charge!New => Listed(r.id)),
         \A k \in DOMAIN forms' \ DOMAIN forms : k # Charge!New => Listed(k)
  PROVE  ChargesFollowed'
<1>1. \A i : Listed(i)' <=> Listed(i)
  BY DEF Listed
<1>2. \A x, i : IsVersionOf(x, i)' <=> IsVersionOf(x, i)
  BY DEF IsVersionOf
<1>3. \A i : (ComesToList(i)' <=> ComesToList(i)) /\ (ComesToStore(i)' <=> ComesToStore(i))
  BY <1>1 DEF ComesToList, ComesToStore
<1>4. \A a : Expected(a)' <=> Expected(a)
  BY <1>1, <1>2 DEF Expected
<1> QED BY <1>1, <1>2, <1>3, <1>4 DEF ChargesFollowed

LEMMA FetchFollows ==
  ASSUME ChargeAssumptions, ChargeInv, ChargesFollowed, NEW x \in fetches, Charge!FetchEnds(x)
  PROVE  ChargesFollowed'
<1>1. UNCHANGED <<charges, requests, answers, overtaken>> /\ DOMAIN forms' \subseteq DOMAIN forms
  BY MountedForms DEF Charge!FetchEnds, Charge!network
<1>2. CASE UNCHANGED Charge!store
  BY <1>1, <1>2, FormsFollow DEF Charge!store
<1>3. CASE x.to.item \notin DOMAIN lists
  <2>1. PICK f : f = x.to.item
    OBVIOUS
  <2>2. PICK ids : ids = {i \in DOMAIN charges : charges[i].fuel = f}
    OBVIOUS
  <2>3. Charge!Fetched(f) /\ f \notin DOMAIN lists
    BY <1>3, <2>1 DEF Charge!FetchEnds
  <2>4. PICK list \in [1 .. Charge!Cardinality(ids) -> ids] : lists' = Charge!Put(lists, f, list)
    BY <2>2, <2>3 DEF Charge!Fetched
  <2>5. /\ DOMAIN records' = ids \cup DOMAIN records
        /\ \A i \in DOMAIN records' :
             records'[i] = IF i \in ids THEN Charge!RecordOf(charges[i]) ELSE records[i]
    BY <2>2, <2>3 DEF Charge!Fetched
  <2>6. Charge!ToSet(list) \subseteq ids
    BY <2>4 DEF Charge!ToSet
  <2>7. /\ DOMAIN lists' = DOMAIN lists \cup {f} /\ lists'[f] = list
        /\ \A g \in DOMAIN lists : lists'[g] = lists[g]
    BY <2>3, <2>4 DEF Charge!Put
  <2>8. \A i : Listed(i) => Listed(i)'
    BY <1>1, <2>7 DEF Listed
  <2>9. \A y, i : IsVersionOf(y, i)' <=> IsVersionOf(y, i)
    BY <1>1 DEF IsVersionOf
  <2>10. \A a : Expected(a) => Expected(a)'
    BY <1>1, <2>7, <2>8, <2>9 DEF Expected
  <2>11. \A i \in DOMAIN records' : IsVersionOf(records'[i], i)
    <3>1. \A i \in ids : IsVersionOf(Charge!RecordOf(charges[i]), i)
      BY <2>2, ChargeTypes DEF IsVersionOf, Charge!RecordOf, Charge!Charge
    <3> QED BY <2>5, <3>1 DEF ChargesFollowed
  <2>12. \A i : ComesToList(i) => ComesToList(i)'
    BY <1>1, <2>8 DEF ComesToList
  <2>13. \A i \in DOMAIN charges : ComesToStore(i) => ComesToStore(i)'
    <3>1. \A i \in ids : Charge!RecordOf(charges[i]).version = charges[i].version
      BY DEF Charge!RecordOf
    <3> QED BY <1>1, <2>5, <3>1 DEF ComesToStore
  <2>14. \A g \in DOMAIN lists' : \A i \in Charge!ToSet(lists'[g]) : charges[i].fuel = g
    BY <2>2, <2>6, <2>7 DEF ChargesFollowed
  <2> QED BY <1>1, <2>7, <2>8, <2>9, <2>10, <2>11, <2>12, <2>13, <2>14
             DEF ChargesFollowed
<1> QED BY <1>2, <1>3 DEF Charge!FetchEnds

LEMMA NextIdIsNew ==
  ASSUME ChargeInv, ChargesFollowed
  PROVE  /\ Charge!NextId \in Nat /\ Charge!NextId \notin DOMAIN charges
         /\ \A i \in DOMAIN charges \cup {Charge!NextId} :
              \E n \in Nat : DOMAIN charges \cup {i} = 1 .. n
<1>1. PICK n \in Nat : DOMAIN charges = 1 .. n
  BY DEF ChargesFollowed
<1>2. Cardinality(1 .. n) = n
  BY FS_Interval
<1>3. Charge!NextId = n + 1
  BY <1>1, <1>2 DEF Charge!NextId, Charge!Cardinality, Cardinality
<1>4. 1 .. n \cup {n + 1} = 1 .. n + 1 /\ n + 1 \notin 1 .. n /\ n + 1 \in Nat
  OBVIOUS
<1> QED BY <1>1, <1>3, <1>4

(* A row is saved: here, with an answer, or elsewhere.                     *)
LEMMA SavedFollows ==
  ASSUME ChargeInv, ChargesFollowed, NEW id \in DOMAIN charges \cup {Charge!NextId},
         NEW c, c \in Charge!Charge, c.version = Charge!Version(id),
         id \in DOMAIN charges => c.fuel = charges[id].fuel,
         charges' = Charge!Put(charges, id, c),
         UNCHANGED <<lists, records, forms, overtaken>>,
         requests' \subseteq requests, answers \subseteq answers',
         \A a \in answers' \ answers :
           /\ a.id = id /\ a.version = c.version /\ a.start = c.start /\ a.end = c.end
           /\ a.fuel \in DOMAIN lists /\ (a.created => c.fuel = a.fuel)
           /\ ~ a.created => id \in DOMAIN charges /\ Listed(id),
         c.mine => \E a \in answers' : a.id = id /\ a.version = c.version
                                     /\ (~ a.created => id \in DOMAIN charges /\ Listed(id))
  PROVE  ChargesFollowed'
<1>1. /\ DOMAIN charges' = DOMAIN charges \cup {id} /\ charges'[id] = c
      /\ \A i \in DOMAIN charges : i # id => charges'[i] = charges[i]
  BY DEF Charge!Put
<1>2. /\ \A i \in DOMAIN charges : charges'[i].fuel = charges[i].fuel
      /\ \A i \in DOMAIN charges : charges[i].version \in Nat
      /\ id \in DOMAIN charges => c.version = charges[id].version + 1
  BY <1>1, ChargeTypes DEF Charge!Charge, Charge!Version
<1>3. ASSUME NEW i \in DOMAIN charges
      PROVE  Listed(i)' <=> Listed(i)
  BY <1>1, <1>2 DEF Listed
<1>4. ASSUME NEW i \in DOMAIN charges, NEW x, x.version \in Nat, IsVersionOf(x, i)
      PROVE  /\ x.version <= charges'[i].version
             /\ x.version = charges'[i].version => x.start = charges'[i].start /\ x.end = charges'[i].end
  <2>1. CASE i # id
    BY <1>1, <1>4, <2>1 DEF IsVersionOf
  <2>2. CASE i = id
    BY <1>1, <1>2, <1>4, <2>2 DEF IsVersionOf
  <2> QED BY <2>1, <2>2
<1>5. \A i \in DOMAIN records' : IsVersionOf(records[i], i)'
  <2>1. ASSUME NEW i \in DOMAIN records
        PROVE  i \in DOMAIN charges /\ records[i].version \in Nat /\ IsVersionOf(records[i], i)
    BY ChargeTypes DEF ChargesFollowed, Charge!Record
  <2> QED BY <1>4, <2>1 DEF IsVersionOf
<1>6. \A a \in answers' : Expected(a)'
  <2>1. ASSUME NEW a \in answers
        PROVE  Expected(a)'
    <3>1. Expected(a) /\ a.id \in DOMAIN charges /\ a.version \in Nat
      BY ChargeTypes DEF ChargesFollowed, Charge!Answer
    <3>2. IsVersionOf(a, a.id)'
      BY <1>4, <3>1 DEF Expected, IsVersionOf
    <3> QED BY <1>2, <1>3, <3>1, <3>2 DEF Expected
  <2>2. ASSUME NEW a \in answers' \ answers
        PROVE  Expected(a)'
    <3>1. a.version <= c.version
      BY DEF Charge!Charge
    <3>2. IsVersionOf(a, a.id)'
      BY <1>1, <3>1 DEF IsVersionOf
    <3> QED BY <1>1, <1>3, <3>2 DEF Expected
  <2> QED BY <2>1, <2>2
<1>7. ASSUME NEW i \in DOMAIN charges', charges'[i].mine, i \notin overtaken
      PROVE  ComesToList(i)' /\ ComesToStore(i)'
  <2>1. CASE i = id
    <3>1. PICK a \in answers' : /\ a.id = id /\ a.version = c.version
                                /\ ~ a.created => id \in DOMAIN charges /\ Listed(id)
      BY <1>1, <1>7, <2>1
    <3> QED BY <1>1, <1>3, <2>1, <3>1 DEF ComesToList, ComesToStore
  <2>2. CASE i # id
    <3>1. i \in DOMAIN charges /\ charges'[i] = charges[i]
      BY <1>1, <2>2
    <3>2. ComesToList(i) /\ ComesToStore(i)
      BY <1>7, <3>1 DEF ChargesFollowed
    <3> QED BY <1>3, <3>1, <3>2 DEF ComesToList, ComesToStore
  <2> QED BY <2>1, <2>2
<1>8. \A f \in DOMAIN lists : \A i \in Charge!ToSet(lists[f]) : charges'[i].fuel = f
  BY <1>2, ChargeTypes DEF ChargesFollowed
<1>9. \A k \in DOMAIN forms : k # Charge!New => Listed(k)'
  BY <1>3, ChargeTypes DEF ChargesFollowed
<1>10. \A r \in requests' : r.fuel \in DOMAIN lists /\ (r.id # Charge!New => Listed(r.id)')
  BY <1>3, ChargeTypes DEF ChargesFollowed
<1>11. \E n \in Nat : DOMAIN charges' = 1 .. n
  BY <1>1, NextIdIsNew
<1> QED BY <1>5, <1>6, <1>7, <1>8, <1>9, <1>10, <1>11 DEF ChargesFollowed

LEMMA CommitsFollow ==
  ASSUME ChargeAssumptions, ChargeInv, ChargesFollowed, NEW r \in requests, Charge!Commit(r)
  PROVE  ChargesFollowed'
<1>1. PICK id : id = IF r.id = Charge!New THEN Charge!NextId ELSE r.id
  OBVIOUS
<1>2. PICK c : c = [fuel |-> IF r.id = Charge!New THEN r.fuel ELSE charges[id].fuel,
                    start |-> r.start, end |-> r.end,
                    version |-> Charge!Version(id),
                    mine |-> TRUE, against |-> r.against]
  OBVIOUS
<1>3. PICK a : a = [created |-> r.id = Charge!New, id |-> id, fuel |-> r.fuel,
                    start |-> r.start, end |-> r.end,
                    version |-> Charge!Version(id)]
  OBVIOUS
<1>4. /\ charges' = Charge!Put(charges, id, c)
      /\ requests' = requests \ {r} /\ answers' = answers \cup {a}
      /\ UNCHANGED <<lists, records, forms, overtaken>> /\ id \in Charge!Id
  BY <1>1, <1>2, <1>3 DEF Charge!Commit, Charge!store
<1>5. /\ r \in Charge!Request /\ r.id \in {Charge!New} \cup DOMAIN charges
      /\ r.fuel \in DOMAIN lists /\ (r.id # Charge!New => Listed(r.id))
  BY ChargeTypes DEF ChargesFollowed
<1>6. /\ id \in DOMAIN charges \cup {Charge!NextId}
      /\ r.id = Charge!New => id \notin DOMAIN charges
      /\ r.id # Charge!New => id \in DOMAIN charges /\ id = r.id
  BY <1>1, <1>5, NextIdIsNew
<1>7. Charge!Version(id) \in Nat
  BY ChargeTypes DEF Charge!Version, Charge!Charge
<1>8. c.fuel \in Item
  BY <1>2, <1>5, <1>6, ChargeTypes DEF Charge!Charge, Charge!Request
<1>9. c \in Charge!Charge
  BY <1>2, <1>5, <1>7, <1>8 DEF Charge!Charge, Charge!Request
<1>10. /\ c.version = Charge!Version(id) /\ c.start = r.start /\ c.end = r.end
       /\ c.fuel = IF r.id = Charge!New THEN r.fuel ELSE charges[id].fuel
  BY <1>2
<1>11. /\ a.version = Charge!Version(id) /\ a.start = r.start /\ a.end = r.end
       /\ a.id = id /\ a.fuel = r.fuel /\ a.created = (r.id = Charge!New)
  BY <1>3
<1>12. /\ a.created => r.id = Charge!New
       /\ ~ a.created => r.id # Charge!New
  BY <1>11, Zenon
<1> QED BY <1>4, <1>5, <1>6, <1>9, <1>10, <1>11, <1>12, SavedFollows

LEMMA ElsewhereFollows ==
  ASSUME ChargeAssumptions, ChargeInv, ChargesFollowed, NEW id \in Charge!Id,
         NEW x \in Elsewhere, Charge!SaveElsewhere(id, x)
  PROVE  ChargesFollowed'
<1>1. PICK c : c = [fuel |-> x.fuel, start |-> x.start, end |-> x.end,
                    version |-> Charge!Version(id), mine |-> FALSE,
                    against |-> {}]
  OBVIOUS
<1>2. /\ charges' = Charge!Put(charges, id, c)
      /\ id \in DOMAIN charges \cup {Charge!NextId}
      /\ id \in DOMAIN charges => charges[id].fuel = x.fuel
      /\ UNCHANGED <<lists, records, forms, overtaken, requests, answers>>
  BY <1>1 DEF Charge!SaveElsewhere, Charge!store, Charge!network
<1>3. Charge!Version(id) \in Nat
  BY ChargeTypes DEF Charge!Version, Charge!Charge
<1>4. x \in [fuel : Item, start : Charge!Date, end : Charge!Date]
  BY DEF ChargeAssumptions, Charge!ChargeAssumption, Charge!Date
<1>5. c \in Charge!Charge /\ c.version = Charge!Version(id) /\ c.fuel = x.fuel /\ ~ c.mine
  BY <1>1, <1>3, <1>4 DEF Charge!Charge
<1> QED BY <1>2, <1>5, SavedFollows

LEMMA ReceiveFollows ==
  ASSUME ChargeInv, ChargesFollowed, NEW a \in answers, Charge!Receive(a)
  PROVE  ChargesFollowed'
<1>1. /\ a \in Charge!Answer /\ a.id \in DOMAIN charges /\ Expected(a)
  BY ChargeTypes DEF ChargesFollowed
<1>2. /\ UNCHANGED <<charges, requests>> /\ answers' = answers \ {a}
      /\ records' = Charge!Put(records, a.id, Charge!RecordOf(a))
      /\ lists' = IF a.created /\ a.id \notin Charge!ToSet(lists[a.fuel])
                    THEN [lists EXCEPT ![a.fuel] = Append(@, a.id)] ELSE lists
      /\ overtaken' = IF a.id \in DOMAIN records /\ a.version < records[a.id].version
                        THEN overtaken \cup {a.id} ELSE overtaken
  BY DEF Charge!Receive, Charge!connection
<1>3. DOMAIN forms' \subseteq DOMAIN forms
  <2>1. PICK fs : DOMAIN fs = DOMAIN forms /\ forms' = Charge!Mounted(fs, url, lists')
    BY DEF Charge!Receive
  <2> QED BY <2>1, MountedForms
<1>4. /\ DOMAIN records' = DOMAIN records \cup {a.id}
      /\ records'[a.id] = Charge!RecordOf(a)
      /\ \A i \in DOMAIN records : i # a.id => records'[i] = records[i]
  BY <1>2 DEF Charge!Put
<1>5. /\ Charge!RecordOf(a).version = a.version
      /\ Charge!RecordOf(a).start = a.start /\ Charge!RecordOf(a).end = a.end
  BY DEF Charge!RecordOf
<1>6. /\ DOMAIN lists' = DOMAIN lists
      /\ \A f \in DOMAIN lists :
           Charge!ToSet(lists'[f]) = Charge!ToSet(lists[f]) \cup
             (IF a.created /\ f = a.fuel THEN {a.id} ELSE {})
  <2>1. DOMAIN lists' = DOMAIN lists
    BY <1>2
  <2>2. ASSUME NEW f \in DOMAIN lists
        PROVE  Charge!ToSet(lists'[f]) = Charge!ToSet(lists[f]) \cup
                 (IF a.created /\ f = a.fuel THEN {a.id} ELSE {})
    <3>1. lists[f] \in Seq(Charge!Id)
      BY ChargeTypes
    <3>2. CASE a.created /\ f = a.fuel /\ a.id \notin Charge!ToSet(lists[f])
      <4>1. lists'[f] = Append(lists[f], a.id)
        BY <1>2, <3>2
      <4>2. Charge!ToSet(Append(lists[f],
      a.id)) = Charge!ToSet(lists[f]) \cup {a.id}
        BY <3>1 DEF Charge!ToSet
      <4> QED BY <3>2, <4>1, <4>2
    <3>3. CASE ~ (a.created /\ f = a.fuel /\ a.id \notin Charge!ToSet(lists[f]))
      <4>1. lists'[f] = lists[f]
        BY <1>2, <3>3
      <4> QED BY <3>3, <4>1
    <3> QED BY <3>2, <3>3
  <2> QED BY <2>1, <2>2
<1>7. \A i : Listed(i) => Listed(i)'
  BY <1>2, <1>6 DEF Listed
<1>8. \A x, i : IsVersionOf(x, i)' <=> IsVersionOf(x, i)
  BY <1>2 DEF IsVersionOf
<1>9. \A b : Expected(b) => Expected(b)'
  BY <1>2, <1>6, <1>7, <1>8 DEF Expected
<1>10. a.created => Listed(a.id)'
  BY <1>1, <1>2, <1>6 DEF Expected, Listed
<1>11. \A i \in DOMAIN records' : IsVersionOf(records'[i], i)
  <2>1. IsVersionOf(Charge!RecordOf(a), a.id)
    BY <1>1, <1>5 DEF Expected, IsVersionOf
  <2> QED BY <1>4, <2>1 DEF ChargesFollowed
<1>12. ASSUME NEW i \in DOMAIN charges, charges[i].mine, i \notin overtaken'
       PROVE  ComesToList(i)' /\ ComesToStore(i)'
  <2>1. ComesToList(i) /\ ComesToStore(i)
    BY <1>2, <1>12 DEF ChargesFollowed
  <2>2. ComesToList(i)'
    BY <1>2, <1>7, <1>10, <2>1 DEF ComesToList
  <2>3. CASE i # a.id
    BY <1>2, <1>4, <2>1, <2>2, <2>3 DEF ComesToStore
  <2>4. CASE i = a.id /\ a.version = charges[i].version
    BY <1>2, <1>4, <1>5, <2>2, <2>4 DEF ComesToStore
  <2>5. CASE i = a.id /\ a.version # charges[i].version
    <3>1. a.version < charges[i].version /\ charges[i].version \in Nat
      BY <1>1, <2>5, ChargeTypes DEF Expected, IsVersionOf, Charge!Answer,
         Charge!Charge
    <3>2. ~ (i \in DOMAIN records /\ records[i].version = charges[i].version)
      BY <1>2, <1>12, <2>5, <3>1
    <3>3. PICK b \in answers : b.id = i /\ b.version = charges[i].version
      BY <2>1, <3>2 DEF ComesToStore
    <3> QED BY <1>2, <2>2, <2>5, <3>3 DEF ComesToStore
  <2> QED BY <2>2, <2>3, <2>4, <2>5
<1>13. \A f \in DOMAIN lists' : \A i \in Charge!ToSet(lists'[f]) : charges[i].fuel = f
  BY <1>1, <1>6 DEF ChargesFollowed, Expected
<1> QED BY <1>2, <1>3, <1>4, <1>6, <1>7, <1>8, <1>9, <1>11, <1>12, <1>13
           DEF ChargesFollowed

LEMMA LossFollows ==
  ASSUME ChargesFollowed, Charge!Lose
  PROVE  ChargesFollowed'
<1>1. /\ UNCHANGED <<charges, lists, records, forms>>
      /\ \/ requests' \subseteq requests /\ UNCHANGED <<answers, overtaken>>
         \/ \E a \in answers : /\ answers' = answers \ {a} /\ requests' = requests
                               /\ overtaken' = overtaken \cup {a.id}
  BY DEF Charge!Lose, Charge!store
<1>2. \A i : Listed(i)' <=> Listed(i)
  BY <1>1 DEF Listed
<1>3. \A x, i : IsVersionOf(x, i)' <=> IsVersionOf(x, i)
  BY <1>1 DEF IsVersionOf
<1>4. \A b : Expected(b)' <=> Expected(b)
  BY <1>1, <1>2, <1>3 DEF Expected
<1>5. \A i \in DOMAIN charges : i \notin overtaken' =>
         i \notin overtaken /\ (ComesToList(i) => ComesToList(i)')
         /\ (ComesToStore(i) => ComesToStore(i)')
  BY <1>1, <1>2 DEF ComesToList, ComesToStore
<1> QED BY <1>1, <1>2, <1>3, <1>4, <1>5 DEF ChargesFollowed

LEMMA ChargesGoOn ==
  ASSUME ChargeAssumptions, ChargeInv, ChargesFollowed, [Charge!Next]_(Charge!vars)
  PROVE  ChargesFollowed'
<1>1. CASE \/ \E f \in Item : Charge!SelectFuel(f)
           \/ Charge!VisitPage \/ Charge!handleShowCharges
           \/ \E k \in DOMAIN forms : Charge!handleCancelEdit(k)
           \/ \E k \in DOMAIN forms, d \in Charge!Date \cup {Charge!NoDate} :
                Charge!EnterStart(k, d) \/ Charge!EnterEnd(k, d)
           \/ UNCHANGED Charge!vars
  <2>1. UNCHANGED <<charges, lists, records, requests, answers, overtaken>>
    BY <1>1 DEF Charge!SelectFuel, Charge!VisitPage, Charge!handleShowCharges,
       Charge!handleCancelEdit, Charge!EnterStart, Charge!EnterEnd,
       Charge!Entry,
       Charge!PageOnly, Charge!store, Charge!network, Charge!vars
  <2>2. DOMAIN forms' \subseteq DOMAIN forms \cup {Charge!New}
    BY <1>1, MountedForms, ClosedForms DEF Charge!SelectFuel, Charge!VisitPage,
       Charge!Fresh,
       Charge!handleShowCharges, Charge!handleCancelEdit, Charge!EnterStart,
       Charge!EnterEnd,
       Charge!vars
  <2> QED BY <2>1, <2>2, FormsFollow
<1>2. ASSUME NEW x \in fetches, Charge!FetchEnds(x) PROVE ChargesFollowed'
  BY <1>2, FetchFollows
<1>3. ASSUME NEW i \in Charge!Id, Charge!StartEdit(i) PROVE ChargesFollowed'
  <2>1. /\ i \in Charge!ToSet(lists[url.item]) /\ url.item \in DOMAIN lists
        /\ DOMAIN forms' = DOMAIN forms \cup {i}
    BY <1>3, ShownIsListed DEF Charge!StartEdit, Charge!Ready, Charge!Put,
       ChargeInv
  <2>2. Listed(i)
    BY <2>1 DEF ChargesFollowed, Listed
  <2> QED BY <1>3, <2>1, <2>2, FormsFollow
          DEF Charge!StartEdit, Charge!PageOnly, Charge!store, Charge!network
<1>4. ASSUME NEW k \in DOMAIN forms, Charge!handleSave(k) PROVE ChargesFollowed'
  <2>1. PICK r : /\ requests' = requests \cup {r}
                 /\ r = [id |-> k, fuel |-> url.item, start |-> forms[k].start,
                         end |-> forms[k].end, no |-> saves + 1,
                         against |-> forms[k].seenStart \cap forms[k].seenEnd]
    BY <1>4 DEF Charge!handleSave
  <2>2. r.fuel \in DOMAIN lists /\ r.id = k
    BY <1>4, <2>1 DEF Charge!handleSave, Charge!Ready
  <2>3. DOMAIN forms' \subseteq DOMAIN forms
    BY <1>4, ClosedForms DEF Charge!handleSave
  <2>4. r.id # Charge!New => Listed(r.id)
    BY <2>2 DEF ChargesFollowed
  <2>5. UNCHANGED <<charges, lists, records, answers, overtaken>>
    BY <1>4 DEF Charge!handleSave, Charge!store
  <2> QED BY <2>1, <2>2, <2>3, <2>4, <2>5, FormsFollow
<1>5. ASSUME NEW r \in requests, Charge!Commit(r) PROVE ChargesFollowed'
  BY <1>5, CommitsFollow
<1>6. ASSUME NEW a \in answers, Charge!Receive(a) PROVE ChargesFollowed'
  BY <1>6, ReceiveFollows
<1>7. CASE Charge!Lose
  BY <1>7, LossFollows
<1>8. ASSUME NEW id \in Charge!Id, NEW c \in Elsewhere, Charge!SaveElsewhere(id, c)
      PROVE  ChargesFollowed'
  BY <1>8, ElsewhereFollows
<1> QED BY <1>1, <1>2, <1>3, <1>4, <1>5, <1>6, <1>7, <1>8 DEF Charge!Next

(* A page of which nothing is in flight shows what its user saved.         *)
LEMMA SettledChargesRight ==
  ASSUME ChargeInv, ChargesFollowed
  PROVE  Charge!SettledChargesAreRight
<1>1. \A f \in DOMAIN lists : \A i \in Charge!ToSet(lists[f]) : charges[i].fuel = f
  BY DEF ChargesFollowed
<1>2. ASSUME answers = {}, NEW i \in DOMAIN charges, charges[i].mine, i \notin overtaken
      PROVE  Listed(i) /\ records[i] = Charge!RecordOf(charges[i])
  <2>1. Listed(i) /\ i \in DOMAIN records /\ records[i].version = charges[i].version
    BY <1>2 DEF ChargesFollowed, ComesToList, ComesToStore
  <2>2. records[i].start = charges[i].start /\ records[i].end = charges[i].end
    BY <2>1 DEF ChargesFollowed, IsVersionOf
  <2>3. records[i] \in Charge!Record
    BY <2>1, ChargeTypes
  <2> QED BY <2>1, <2>2, <2>3 DEF Charge!Record, Charge!RecordOf
<1> QED BY <1>1, <1>2 DEF Charge!SettledChargesAreRight, Listed

-----------------------------------------------------------------------------
(* The page of the fuel mappings.  H is the history of the table: H[s] is  *)
(* what it was after s commits.  What the queries, the cache and the       *)
(* answers to saves say is the table as it was at some commit, and the     *)
(* answer to each commit later than fresh is still on its way.             *)
MapAssumptions == Map!SelectionAssumption /\ Map!MappingAssumption

Tells(c, H) ==
  /\ c.stamp \in 0 .. stamp
  /\ c.unmapped = Map!unmapped_fuel(H[c.stamp])
  /\ c.lists = Map!MappedTo(H[c.stamp])

SaveAnswers == {b \in answers : b.to.kind # "query"}

Given(q) == IF q.kind = "remove" THEN None ELSE q.detail

SaveTells(b, H) ==
  /\ b.stamp \in 1 .. stamp
  /\ b.unmapped = Map!unmapped_fuel(H[b.stamp])
  /\ \A t \in FuelType :
       H[b.stamp][t] = IF t = b.to.type THEN Given(b.to) ELSE H[b.stamp - 1][t]
  /\ b.to.kind = "create" => \A s \in 0 .. b.stamp - 1 : H[s][b.to.type] = NoRow

Told(H) ==
  /\ fresh \in 0 .. stamp
  /\ H[stamp] = mapping
  /\ \A s \in 0 .. stamp, t \in FuelType : mapping[t] = NoRow => H[s][t] = NoRow
  /\ \A c \in cache : Tells(c, H)
  /\ \A a \in answers : a.to.kind = "query" => Tells(a, H)
  /\ \A b \in SaveAnswers : SaveTells(b, H)
  /\ \A s \in fresh + 1 .. stamp : \E b \in SaveAnswers : b.stamp = s
  /\ \A s \in fresh .. stamp, t \in FuelType :
       (\A b \in SaveAnswers : b.to.type = t => b.stamp <= s) => H[s][t] = mapping[t]

(* As long as no answer came late, the store is the table as it was at     *)
(* fresh, and what was asked of a type since finds it as the page showed   *)
(* it, or without a fuel.                                                  *)
InTurn == ~ doubt /\ \A b \in SaveAnswers : fresh <= b.stamp

Orderly(H) ==
  /\ unmapped = Map!unmapped_fuel(H[fresh])
  /\ lists = Map!MappedTo(H[fresh])
  /\ \A r, s \in fresh .. stamp, t \in FuelType :
       r <= s /\ H[r][t] \in Item => H[s][t] \in {H[r][t], None}
  /\ \A q \in requests : q.kind = "update" =>
       /\ \A s \in fresh .. stamp : H[s][q.type] = None
       /\ \A o \in requests \ {q} : o.kind \in {"update", "remove"} => o.type # q.type
  /\ \A q \in requests : q.kind = "remove" =>
       \A s \in fresh .. stamp : H[s][q.type] \in {q.detail, None}
  /\ \A b \in SaveAnswers : b.to.kind = "remove" =>
       \A s \in fresh .. b.stamp - 1 : H[s][b.to.type] \in {b.to.detail, None}

Followed(H) == Told(H) /\ (InTurn => Orderly(H))
MapTypes == Map!TypeOK /\ SavesCounted
MapInv == MapTypes /\ \E H \in [Nat -> Map!Mapping] : Followed(H)

-----------------------------------------------------------------------------
LEMMA MapRequest ==
  ASSUME Map!TypeOK, NEW q \in requests
  PROVE  /\ q.kind \in {"create", "update", "remove", "query"}
         /\ q.kind # "query" => q \in Map!Save /\ q.type \in FuelType /\ q.detail \in Item
         /\ q.kind = "query" => q \in Map!Query
  BY DEF Map!TypeOK, Map!Save, Map!Query

LEMMA MapSaveAnswer ==
  ASSUME Map!TypeOK, NEW b \in SaveAnswers
  PROVE  /\ b \in answers /\ b \in Map!SaveAnswer /\ b.to \in Map!Save
         /\ b.to.kind \in {"create", "update", "remove"}
         /\ b.to.type \in FuelType /\ b.to.detail \in Item
         /\ b.stamp \in Nat /\ b.unmapped \in Map!Unmapped
<1>1. b \in answers /\ b.to.kind # "query"
  BY DEF SaveAnswers
<1>2. b \in Map!SaveAnswer
  BY <1>1 DEF Map!TypeOK, Map!SaveAnswer, Map!QueryAnswer, Map!Query
<1> QED BY <1>1, <1>2 DEF Map!SaveAnswer, Map!Save

LEMMA MapQueryAnswer ==
  ASSUME Map!TypeOK, NEW a \in answers, a.to.kind = "query"
  PROVE  /\ a \in Map!QueryAnswer /\ a.to \in Map!Query
         /\ a.stamp \in Nat /\ a.unmapped \in Map!Unmapped /\ a.lists \in Map!Lists
<1>1. a \in Map!QueryAnswer
  BY DEF Map!TypeOK, Map!SaveAnswer, Map!QueryAnswer, Map!Save
<1> QED BY <1>1 DEF Map!QueryAnswer

LEMMA MapTables ==
  ASSUME NEW m \in Map!Mapping
  PROVE  /\ Map!unmapped_fuel(m) \in Map!Unmapped
         /\ Map!MappedTo(m) \in Map!Lists
<1>1. Map!unmapped_fuel(m) \in Map!Unmapped
  <2>1. ASSUME NEW t \in FuelType
        PROVE  [type |-> t, row |-> m[t] = None] \in [type : FuelType, row : BOOLEAN]
    <3>1. (m[t] = None) \in BOOLEAN
      OBVIOUS
    <3>2. \A v \in BOOLEAN : [type |-> t, row |-> v] \in [type : FuelType,
    row : BOOLEAN]
      OBVIOUS
    <3> QED BY <3>1, <3>2, Zenon
  <2> QED BY <2>1, Zenon DEF Map!unmapped_fuel, Map!Unmapped
<1>2. Map!MappedTo(m) \in Map!Lists
  BY DEF Map!MappedTo, Map!Lists
<1> QED BY <1>1, <1>2

LEMMA MapValues ==
  ASSUME NEW H \in [Nat -> Map!Mapping], NEW s \in Nat, NEW t \in FuelType
  PROVE  H[s][t] \in Item \cup {None, NoRow} /\ H[s] \in Map!Mapping
  BY DEF Map!Mapping

LEMMA MapNumbers ==
  ASSUME MapTypes, NEW H, Told(H)
  PROVE  /\ stamp \in Nat /\ fresh \in Nat /\ fresh <= stamp
         /\ \A s \in fresh .. stamp : s \in Nat /\ s \in 0 .. stamp
  BY DEF MapTypes, Map!TypeOK, Told

(* A step that commits nothing and changes no list, and adds no save.      *)
LEMMA QuietStep ==
  ASSUME NEW H, Followed(H),
         UNCHANGED <<mapping, stamp, unmapped, lists, fresh, doubt>>,
         \A q \in requests' : q.kind # "query" => q \in requests,
         SaveAnswers' = SaveAnswers,
         \A a \in answers' : a.to.kind = "query" => Tells(a, H),
         \A c \in cache' : Tells(c, H)
  PROVE  Followed(H)'
<1>1. \A c : Tells(c, H)' <=> Tells(c, H)
  BY DEF Tells
<1>2. \A b : SaveTells(b, H)' <=> SaveTells(b, H)
  BY DEF SaveTells
<1>3. Told(H)'
  BY <1>1, <1>2 DEF Followed, Told
<1>4. InTurn' => Orderly(H)'
  BY DEF Followed, InTurn, Orderly
<1> QED BY <1>3, <1>4 DEF Followed

(* A commit: the history goes on by the table it leaves.                   *)
LEMMA CommitFollows ==
  ASSUME MapAssumptions, MapTypes, NEW H \in [Nat -> Map!Mapping], Followed(H),
         NEW r \in requests, Map!Commit(r), ~ Map!Refused(r)
  PROVE  mapping' \in Map!Mapping /\ \E G \in [Nat -> Map!Mapping] : Followed(G)'
<1>0. /\ r \in Map!Save /\ r.kind \in {"create", "update", "remove"}
      /\ r.type \in FuelType /\ r.detail \in Item
      /\ Map!TypeOK /\ mapping \in Map!Mapping
  BY MapRequest DEF Map!Commit, MapTypes, Map!TypeOK
<1>1. PICK n : n = stamp + 1
  OBVIOUS
<1>2. PICK m : m = mapping'
  OBVIOUS
<1> DEFINE b == [to |-> r, stamp |-> n, unmapped |-> Map!unmapped_fuel(m)]
           G == [H EXCEPT ![n] = m]
<1>3. /\ stamp \in Nat /\ fresh \in Nat /\ fresh <= stamp /\ n \in Nat
      /\ \A s : s \in 0 .. n <=> s \in 0 .. stamp \/ s = n
      /\ \A s : s \in fresh .. n <=> s \in fresh .. stamp \/ s = n
      /\ \A s \in fresh .. stamp : s \in 0 .. stamp /\ s \in Nat
      /\ \A s \in 0 .. stamp : s # n /\ s \in Nat
  BY <1>1, MapNumbers DEF Followed
<1>4. /\ stamp' = n /\ requests' = requests \ {r} /\ answers' = answers \cup {b}
      /\ m = [mapping EXCEPT ![r.type] = Given(r)]
      /\ UNCHANGED <<unmapped, lists, fresh, doubt, cache>>
  BY <1>1, <1>2 DEF Map!Commit, Map!store, Map!history, Given
<1>5. /\ m[r.type] = Given(r) /\ \A t \in FuelType \ {r.type} : m[t] = mapping[t]
      /\ m \in Map!Mapping
  BY <1>0, <1>4 DEF Map!Mapping, Given
<1>6. G \in [Nat -> Map!Mapping] /\ G[n] = m /\ \A s \in 0 .. stamp : G[s] = H[s]
  BY <1>3, <1>5
<1>7. /\ SaveAnswers' = SaveAnswers \cup {b} /\ b.to = r /\ b.stamp = n
      /\ b.unmapped = Map!unmapped_fuel(m)
  BY <1>0, <1>4 DEF SaveAnswers
<1> HIDE DEF G, b
<1>8. Told(H) /\ (InTurn => Orderly(H)) /\ H[stamp] = mapping
  BY DEF Followed, Told
<1>9. \A c : Tells(c, H) => Tells(c, G)'
  BY <1>3, <1>4, <1>6 DEF Tells
<1>10. ASSUME NEW a \in SaveAnswers PROVE SaveTells(a, G)' /\ a.stamp \in 1 .. stamp
  <2>1. SaveTells(a, H)
    BY <1>8 DEF Told
  <2>2. a.stamp \in 0 .. stamp /\ a.stamp - 1 \in 0 .. stamp
        /\ \A s \in 0 .. a.stamp - 1 : s \in 0 .. stamp
    BY <1>3, <2>1 DEF SaveTells
  <2>3. a.stamp \in 1 .. n
    BY <1>1, <1>3, <2>1 DEF SaveTells
  <2> QED BY <1>4, <1>6, <2>1, <2>2, <2>3 DEF SaveTells
<1>11. SaveTells(b, G)'
  <2>1. n \in 1 .. n /\ n - 1 = stamp /\ stamp \in 0 .. stamp
    BY <1>1, <1>3
  <2>2. r.kind = "create" => mapping[r.type] = NoRow
    BY DEF Map!Refused
  <2>3. r.kind = "create" => \A s \in 0 .. stamp : G[s][r.type] = NoRow
    BY <1>0, <1>6, <1>8, <2>2 DEF Told
  <2>4. \A t \in FuelType : G[n][t] = IF t = r.type THEN Given(r) ELSE G[n - 1][t]
    BY <1>5, <1>6, <1>8, <2>1
  <2> QED BY <1>4, <1>6, <1>7, <2>1, <2>3, <2>4 DEF SaveTells
<1>12. Told(G)'
  <2>1. fresh' \in 0 .. stamp'
    BY <1>3, <1>4
  <2>2. \A s \in 0 .. n, t \in FuelType : m[t] = NoRow => G[s][t] = NoRow
    <3>1. ASSUME NEW s \in 0 .. stamp, NEW t \in FuelType, m[t] = NoRow
          PROVE  G[s][t] = NoRow
      <4>1. mapping[t] = NoRow
        BY <1>0, <1>5, <3>1 DEF Given, MapAssumptions, Map!MappingAssumption
      <4> QED BY <1>6, <1>8, <4>1 DEF Told
    <3> QED BY <1>3, <1>6, <3>1
  <2>3. \A s \in fresh + 1 .. n : \E a \in SaveAnswers' : a.stamp = s
    <3>1. \A s \in fresh + 1 .. n : s \in fresh + 1 .. stamp \/ s = n
      BY <1>1, <1>3
    <3> QED BY <1>7, <1>8, <3>1 DEF Told
  <2>4. ASSUME NEW s \in fresh .. n, NEW t \in FuelType,
               \A a \in SaveAnswers' : a.to.type = t => a.stamp <= s
        PROVE  G[s][t] = m[t]
    <3>1. CASE s = n
      BY <1>6, <3>1
    <3>2. CASE s # n
      <4>1. s \in fresh .. stamp /\ s \in Nat /\ s \in 0 .. stamp /\ ~ (n <= s)
        BY <1>1, <1>3, <3>2
      <4>2. t # r.type
        BY <1>7, <2>4, <4>1
      <4>3. H[s][t] = mapping[t]
        BY <1>7, <1>8, <2>4, <4>1 DEF Told
      <4> QED BY <1>5, <1>6, <4>1, <4>2, <4>3
    <3> QED BY <3>1, <3>2
  <2>5. \A a \in answers' : a.to.kind = "query" => Tells(a, G)'
    BY <1>0, <1>4, <1>7, <1>8, <1>9 DEF Told
  <2>6. \A c \in cache' : Tells(c, G)'
    BY <1>4, <1>8, <1>9 DEF Told
  <2> QED BY <1>2, <1>4, <1>6, <1>7, <1>10, <1>11, <2>1, <2>2, <2>3, <2>4,
             <2>5, <2>6
          DEF Told
<1>13. ASSUME InTurn' PROVE Orderly(G)'
  <2>1. InTurn /\ Orderly(H)
    BY <1>4, <1>7, <1>8, <1>13 DEF InTurn
  <2>2. fresh \in fresh .. stamp /\ stamp \in fresh .. stamp /\ fresh \in 0 .. stamp
    BY <1>3
  <2>3. /\ r.kind = "create" => \A s \in 0 .. stamp : H[s][r.type] = NoRow
        /\ r.kind = "update" => \A s \in fresh .. stamp : H[s][r.type] = None
        /\ r.kind = "remove" => \A s \in fresh .. stamp : H[s][r.type] \in {r.detail, None}
    BY <1>0, <1>8, <2>1 DEF Told, Orderly, Map!Refused
  <2>4. unmapped' = Map!unmapped_fuel(G[fresh']) /\ lists' = Map!MappedTo(G[fresh'])
    BY <1>4, <1>6, <2>1, <2>2 DEF Orderly
  <2>5. ASSUME NEW p \in fresh .. n, NEW s \in fresh .. n, NEW t \in FuelType,
               p <= s, G[p][t] \in Item
        PROVE  G[s][t] \in {G[p][t], None}
    <3>1. CASE p = n
      <4>1. s = n
        BY <1>1, <1>3, <2>5, <3>1
      <4> QED BY <3>1, <4>1
    <3>2. CASE p # n /\ s # n
      <4>1. p \in fresh .. stamp /\ s \in fresh .. stamp
        BY <1>3, <3>2
      <4> QED BY <1>3, <1>6, <2>1, <2>5, <4>1 DEF Orderly
    <3>3. CASE p # n /\ s = n
      <4>1. p \in fresh .. stamp /\ p \in 0 .. stamp /\ p <= stamp
        <5>1. p \in fresh .. stamp
          BY <1>3, <3>3
        <5> QED BY <1>3, <5>1
      <4>2. H[p][t] \in Item /\ H[p][t] = G[p][t]
        BY <1>6, <2>5, <4>1
      <4>3. CASE t # r.type
        <5>1. H[stamp][t] \in {H[p][t], None}
          BY <2>1, <2>2, <4>1, <4>2 DEF Orderly
        <5> QED BY <1>5, <1>6, <1>8, <3>3, <4>2, <4>3, <5>1
      <4>4. CASE t = r.type
        <5>1. r.kind = "remove"
          BY <1>0, <2>3, <4>1, <4>2, <4>4 DEF MapAssumptions,
             Map!MappingAssumption,
             Map!SelectionAssumption
        <5> QED BY <1>5, <1>6, <3>3, <4>4, <5>1 DEF Given
      <4> QED BY <4>3, <4>4
    <3> QED BY <3>1, <3>2, <3>3
  <2>6. ASSUME NEW q \in requests', q.kind = "update"
        PROVE  /\ \A s \in fresh .. n : G[s][q.type] = None
               /\ \A o \in requests' \ {q} :
                    o.kind \in {"update", "remove"} => o.type # q.type
    <3>1. q \in requests /\ q # r /\ q.type \in FuelType
      BY <1>0, <1>4, <2>6, MapRequest
    <3>2. /\ \A s \in fresh .. stamp : H[s][q.type] = None
          /\ \A o \in requests \ {q} : o.kind \in {"update", "remove"} => o.type # q.type
      BY <2>1, <2>6, <3>1 DEF Orderly
    <3>3. mapping[q.type] = None
      BY <1>8, <2>2, <3>2
    <3>4. q.type # r.type
      BY <1>0, <3>1, <3>2, <3>3 DEF Map!Refused, MapAssumptions,
         Map!MappingAssumption
    <3>5. G[n][q.type] = None
      BY <1>5, <1>6, <3>1, <3>3, <3>4
    <3> QED BY <1>3, <1>4, <1>6, <3>2, <3>5
  <2>7. ASSUME NEW q \in requests', q.kind = "remove", NEW s \in fresh .. n
        PROVE  G[s][q.type] \in {q.detail, None}
    <3>1. q \in requests /\ q # r /\ q.type \in FuelType /\ q.detail \in Item
      BY <1>0, <1>4, <2>7, MapRequest
    <3>2. \A p \in fresh .. stamp : H[p][q.type] \in {q.detail, None}
      BY <2>1, <2>7, <3>1 DEF Orderly
    <3>3. CASE s # n
      BY <1>3, <1>6, <3>2, <3>3
    <3>4. CASE s = n
      <4>1. mapping[q.type] \in {q.detail, None}
        BY <1>8, <2>2, <3>2
      <4>2. CASE q.type # r.type
        BY <1>5, <1>6, <3>1, <3>4, <4>1, <4>2
      <4>3. CASE q.type = r.type
        <5>1. r.kind # "create"
          BY <3>1, <4>1, <4>3 DEF Map!Refused, MapAssumptions,
             Map!MappingAssumption
        <5>2. r.kind # "update"
          BY <2>1, <2>7, <3>1, <4>3 DEF Orderly
        <5> QED BY <1>0, <1>5, <1>6, <3>4, <4>3, <5>1, <5>2 DEF Given
      <4> QED BY <4>2, <4>3
    <3> QED BY <3>3, <3>4
  <2>8. ASSUME NEW a \in SaveAnswers', a.to.kind = "remove", NEW s \in fresh .. a.stamp - 1
        PROVE  G[s][a.to.type] \in {a.to.detail, None}
    <3>1. CASE a \in SaveAnswers
      <4>1. a.stamp \in 1 .. stamp
        BY <1>10, <3>1
      <4>2. s \in 0 .. stamp
        BY <1>3, <4>1
      <4> QED BY <1>6, <2>1, <2>8, <3>1, <4>2 DEF Orderly
    <3>2. CASE a = b
      <4>1. s \in fresh .. stamp /\ s \in 0 .. stamp
        BY <1>1, <1>3, <1>7, <3>2
      <4> QED BY <1>6, <1>7, <2>3, <2>8, <3>2, <4>1
    <3> QED BY <1>7, <3>1, <3>2
  <2> QED BY <1>4, <2>4, <2>5, <2>6, <2>7, <2>8 DEF Orderly
<1> QED BY <1>2, <1>5, <1>6, <1>12, <1>13 DEF Followed

(* The answer to a save is taken: the history stays, fresh goes on to its  *)
(* stamp, and every later commit still has its answer on the way.          *)
LEMMA TakenTold ==
  ASSUME MapTypes, NEW H, Told(H), NEW a \in SaveAnswers, Map!Taken(a),
         UNCHANGED <<mapping, stamp, cache>>
  PROVE  /\ Told(H)' /\ SaveAnswers' = SaveAnswers \ {a}
         /\ fresh' \in fresh .. stamp /\ a.stamp <= fresh'
         /\ fresh' = IF a.stamp > fresh THEN a.stamp ELSE fresh
<1>1. a \in answers /\ a.to.kind # "query" /\ SaveTells(a, H)
  BY DEF SaveAnswers, Told
<1>2. stamp \in Nat /\ fresh \in Nat /\ fresh <= stamp /\ a.stamp \in 1 .. stamp
  BY <1>1, MapNumbers DEF SaveTells
<1>3. /\ answers' = answers \ {a} /\ SaveAnswers' = SaveAnswers \ {a}
      /\ fresh' = IF a.stamp > fresh THEN a.stamp ELSE fresh
  BY DEF Map!Taken, SaveAnswers
<1>4. /\ fresh' \in fresh .. stamp /\ fresh' \in 0 .. stamp /\ a.stamp <= fresh'
      /\ \A s \in fresh' .. stamp : s \in fresh .. stamp /\ a.stamp <= s
      /\ \A s \in fresh' + 1 .. stamp : s \in fresh + 1 .. stamp /\ a.stamp # s
  BY <1>2, <1>3
<1>5. \A c : Tells(c, H)' <=> Tells(c, H)
  BY DEF Tells
<1>6. \A b : SaveTells(b, H)' <=> SaveTells(b, H)
  BY DEF SaveTells
<1>7. \A s \in fresh' + 1 .. stamp : \E b \in SaveAnswers' : b.stamp = s
  BY <1>3, <1>4 DEF Told
<1>8. ASSUME NEW s \in fresh' .. stamp, NEW t \in FuelType,
             \A b \in SaveAnswers' : b.to.type = t => b.stamp <= s
      PROVE  H[s][t] = mapping[t]
  BY <1>3, <1>4, <1>8 DEF Told
<1>9. Told(H)'
  BY <1>3, <1>4, <1>5, <1>6, <1>7, <1>8 DEF Told
<1> QED BY <1>3, <1>4, <1>9

(* What is left of an orderly page when fresh goes on.                     *)
LEMMA OrderlyGoesOn ==
  ASSUME MapTypes, NEW H, Told(H), Orderly(H), fresh' \in fresh .. stamp,
         UNCHANGED <<stamp, requests>>, SaveAnswers' \subseteq SaveAnswers,
         unmapped' = Map!unmapped_fuel(H[fresh']),
         lists' = Map!MappedTo(H[fresh'])
  PROVE  Orderly(H)'
<1>1. /\ stamp \in Nat /\ fresh \in Nat /\ fresh' \in Nat
      /\ \A s \in fresh' .. stamp : s \in fresh .. stamp
  BY MapNumbers
<1>2. \A b \in SaveAnswers : \A s \in fresh' .. b.stamp - 1 : s \in fresh .. b.stamp - 1
  <2>1. \A b \in SaveAnswers : b.stamp \in Nat
    BY MapSaveAnswer DEF MapTypes
  <2> QED BY <1>1, <2>1
<1> QED BY <1>1, <1>2 DEF Orderly

LEMMA ReceiveSaveFollows ==
  ASSUME MapAssumptions, MapTypes, NEW H \in [Nat -> Map!Mapping], Followed(H),
         NEW a \in answers, Map!ReceiveSave(a)
  PROVE  Followed(H)'
<1>1. /\ a \in SaveAnswers /\ Told(H) /\ SaveTells(a, H) /\ Map!TypeOK
      /\ Map!Taken(a) /\ UNCHANGED <<mapping, stamp, cache, requests>>
  BY DEF Map!ReceiveSave, SaveAnswers, Followed, Told, MapTypes
<1>2. /\ Told(H)' /\ SaveAnswers' = SaveAnswers \ {a}
      /\ fresh' \in fresh .. stamp
      /\ fresh' = IF a.stamp > fresh THEN a.stamp ELSE fresh
  BY <1>1, TakenTold
<1>3. stamp \in Nat /\ fresh \in Nat /\ fresh <= stamp /\ a.stamp \in 1 .. stamp
  BY <1>1, MapNumbers DEF SaveTells
<1>4. /\ a.to.type \in FuelType /\ a.to.detail \in Item
      /\ a.to.kind \in {"create", "update", "remove"}
  BY <1>1, MapSaveAnswer
<1>5. ASSUME InTurn' PROVE Orderly(H)'
  <2>1. ~ doubt /\ fresh <= a.stamp /\ fresh' = a.stamp
    <3>1. ~ doubt /\ ~ (a.stamp < fresh)
      BY <1>5, Zenon DEF InTurn, Map!ReceiveSave
    <3> QED BY <1>2, <1>3, <3>1
  <2>2. \A b \in SaveAnswers : b = a \/ a.stamp <= b.stamp
    BY <1>2, <1>5, <2>1 DEF InTurn
  <2>3. InTurn /\ Orderly(H)
    <3>1. \A b \in SaveAnswers : b.stamp \in Nat
      BY <1>1, MapSaveAnswer
    <3>2. \A b \in SaveAnswers : fresh <= b.stamp
      BY <1>3, <2>1, <2>2, <3>1
    <3> QED BY <2>1, <3>2 DEF InTurn, Followed
  <2>4. a.stamp = fresh \/ a.stamp = fresh + 1
    <3>1. SUFFICES ASSUME fresh + 1 < a.stamp PROVE FALSE
      BY <1>3, <2>1
    <3>2. fresh + 1 \in fresh + 1 .. stamp
      BY <1>3, <3>1
    <3>3. PICK b \in SaveAnswers : b.stamp = fresh + 1
      BY <1>1, <3>2 DEF Told
    <3> QED BY <1>3, <2>2, <3>1, <3>3
  <2>5. /\ unmapped' = Map!unmapped_fuel(H[a.stamp])
        /\ lists' = [lists EXCEPT ![a.to.detail] =
             IF a.to.kind = "remove" THEN @ \ {a.to.type} ELSE @ \cup {a.to.type}]
    BY <1>1 DEF Map!ReceiveSave, Map!nowUnmapped, SaveTells
  <2>6. PICK old : old = H[fresh]
    OBVIOUS
  <2>7. PICK new : new = H[a.stamp]
    OBVIOUS
  <2>8. lists = Map!MappedTo(old)
    BY <2>3, <2>6 DEF Orderly
  <2>9. lists' = Map!MappedTo(new)
    <3>1. \A t \in FuelType :
            new[t] = IF t = a.to.type THEN Given(a.to) ELSE old[t]
      <4>1. CASE a.stamp = fresh
        BY <1>1, <2>6, <2>7, <4>1 DEF SaveTells
      <4>2. CASE a.stamp = fresh + 1
        <5>1. a.stamp - 1 = fresh
          BY <1>3, <4>2
        <5> QED BY <1>1, <2>6, <2>7, <5>1 DEF SaveTells
      <4> QED BY <2>4, <4>1, <4>2
    <3>2. old[a.to.type] \in Item => old[a.to.type] = a.to.detail
      <4>1. CASE a.stamp = fresh
        BY <1>4, <2>6, <2>7, <3>1, <4>1 DEF Given, MapAssumptions,
           Map!SelectionAssumption
      <4>2. CASE a.stamp = fresh + 1 /\ a.to.kind # "remove"
        <5>1. fresh \in fresh .. stamp /\ a.stamp \in fresh .. stamp /\ fresh <= a.stamp
          BY <1>3, <4>2
        <5>2. old[a.to.type] \in Item => new[a.to.type] \in {old[a.to.type],
        None}
          BY <1>4, <2>3, <2>6, <2>7, <5>1 DEF Orderly
        <5> QED BY <1>4, <3>1, <4>2, <5>2 DEF Given, MapAssumptions,
                   Map!SelectionAssumption
      <4>3. CASE a.stamp = fresh + 1 /\ a.to.kind = "remove"
        <5>1. fresh \in fresh .. a.stamp - 1
          BY <1>3, <4>3
        <5>2. old[a.to.type] \in {a.to.detail, None}
          BY <1>1, <2>3, <2>6, <4>3, <5>1 DEF Orderly
        <5> QED BY <5>2 DEF MapAssumptions, Map!SelectionAssumption
      <4> QED BY <2>4, <4>1, <4>2, <4>3
    <3>3. ASSUME NEW d \in Item PROVE lists'[d] = {t \in FuelType : new[t] = d}
      <4>1. lists[d] = {t \in FuelType : old[t] = d} /\ d \in DOMAIN lists
        BY <2>8 DEF Map!MappedTo
      <4>2. d # None
        BY DEF MapAssumptions, Map!SelectionAssumption
      <4>3. CASE d # a.to.detail
        <5>1. lists'[d] = lists[d]
          BY <2>5, <4>1, <4>3
        <5>2. \A t \in FuelType : old[t] = d <=> new[t] = d
          BY <3>1, <3>2, <4>2, <4>3 DEF Given
        <5> QED BY <4>1, <5>1, <5>2
      <4>4. CASE d = a.to.detail /\ a.to.kind = "remove"
        <5>1. lists'[d] = lists[d] \ {a.to.type}
          BY <2>5, <4>1, <4>4
        <5>2. \A t \in FuelType : new[t] = d <=> old[t] = d /\ t # a.to.type
          BY <3>1, <4>2, <4>4 DEF Given
        <5> QED BY <4>1, <5>1, <5>2
      <4>5. CASE d = a.to.detail /\ a.to.kind # "remove"
        <5>1. lists'[d] = lists[d] \cup {a.to.type}
          BY <2>5, <4>1, <4>5
        <5>2. \A t \in FuelType : new[t] = d <=> old[t] = d \/ t = a.to.type
          BY <3>1, <4>5 DEF Given
        <5> QED BY <1>4, <4>1, <5>1, <5>2
      <4> QED BY <4>3, <4>4, <4>5
    <3>4. lists' = [d \in Item |-> lists'[d]]
      BY <2>5, <2>8 DEF Map!MappedTo
    <3> QED BY <3>3, <3>4 DEF Map!MappedTo
  <2> QED BY <1>1, <1>2, <2>1, <2>3, <2>5, <2>7, <2>9, OrderlyGoesOn
<1> QED BY <1>2, <1>5 DEF Followed

(* The answer to a query replaces the lists; in a clear moment, when it is *)
(* all that is in flight, it is the table as it is.                        *)
LEMMA ReceiveQueryFollows ==
  ASSUME MapTypes, NEW H \in [Nat -> Map!Mapping], Followed(H),
         NEW a \in answers, Map!ReceiveQuery(a)
  PROVE  Followed(H)'
<1>1. /\ Told(H) /\ a.to.kind = "query" /\ Tells(a, H) /\ Map!TypeOK
      /\ answers' = answers \ {a} /\ SaveAnswers' = SaveAnswers
      /\ fresh' = (IF a.stamp > fresh THEN a.stamp ELSE fresh)
      /\ unmapped' = a.unmapped /\ lists' = a.lists
      /\ UNCHANGED <<mapping, stamp, requests>>
  BY DEF Map!ReceiveQuery, Map!Taken, SaveAnswers, Followed, Told, MapTypes
<1>2. stamp \in Nat /\ fresh \in Nat /\ fresh <= stamp /\ a.stamp \in 0 .. stamp
  BY <1>1, MapNumbers DEF Tells
<1>3. /\ fresh' \in fresh .. stamp /\ fresh' \in 0 .. stamp
      /\ \A s \in fresh' .. stamp : s \in fresh .. stamp
      /\ \A s \in fresh' + 1 .. stamp : s \in fresh + 1 .. stamp
  BY <1>1, <1>2
<1>4. \A c : Tells(c, H)' <=> Tells(c, H)
  BY <1>1 DEF Tells
<1>5. \A b : SaveTells(b, H)' <=> SaveTells(b, H)
  BY <1>1 DEF SaveTells
<1>6. \A c \in cache' : Tells(c, H)
  <2>1. Tells([stamp |-> a.stamp, unmapped |-> a.unmapped, lists |-> a.lists],
  H)
    BY <1>1 DEF Tells
  <2> QED BY <1>1, <2>1 DEF Map!ReceiveQuery, Told
<1>7. Told(H)'
  BY <1>1, <1>3, <1>4, <1>5, <1>6 DEF Told
<1>8. ASSUME InTurn' PROVE Orderly(H)'
  <2>1. fresh <= a.stamp /\ fresh' = a.stamp
    BY <1>1, <1>2, <1>8 DEF InTurn, Map!ReceiveQuery
  <2>2. unmapped' = Map!unmapped_fuel(H[fresh']) /\ lists' = Map!MappedTo(H[fresh'])
    BY <1>1, <2>1 DEF Tells
  <2>3. CASE ~ doubt
    <3>1. InTurn
      <4>1. \A b \in SaveAnswers : b.stamp \in Nat /\ fresh' <= b.stamp
        BY <1>1, <1>8, MapSaveAnswer DEF InTurn
      <4> QED BY <1>2, <2>1, <2>3, <4>1 DEF InTurn
    <3>2. Orderly(H)
      BY <3>1 DEF Followed
    <3> QED BY <1>1, <1>3, <2>2, <3>2, OrderlyGoesOn
  <2>4. CASE doubt
    <3>1. Map!InFlight = {a.to}
      BY <1>8, <2>4 DEF InTurn, Map!ReceiveQuery
    <3>2. /\ \A q \in requests : q.kind = "query"
          /\ SaveAnswers = {}
      BY <1>1, <3>1 DEF Map!InFlight, SaveAnswers
    <3>3. fresh = stamp
      <4>1. SUFFICES ASSUME fresh < stamp PROVE FALSE
        BY <1>2
      <4>2. stamp \in fresh + 1 .. stamp
        BY <1>2, <4>1
      <4> QED BY <1>1, <3>2, <4>2 DEF Told
    <3>4. fresh' = stamp /\ \A s \in fresh' .. stamp : s = fresh'
      BY <1>2, <1>3, <2>1, <3>3
    <3> QED BY <1>1, <2>2, <3>2, <3>4 DEF Orderly
  <2> QED BY <2>3, <2>4
<1> QED BY <1>7, <1>8 DEF Followed

LEMMA LoseSaveFollows ==
  ASSUME MapTypes, NEW H \in [Nat -> Map!Mapping], Followed(H), Map!LoseSave
  PROVE  Followed(H)'
<1>1. UNCHANGED <<mapping, stamp, unmapped, lists, cache>>
  BY DEF Map!LoseSave, Map!store
<1>2. CASE \E r \in {q \in requests : q.kind # "query"} :
             requests' = requests \ {r} /\ UNCHANGED <<answers, fresh, doubt>>
  <2>1. SaveAnswers' = SaveAnswers
    BY <1>2 DEF SaveAnswers
  <2>2. \A c \in cache' : Tells(c, H)
    BY <1>1 DEF Followed, Told
  <2>3. \A b \in answers' : b.to.kind = "query" => Tells(b, H)
    BY <1>2 DEF Followed, Told
  <2> QED BY <1>1, <1>2, <2>1, <2>2, <2>3, QuietStep
<1>3. ASSUME NEW a \in answers, a.to.kind # "query", Map!Taken(a), doubt' = TRUE
      PROVE  Followed(H)'
  <2>1. a \in SaveAnswers /\ Told(H)
    BY <1>3 DEF SaveAnswers, Followed
  <2>2. Told(H)'
    BY <1>1, <1>3, <2>1, TakenTold
  <2> QED BY <1>3, <2>2 DEF Followed, InTurn
<1> QED BY <1>2, <1>3 DEF Map!LoseSave, Map!history

(* A save is asked for.                                                    *)
LEMMA ApplyFollows ==
  ASSUME MapAssumptions, MapTypes, NEW H \in [Nat -> Map!Mapping], Followed(H),
         NEW u \in unmapped, NEW d \in Item, Map!handleApply(u, d)
  PROVE  Followed(H)'
<1> DEFINE q == [kind |-> IF u.row THEN "update" ELSE "create", type |-> u.type,
                 detail |-> d, no |-> saves + 1]
<1>1. /\ requests' = requests \cup {q} /\ UNCHANGED <<answers, SaveAnswers>>
      /\ UNCHANGED <<mapping, stamp, unmapped, lists, cache, fresh>>
  BY DEF Map!handleApply, Map!Send, Map!PageOnly, Map!store, SaveAnswers
<1>2. Told(H)' /\ Told(H)
  BY <1>1 DEF Followed, Told, Tells, SaveTells
<1>3. q.kind \in {"create", "update"} /\ (q.kind = "update" <=> u.row) /\ q.type = u.type
  OBVIOUS
<1> HIDE DEF q
<1>4. ASSUME InTurn' PROVE Orderly(H)'
  <2>1. InTurn /\ Orderly(H)
    BY <1>1, <1>4 DEF InTurn, Followed, Map!handleApply
  <2>2. CASE q.kind # "update"
    <3>1. q.kind = "create"
      BY <1>3, <2>2
    <3> QED BY <1>1, <2>1, <3>1 DEF Orderly
  <2>3. CASE q.kind = "update"
    <3>1. /\ \A o \in requests : o.kind \in {"update", "remove"} => o.type # u.type
          /\ \A b \in answers : b.to.kind \in {"update", "remove"} => b.to.type # u.type
      BY <1>4 DEF InTurn, Map!handleApply, Map!InFlight
    <3>2. u.row /\ u \in Map!unmapped_fuel(H[fresh])
      BY <1>3, <2>1, <2>3 DEF Orderly
    <3>3. u.type \in FuelType /\ H[fresh][u.type] = None
      <4>1. PICK v \in {w \in FuelType : H[fresh][w] \in {None, NoRow}} :
                   u = [type |-> v, row |-> H[fresh][v] = None]
        BY <3>2, Zenon DEF Map!unmapped_fuel
      <4>2. u.type = v /\ u.row = (H[fresh][v] = None)
        BY <4>1, Zenon
      <4>3. H[fresh][v] = None
        BY <3>2, <4>2, Zenon
      <4> QED BY <4>2, <4>3
    <3>4. /\ stamp \in Nat /\ fresh \in Nat /\ fresh <= stamp
          /\ \A s \in fresh .. stamp : s \in Nat
      BY <1>2, MapNumbers
    <3>5. ASSUME NEW b \in SaveAnswers, b.to.type = u.type PROVE b.stamp \in Nat /\ b.stamp <= fresh
      <4>1. b.to.kind = "create" /\ b \in answers
        BY <3>1, <3>5, MapSaveAnswer DEF MapTypes
      <4>2. SaveTells(b, H)
        BY <1>2 DEF Told
      <4>3. \A s \in 0 .. b.stamp - 1 : H[s][u.type] = NoRow
        BY <3>5, <4>1, <4>2 DEF SaveTells
      <4>4. fresh \notin 0 .. b.stamp - 1
        BY <3>3, <4>3 DEF MapAssumptions, Map!MappingAssumption
      <4>5. b.stamp \in 1 .. stamp
        BY <4>2 DEF SaveTells
      <4> QED BY <3>4, <4>4, <4>5
    <3>6. \A s \in fresh .. stamp : H[s][u.type] = mapping[u.type]
      <4>1. \A s \in fresh .. stamp : \A b \in SaveAnswers : b.to.type = u.type => b.stamp <= s
        BY <3>4, <3>5
      <4> QED BY <1>2, <3>3, <4>1 DEF Told
    <3>7. \A s \in fresh .. stamp : H[s][u.type] = None
      <4>1. fresh \in fresh .. stamp
        BY <3>4
      <4> QED BY <3>3, <3>6, <4>1
    <3>8. \A o \in requests : o.kind = "update" => o.type # q.type
      BY <1>3, <3>1
    <3> QED BY <1>1, <1>3, <2>1, <2>3, <3>1, <3>7, <3>8 DEF Orderly
  <2> QED BY <2>2, <2>3
<1> QED BY <1>2, <1>4 DEF Followed

LEMMA RemoveFollows ==
  ASSUME MapAssumptions, MapTypes, NEW H \in [Nat -> Map!Mapping], Followed(H),
         NEW t \in FuelType, Map!handleRemove(t)
  PROVE  Followed(H)'
<1> DEFINE q == [kind |-> "remove", type |-> t, detail |-> url.item, no |-> saves + 1]
<1>1. /\ requests' = requests \cup {q} /\ UNCHANGED <<answers, SaveAnswers, doubt>>
      /\ UNCHANGED <<mapping, stamp, unmapped, lists, cache, fresh>>
  BY DEF Map!handleRemove, Map!Send, Map!PageOnly, Map!store, SaveAnswers
<1>2. Told(H)' /\ Told(H)
  BY <1>1 DEF Followed, Told, Tells, SaveTells
<1>3. /\ q.kind = "remove" /\ q.type = t /\ q.detail = url.item
      /\ url.item \in Item /\ t \in lists[url.item]
  BY DEF Map!handleRemove, MapTypes, Map!TypeOK
<1> HIDE DEF q
<1>4. ASSUME InTurn' PROVE Orderly(H)'
  <2>1. InTurn /\ Orderly(H)
    BY <1>1, <1>4 DEF InTurn, Followed
  <2>2. H[fresh][t] = url.item
    BY <1>3, <2>1 DEF Orderly, Map!MappedTo
  <2>3. fresh \in fresh .. stamp /\ \A s \in fresh .. stamp : fresh <= s
    BY <1>2, MapNumbers
  <2>4. \A s \in fresh .. stamp : H[s][t] \in {url.item, None}
    BY <1>3, <2>1, <2>2, <2>3 DEF Orderly
  <2>5. \A o \in requests : o.kind = "update" => o.type # t
    BY <1>3, <2>1, <2>2, <2>3 DEF Orderly, MapAssumptions,
       Map!SelectionAssumption
  <2> QED BY <1>1, <1>3, <2>1, <2>4, <2>5 DEF Orderly
<1> QED BY <1>2, <1>4 DEF Followed

(* Types. *)
LEMMA ClickTyped ==
  ASSUME Map!SelectionTypeOK, NEW i \in Item, NEW s, Map!Click(i, s)
  PROVE  Map!SelectionTypeOK'
<1> DEFINE to == [url EXCEPT !.item = i]
<1>1. url \in Map!Url /\ fetches \subseteq Map!Fetch /\ visits \in 0 .. MaxVisits
  BY DEF Map!SelectionTypeOK
<1>2. to \in [item : Item, showAll : BOOLEAN] /\ to \in Map!Url
  BY <1>1 DEF Map!Url
<1>3. [to |-> to, gone |-> FALSE] \in Map!Fetch
  BY <1>2 DEF Map!Fetch
<1> HIDE DEF to
<1>4. /\ url' = to \/ url' = url
      /\ fetches' \subseteq fetches \cup {[to |-> to, gone |-> FALSE]}
      /\ visits' = visits
  BY DEF Map!Click, to
<1> QED BY <1>1, <1>2, <1>3, <1>4 DEF Map!SelectionTypeOK

LEMMA AfterFetchTyped ==
  ASSUME Map!SelectionTypeOK, NEW xs \in SUBSET fetches, Map!AfterFetch(xs)
  PROVE  Map!SelectionTypeOK'
<1>1. \A x \in fetches : x.to \in Map!Url
  BY DEF Map!SelectionTypeOK, Map!Fetch, Map!Url
<1> QED BY <1>1 DEF Map!AfterFetch, Map!SelectionTypeOK

LEMMA VisitTyped ==
  ASSUME Map!SelectionTypeOK, Map!SelectionAssumption, Map!Visit
  PROVE  Map!SelectionTypeOK'
<1>1. fetches \subseteq Map!Fetch /\ visits \in 0 .. MaxVisits /\ MaxVisits \in Nat
  BY DEF Map!SelectionTypeOK, Map!SelectionAssumption
<1>2. \A x \in fetches : [x EXCEPT !.gone = TRUE] \in Map!Fetch
  BY <1>1 DEF Map!Fetch
<1>3. fetches' \subseteq Map!Fetch /\ url' \in Map!Url /\ visits' \in 0 .. MaxVisits
  BY <1>1, <1>2 DEF Map!Visit, Map!Url
<1> QED BY <1>3 DEF Map!SelectionTypeOK

(* Steps that leave the table and the store alone.                         *)
LEMMA MapNetworkTyped ==
  ASSUME MapTypes, Map!SelectionTypeOK', saves' \in 0 .. MaxSaves,
         UNCHANGED <<mapping, stamp, unmapped, lists, known>>,
         requests' \subseteq Map!Save \cup Map!Query,
         answers' \subseteq Map!SaveAnswer \cup Map!QueryAnswer,
         cache' \subseteq Map!Content,
         fresh' \in Nat, doubt' \in BOOLEAN
  PROVE  MapTypes'
  BY DEF MapTypes, Map!TypeOK, SavesCounted, Map!Save, Map!Query,
     Map!SaveAnswer,
     Map!QueryAnswer, Map!Content, Map!Mapping, Map!Unmapped, Map!Lists

LEMMA MapParts ==
  ASSUME MapTypes
  PROVE  /\ Map!SelectionTypeOK /\ saves \in 0 .. MaxSaves
         /\ requests \subseteq Map!Save \cup Map!Query
         /\ answers \subseteq Map!SaveAnswer \cup Map!QueryAnswer
         /\ cache \subseteq Map!Content
         /\ mapping \in Map!Mapping /\ stamp \in Nat
         /\ unmapped \in Map!Unmapped /\ lists \in Map!Lists /\ known \subseteq Item
         /\ fresh \in Nat /\ doubt \in BOOLEAN
  BY DEF MapTypes, Map!TypeOK, SavesCounted

LEMMA MapSelectionSame ==
  ASSUME MapTypes, UNCHANGED Map!selection
  PROVE  Map!SelectionTypeOK'
  BY MapParts DEF Map!selection, Map!SelectionTypeOK

LEMMA SelectFuelTyped ==
  ASSUME MapTypes, NEW i \in Item, Map!SelectFuel(i)
  PROVE  MapTypes'
<1>1. [kind |-> "query", item |-> i, fetch |-> TRUE] \in Map!Query
  BY DEF Map!Query
<1>2. requests' \subseteq Map!Save \cup Map!Query /\ answers' = answers
  BY <1>1, MapParts DEF Map!SelectFuel
<1> QED BY <1>2, MapParts, ClickTyped, MapNetworkTyped
        DEF Map!SelectFuel, Map!store, Map!history

LEMMA VisitPageTyped ==
  ASSUME MapAssumptions, MapTypes, Map!VisitPage
  PROVE  MapTypes'
<1>1. Map!Opening \in Map!Query
  BY DEF Map!Opening, Map!Query
<1>2. \A c \in cache : Map!Cached(c) \in Map!QueryAnswer
  BY <1>1, MapParts DEF Map!Content, Map!QueryAnswer, Map!Cached
<1>3. /\ requests' \subseteq Map!Save \cup Map!Query
      /\ answers' \subseteq Map!SaveAnswer \cup Map!QueryAnswer
  BY <1>1, <1>2, MapParts DEF Map!VisitPage
<1>4. Map!SelectionTypeOK'
  BY MapParts, VisitTyped DEF MapAssumptions, Map!VisitPage
<1> QED BY <1>3, <1>4, MapParts, MapNetworkTyped
        DEF Map!VisitPage, Map!store, Map!history

LEMMA SendTyped ==
  ASSUME MapAssumptions, MapTypes, NEW kind \in {"create", "update", "remove"},
         NEW t \in FuelType, NEW d \in Item, Map!Send(kind, t, d)
  PROVE  requests' \subseteq Map!Save \cup Map!Query /\ saves' \in 0 .. MaxSaves
<1>1. saves \in 0 .. MaxSaves /\ MaxSaves \in Nat
  BY MapParts DEF MapAssumptions, Map!MappingAssumption
<1>2. saves + 1 \in 1 .. MaxSaves /\ saves' = saves + 1
  BY <1>1 DEF Map!Send
<1>3. [kind |-> kind, type |-> t, detail |-> d, no |-> saves + 1] \in Map!Save
  BY <1>2 DEF Map!Save
<1> QED BY <1>1, <1>2, <1>3, MapParts DEF Map!Send

LEMMA ApplyTyped ==
  ASSUME MapAssumptions, MapTypes, NEW u \in unmapped, NEW d \in Item,
         Map!handleApply(u, d)
  PROVE  MapTypes'
<1>1. u.type \in FuelType
  BY MapParts DEF Map!Unmapped
<1>2. PICK kind \in {"create", "update", "remove"} : Map!Send(kind, u.type, d)
  BY DEF Map!handleApply
<1>3. requests' \subseteq Map!Save \cup Map!Query /\ saves' \in 0 .. MaxSaves
  BY <1>1, <1>2, SendTyped
<1>4. doubt' \in BOOLEAN
  BY Zenon DEF Map!handleApply
<1> QED BY <1>3, <1>4, MapParts, MapSelectionSame, MapNetworkTyped
        DEF Map!handleApply, Map!PageOnly, Map!store

LEMMA RemoveTyped ==
  ASSUME MapAssumptions, MapTypes, NEW t \in FuelType, Map!handleRemove(t)
  PROVE  MapTypes'
<1>1. url.item \in Item
  BY MapParts DEF Map!handleRemove
<1>2. requests' \subseteq Map!Save \cup Map!Query /\ saves' \in 0 .. MaxSaves
  BY <1>1, SendTyped DEF Map!handleRemove
<1> QED BY <1>2, MapParts, MapSelectionSame, MapNetworkTyped
        DEF Map!handleRemove, Map!PageOnly, Map!store

LEMMA CommitTyped ==
  ASSUME MapAssumptions, MapTypes, NEW r \in requests, Map!Commit(r)
  PROVE  MapTypes'
<1>1. Map!TypeOK /\ r.kind # "query" /\ Map!SelectionTypeOK'
  BY MapSelectionSame DEF MapTypes, Map!Commit
<1>2. r \in Map!Save /\ r.type \in FuelType /\ r.detail \in Item
  BY <1>1, MapRequest
<1>3. /\ requests' = requests \ {r}
      /\ UNCHANGED <<unmapped, lists, known, cache, saves, fresh, doubt>>
  BY DEF Map!Commit, Map!store, Map!history
<1>4. CASE Map!Refused(r)
  <2>1. UNCHANGED <<mapping, stamp, answers>>
    BY <1>4 DEF Map!Commit
  <2> QED BY <1>1, <1>3, <2>1, MapParts, MapNetworkTyped
<1>5. CASE ~ Map!Refused(r)
  <2>1. PICK m : /\ m = mapping' /\ stamp' = stamp + 1
                 /\ m = [mapping EXCEPT ![r.type] = Given(r)]
                 /\ answers' = answers \cup
                      {[to |-> r, stamp |-> stamp', unmapped |-> Map!unmapped_fuel(m)]}
    BY <1>5 DEF Map!Commit, Given
  <2>2. m \in Map!Mapping
    BY <1>2, <2>1, MapParts DEF Map!Mapping, Given
  <2>3. PICK b : /\ b = [to |-> r, stamp |-> stamp', unmapped |-> Map!unmapped_fuel(m)]
                 /\ b \in Map!SaveAnswer
    <3>1. Map!unmapped_fuel(m) \in Map!Unmapped
      BY <2>2, MapTables
    <3>2. stamp' \in Nat
      BY <2>1, MapParts
    <3>3. \A n \in Nat, v \in Map!Unmapped :
            [to |-> r, stamp |-> n, unmapped |-> v] \in Map!SaveAnswer
      BY <1>2 DEF Map!SaveAnswer
    <3> QED BY <3>1, <3>2, <3>3
  <2>4. stamp' \in Nat /\ mapping' \in Map!Mapping
    <3>1. stamp' \in Nat
      BY <2>1, MapParts
    <3> QED BY <2>1, <2>2, <3>1
  <2>6. answers' \subseteq Map!SaveAnswer \cup Map!QueryAnswer
    <3>1. answers' = answers \cup {b}
      BY <2>1, <2>3
    <3> QED BY <2>3, <3>1, MapParts
  <2>5. Map!TypeOK'
    BY <1>1, <1>3, <2>4, <2>6, MapParts DEF Map!TypeOK, Map!Unmapped,
       Map!Lists, Map!Mapping,
       Map!SaveAnswer, Map!QueryAnswer, Map!Save, Map!Query, Map!Content
  <2> QED BY <1>3, <2>5 DEF MapTypes, SavesCounted
<1> QED BY <1>4, <1>5

LEMMA ReadTyped ==
  ASSUME MapTypes, NEW q \in requests, Map!Read(q)
  PROVE  MapTypes'
<1> DEFINE a == [to |-> q, stamp |-> stamp, unmapped |-> Map!unmapped_fuel(mapping),
                 lists |-> Map!MappedTo(mapping)]
<1>1. q \in Map!Query
  BY MapRequest DEF MapTypes, Map!Read
<1>2. a \in Map!QueryAnswer
  BY <1>1, MapParts, MapTables DEF Map!QueryAnswer
<1> QED BY <1>2, MapParts, MapSelectionSame, MapNetworkTyped
        DEF Map!Read, Map!store, Map!history

LEMMA ReceiveTyped ==
  ASSUME MapTypes, NEW a \in answers, Map!ReceiveSave(a) \/ Map!ReceiveQuery(a)
  PROVE  MapTypes'
<1>1. Map!TypeOK
  BY DEF MapTypes
<1>2. CASE Map!ReceiveSave(a)
  <2>1. a \in SaveAnswers
    BY <1>2 DEF Map!ReceiveSave, SaveAnswers
  <2>2. a.to.type \in FuelType /\ a.stamp \in Nat /\ a.unmapped \in Map!Unmapped
    BY <1>1, <2>1, MapSaveAnswer
  <2>3. fresh' \in Nat /\ unmapped' \in Map!Unmapped /\ answers' = answers \ {a}
    BY <1>2, <2>2, MapParts DEF Map!ReceiveSave, Map!Taken, Map!nowUnmapped
  <2>4. lists' \in Map!Lists
    BY <1>2, <2>2, MapParts DEF Map!ReceiveSave, Map!Lists
  <2>5. doubt' \in BOOLEAN
    BY <1>2, Zenon DEF Map!ReceiveSave
  <2>6. Map!SelectionTypeOK'
    BY <1>2, MapSelectionSame DEF Map!ReceiveSave
  <2>7. UNCHANGED <<mapping, stamp, known, requests, cache, saves>>
    BY <1>2 DEF Map!ReceiveSave
  <2>8. Map!TypeOK'
    BY <2>3, <2>4, <2>5, <2>6, <2>7, MapParts DEF Map!TypeOK, Map!Unmapped,
       Map!Lists,
       Map!Mapping, Map!SaveAnswer, Map!QueryAnswer, Map!Save, Map!Query,
       Map!Content
  <2> QED BY <2>7, <2>8, MapParts DEF MapTypes, SavesCounted
<1>3. CASE Map!ReceiveQuery(a)
  <2>1. /\ a.to \in Map!Query /\ a.stamp \in Nat /\ a.unmapped \in Map!Unmapped
        /\ a.lists \in Map!Lists
    BY <1>1, <1>3, MapQueryAnswer DEF Map!ReceiveQuery
  <2>2. /\ fresh' \in Nat /\ unmapped' \in Map!Unmapped /\ lists' \in Map!Lists
        /\ answers' = answers \ {a}
    BY <1>3, <2>1, MapParts DEF Map!ReceiveQuery, Map!Taken
  <2>3. known' \subseteq Item
    BY <1>3, <2>1, MapParts DEF Map!ReceiveQuery, Map!Query
  <2>4. cache' \subseteq Map!Content
    BY <1>3, <2>1, MapParts DEF Map!ReceiveQuery, Map!Content
  <2>5. doubt' \in BOOLEAN
    BY <1>3, Zenon DEF Map!ReceiveQuery
  <2>6. Map!SelectionTypeOK'
    BY <1>3, MapParts, MapSelectionSame, AfterFetchTyped DEF Map!ReceiveQuery,
       Map!FetchesOf
  <2>7. UNCHANGED <<mapping, stamp, requests, saves>>
    BY <1>3 DEF Map!ReceiveQuery
  <2>8. Map!TypeOK'
    BY <2>2, <2>3, <2>4, <2>5, <2>6, <2>7, MapParts DEF Map!TypeOK,
       Map!Unmapped,
       Map!Lists, Map!Mapping, Map!SaveAnswer, Map!QueryAnswer, Map!Save,
       Map!Query,
       Map!Content
  <2> QED BY <2>7, <2>8, MapParts DEF MapTypes, SavesCounted
<1> QED BY <1>2, <1>3

LEMMA LoseSaveTyped ==
  ASSUME MapTypes, Map!LoseSave
  PROVE  MapTypes'
<1>1. /\ requests' \subseteq requests /\ answers' \subseteq answers
      /\ Map!SelectionTypeOK'
      /\ UNCHANGED <<mapping, stamp, unmapped, lists, known, cache, saves>>
  BY MapSelectionSame DEF Map!LoseSave, Map!store, Map!Taken
<1>2. fresh' \in Nat /\ doubt' \in BOOLEAN
  <2>1. CASE UNCHANGED <<fresh, doubt>>
    BY <2>1, MapParts
  <2>2. ASSUME NEW a \in answers, a.to.kind # "query", Map!Taken(a), doubt' = TRUE
        PROVE  fresh' \in Nat /\ doubt' \in BOOLEAN
    <3>1. a.stamp \in Nat
      BY <2>2, MapSaveAnswer DEF MapTypes, SaveAnswers
    <3> QED BY <2>2, <3>1, MapParts DEF Map!Taken
  <2> QED BY <2>1, <2>2 DEF Map!LoseSave, Map!history
<1> QED BY <1>1, <1>2, MapParts, MapNetworkTyped

LEMMA FetchFailsTyped ==
  ASSUME MapTypes, NEW q \in requests, Map!FetchFails(q)
  PROVE  MapTypes'
<1>1. q \in Map!Query
  BY MapRequest DEF MapTypes, Map!FetchFails
<1>2. [q EXCEPT !.fetch = FALSE] \in Map!Query
  BY <1>1 DEF Map!Query
<1>3. requests' \subseteq Map!Save \cup Map!Query
  BY <1>2, MapParts DEF Map!FetchFails
<1>4. Map!SelectionTypeOK'
  BY MapParts, AfterFetchTyped DEF Map!FetchFails, Map!FetchesOf
<1> QED BY <1>3, <1>4, MapParts, MapNetworkTyped DEF Map!FetchFails, Map!store,
           Map!history

-----------------------------------------------------------------------------
LEMMA MapStarts ==
  ASSUME MapAssumptions, Map!Init
  PROVE  MapInv
<1>1. mapping \in Map!Mapping /\ MaxVisits \in Nat /\ MaxSaves \in Nat
  BY DEF MapAssumptions, Map!MappingAssumption, Map!SelectionAssumption,
     Map!Init
<1>2. MapTypes
  <2>1. Map!SelectionTypeOK
    BY <1>1 DEF Map!Init, Map!SelectionInit, Map!SelectionTypeOK, Map!Url,
       Map!Fetch
  <2>2. unmapped \in Map!Unmapped /\ lists \in Map!Lists
    BY <1>1, MapTables DEF Map!Init
  <2>3. [stamp |-> 0, unmapped |-> unmapped, lists |-> lists] \in Map!Content
    BY <2>2 DEF Map!Content
  <2>4. cache \subseteq Map!Content /\ saves \in 0 .. MaxSaves
    BY <1>1, <2>3 DEF Map!Init
  <2>5. /\ stamp \in Nat /\ fresh \in Nat /\ doubt \in BOOLEAN /\ known \subseteq Item
        /\ requests \subseteq Map!Save \cup Map!Query
        /\ answers \subseteq Map!SaveAnswer \cup Map!QueryAnswer
    BY DEF Map!Init
  <2> QED BY <1>1, <2>1, <2>2, <2>4, <2>5 DEF MapTypes, Map!TypeOK, SavesCounted
<1>3. PICK m : m = mapping
  OBVIOUS
<1>4. PICK H : H = [s \in Nat |-> m]
  OBVIOUS
<1>5. H \in [Nat -> Map!Mapping] /\ \A s \in Nat : H[s] = mapping
  BY <1>1, <1>3, <1>4
<1>6. \A s : s \in 0 .. 0 <=> s = 0
  OBVIOUS
<1>7. /\ stamp = 0 /\ fresh = 0 /\ answers = {} /\ requests = {} /\ SaveAnswers = {}
      /\ unmapped = Map!unmapped_fuel(H[0]) /\ lists = Map!MappedTo(H[0])
      /\ cache = {[stamp |-> 0, unmapped |-> unmapped, lists |-> lists]}
  BY <1>5 DEF Map!Init, SaveAnswers
<1>8. \A s \in 0 .. 0 : H[s] = mapping
  BY <1>5, <1>6
<1>9. \A c \in cache : Tells(c, H)
  BY <1>6, <1>7 DEF Tells
<1>10. Told(H)
  <2>1. 0 + 1 .. 0 = {}
    OBVIOUS
  <2> QED BY <1>6, <1>7, <1>8, <1>9, <2>1 DEF Told
<1>11. Orderly(H)
  BY <1>6, <1>7, <1>8 DEF Orderly
<1> QED BY <1>2, <1>5, <1>10, <1>11 DEF MapInv, Followed

LEMMA MapStep ==
  ASSUME MapAssumptions, MapInv, [Map!Next]_(Map!vars)
  PROVE  MapInv'
<1>1. MapTypes
  BY DEF MapInv
<1>2. PICK H \in [Nat -> Map!Mapping] : Followed(H)
  BY DEF MapInv
<1>3. SUFFICES MapTypes' /\ \E G \in [Nat -> Map!Mapping] : Followed(G)'
  BY DEF MapInv
<1>4. /\ \A a \in answers : a.to.kind = "query" => Tells(a, H)
      /\ \A c \in cache : Tells(c, H)
  BY <1>2 DEF Followed, Told
<1>5. ASSUME UNCHANGED <<mapping, stamp, unmapped, lists, fresh, doubt>>,
             \A q \in requests' : q.kind # "query" => q \in requests,
             SaveAnswers' = SaveAnswers,
             \A a \in answers' \ answers : a.to.kind = "query" => Tells(a, H),
             cache' \subseteq cache
      PROVE  \E G \in [Nat -> Map!Mapping] : Followed(G)'
  <2>1. Followed(H)'
    BY <1>2, <1>4, <1>5, QuietStep
  <2> QED BY <1>2, <2>1
<1>6. ASSUME NEW i \in Item, Map!SelectFuel(i)
      PROVE  MapTypes' /\ \E G \in [Nat -> Map!Mapping] : Followed(G)'
  BY <1>1, <1>5, <1>6, SelectFuelTyped
     DEF Map!SelectFuel, Map!store, Map!history, SaveAnswers
<1>7. ASSUME Map!VisitPage
      PROVE  MapTypes' /\ \E G \in [Nat -> Map!Mapping] : Followed(G)'
  <2>1. \A c \in cache : Map!Cached(c).to.kind = "query" /\ Tells(Map!Cached(c), H)
    BY <1>4 DEF Tells, Map!Cached, Map!Opening
  <2>2. \A a \in answers' \ answers : a.to.kind = "query" /\ Tells(a, H)
    BY <1>7, <2>1 DEF Map!VisitPage
  <2>3. SaveAnswers' = SaveAnswers
    BY <1>7, <2>1 DEF Map!VisitPage, SaveAnswers
  <2>4. \A q \in requests' : q.kind # "query" => q \in requests
    BY <1>7 DEF Map!VisitPage, Map!Opening
  <2> QED BY <1>1, <1>5, <1>7, <2>2, <2>3, <2>4, VisitPageTyped
          DEF Map!VisitPage, Map!store, Map!history
<1>8. ASSUME NEW u \in unmapped, NEW d \in Item, Map!handleApply(u, d)
      PROVE  MapTypes' /\ \E G \in [Nat -> Map!Mapping] : Followed(G)'
  BY <1>1, <1>2, <1>8, ApplyTyped, ApplyFollows
<1>9. ASSUME NEW t \in FuelType, Map!handleRemove(t)
      PROVE  MapTypes' /\ \E G \in [Nat -> Map!Mapping] : Followed(G)'
  BY <1>1, <1>2, <1>9, RemoveTyped, RemoveFollows
<1>10. ASSUME NEW r \in requests, Map!Commit(r)
       PROVE  MapTypes' /\ \E G \in [Nat -> Map!Mapping] : Followed(G)'
  <2>1. CASE Map!Refused(r)
    BY <1>1, <1>5, <1>10, <2>1, CommitTyped
       DEF Map!Commit, Map!store, Map!history, SaveAnswers
  <2>2. CASE ~ Map!Refused(r)
    BY <1>1, <1>2, <1>10, <2>2, CommitTyped, CommitFollows
  <2> QED BY <2>1, <2>2
<1>11. ASSUME NEW q \in requests, Map!Read(q)
       PROVE  MapTypes' /\ \E G \in [Nat -> Map!Mapping] : Followed(G)'
  <2> DEFINE a == [to |-> q, stamp |-> stamp, unmapped |-> Map!unmapped_fuel(mapping),
                   lists |-> Map!MappedTo(mapping)]
  <2>1. stamp \in 0 .. stamp /\ H[stamp] = mapping
    BY <1>1, <1>2, MapNumbers DEF Followed, Told
  <2>2. Tells(a, H) /\ a.to.kind = "query"
    BY <1>11, <2>1 DEF Tells, Map!Read
  <2>3. SaveAnswers' = SaveAnswers
    BY <1>11, <2>2 DEF Map!Read, SaveAnswers
  <2> QED BY <1>1, <1>5, <1>11, <2>2, <2>3, ReadTyped
          DEF Map!Read, Map!store, Map!history
<1>12. ASSUME NEW a \in answers, Map!ReceiveSave(a) \/ Map!ReceiveQuery(a)
       PROVE  MapTypes' /\ \E G \in [Nat -> Map!Mapping] : Followed(G)'
  BY <1>1, <1>2, <1>12, ReceiveTyped, ReceiveSaveFollows, ReceiveQueryFollows
<1>13. ASSUME NEW q \in requests, Map!FetchFails(q)
       PROVE  MapTypes' /\ \E G \in [Nat -> Map!Mapping] : Followed(G)'
  <2>1. \A o \in requests' : o.kind # "query" => o \in requests
    <3>1. q \in Map!Query
      BY <1>1, <1>13, MapRequest DEF MapTypes, Map!FetchFails
    <3>2. [q EXCEPT !.fetch = FALSE].kind = "query"
      BY <3>1 DEF Map!Query
    <3> QED BY <1>13, <3>2 DEF Map!FetchFails
  <2> QED BY <1>1, <1>5, <1>13, <2>1, FetchFailsTyped
          DEF Map!FetchFails, Map!store, Map!history, SaveAnswers
<1>14. ASSUME Map!LoseSave
       PROVE  MapTypes' /\ \E G \in [Nat -> Map!Mapping] : Followed(G)'
  BY <1>1, <1>2, <1>14, LoseSaveTyped, LoseSaveFollows
<1>15. ASSUME Map!Expire \/ UNCHANGED Map!vars
       PROVE  MapTypes' /\ \E G \in [Nat -> Map!Mapping] : Followed(G)'
  <2>1. /\ UNCHANGED <<mapping, stamp, unmapped, lists, known, fresh, doubt>>
        /\ UNCHANGED <<requests, answers, saves, SaveAnswers, Map!selection>>
        /\ cache' \subseteq cache
    BY <1>15 DEF Map!Expire, Map!vars, Map!store, Map!network, Map!history,
       SaveAnswers
  <2>2. MapTypes'
    BY <1>1, <2>1, MapParts, MapSelectionSame, MapNetworkTyped
  <2> QED BY <1>5, <2>1, <2>2
<1> QED BY <1>6, <1>7, <1>8, <1>9, <1>10, <1>11, <1>12, <1>13, <1>14, <1>15
        DEF Map!Next, Map!Serve, Map!Receive

(* A page of which nothing is in flight shows the table.                   *)
LEMMA SettledMapsRight ==
  ASSUME MapInv
  PROVE  Map!SettledMappingsAreRight
<1> SUFFICES ASSUME Map!InFlight = {}, ~ doubt
             PROVE  unmapped = Map!unmapped_fuel(mapping) /\ lists = Map!MappedTo(mapping)
  BY DEF Map!SettledMappingsAreRight
<1>1. PICK H \in [Nat -> Map!Mapping] : Followed(H)
  BY DEF MapInv
<1>2. SaveAnswers = {}
  BY DEF Map!InFlight, SaveAnswers
<1>3. Told(H) /\ Orderly(H)
  BY <1>1, <1>2 DEF Followed, InTurn
<1>4. stamp \in Nat /\ fresh \in Nat /\ fresh <= stamp
  BY <1>3, MapNumbers DEF MapInv
<1>5. fresh = stamp
  <2>1. SUFFICES ASSUME fresh < stamp PROVE FALSE
    BY <1>4
  <2>2. stamp \in fresh + 1 .. stamp
    BY <1>4, <2>1
  <2> QED BY <1>2, <1>3, <2>2 DEF Told
<1> QED BY <1>3, <1>5 DEF Told, Orderly
=============================================================================
