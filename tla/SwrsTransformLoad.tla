-------------------------- MODULE SwrsTransformLoad --------------------------
(***************************************************************************)
(* What one load does with the data: swrs_transform.load refreshes the     *)
(* views, fills the tables of swrs_load one after the other from the final *)
(* reports, and puts them in the place of swrs.  SwrsLoad has the locks,   *)
(* the transactions and the other actors around it; here are the joins     *)
(* that find what each row refers to.                                      *)
(***************************************************************************)
EXTENDS SwrsTransform

CONSTANTS
  Extract,         (* what eccc_xml_file may hold: functions to documents  *)
  FuelMapping,     (* the fuel types in ggircs_parameters.fuel_mapping     *)
  TaxedEmissionType, (* those in taxed_venting_emission_type               *)
  Attachment       (* the rows of eccc_attachment                          *)

(* Reports are trees, there are finitely many, and they are finite.  (By   *)
(* the parser: not even two siblings are at one place.)                    *)
ASSUME SwrsTransformLoadAssumption ==
  \A docs \in Extract :
    /\ IsFiniteSet(DOMAIN docs)
    /\ \A f \in DOMAIN docs :
         /\ IsFiniteSet(docs[f].elements)
         /\ \A e \in docs[f].elements :
              /\ e \in Seq(STRING \X Nat)
              /\ \A n \in 0 .. Len(e) : SubSeq(e, 1, n) \in docs[f].elements
         /\ \A x, y \in docs[f].elements \ {<<>>} :
              Parent(x) = Parent(y) /\ x[Len(x)][2] = y[Len(y)][2] => x = y

VARIABLES
  docs,     (* swrs_extract.eccc_xml_file                                  *)
  view,     (* the materialized views of swrs_transform                    *)
  tables,   (* swrs_load and swrs_history_load                             *)
  loaded,   (* how many of the load functions have returned                *)
  status,   (* "called", "loading", "returned" or "failed"                 *)
  live      (* swrs and swrs_history                                       *)

vars == <<docs, view, tables, loaded, status, live>>

\* Mutant of Order: contact before the address it refers to.
OrderSwapped ==
  <<"report", "organisation", "facility", "activity", "unit", "identifier",
    "naics", "fuel", "emission", "permit", "parent_organisation", "contact",
    "address", "additional_data", "emission_factor", "other_venting",
    "report_history", "report_attachment">>

(* The load functions in the order in which they are called.               *)
Order ==
  <<"report", "organisation", "facility", "activity", "unit", "identifier",
    "naics", "fuel", "emission", "permit", "parent_organisation", "address",
    "contact", "additional_data", "emission_factor", "other_venting",
    "report_history", "report_attachment">>
Table == {Order[n] : n \in DOMAIN Order}

NoData == [t \in DOMAIN Transformed(<<>>) |-> {}]
NoRows == [t \in Table |-> {}]

-----------------------------------------------------------------------------
(* Joins.                                                                  *)

Id(r) == <<r.file, r.elem>>
Row(r, ref) == [id |-> Id(r), ref |-> ref]
FinalRows(t) == Final(view, t)

\* Mutant of Left: the join is an inner one.
LeftInner(S) == S

(* A left join: null when nothing matches, and a row for each match.       *)
Left(S) == IF S = {} THEN {Null} ELSE S
Joined(t, r, On(_, _)) ==
  Left({Id(x) : x \in {y \in view[t] : y.file = r.file /\ On(r, y)}})

(* on _r.eccc_xml_file_id = _y.eccc_xml_file_id                            *)
OfFile(t, r) == Joined(t, r, LAMBDA x, y : TRUE)

(* ... and the columns by which the rows of a process are told apart.  The *)
(* rows of an R3 report have none, and null matches nothing.               *)
SamePlace(x, y, tags) ==
  /\ x.key.at # Null
  /\ x.key.activity = y.key.activity
  /\ \A tag \in tags : x.key.at[tag] = y.key.at[tag]

InActivity(x, y) == SamePlace(x, y, {"Process", "SubProcess"})
InUnit(x, y) == SamePlace(x, y, {"Process", "SubProcess", "Units", "Unit"})
InFuel(x, y) ==
  /\ SamePlace(x, y, IndexedTag)
  /\ x.key.subActivity = y.key.subActivity
  /\ x.key.substances = y.key.substances
InNamedFuel(x, y) == InFuel(x, y) /\ x.key.unitNames = y.key.unitNames

ActivityOf(r) == Joined("activity", r, InActivity)
UnitOf(r) == Joined("unit", r, InUnit)
FuelOf(r) == Joined("fuel", r, InFuel)
NamedFuelOf(r) == Joined("fuel", r, InNamedFuel)

(* ggircs_parameters.fuel_mapping                                          *)
Mapped(types) == Left({<<"fuel_mapping", t>> : t \in types \cap FuelMapping})

-----------------------------------------------------------------------------
(* The load functions: the rows that each inserts for a row of its view.   *)
LoadReport(r) == {Row(r, <<>>)}

LoadOrganisation(r) ==
  {Row(r, [report |-> p]) : p \in OfFile("report", r)}

\* Mutant of LfoFacility: reporting_period_duration is not compared.
LfoFacilityAnyYear(r) ==
  Left({Id(x) : x \in {y \in FinalRows("facility") :
    /\ y.details.facilityType = "LFO"
    /\ y.details.organisation = r.details.organisation
    /\ r.details.facilityType \in {"IF_a", "IF_b", "L_c"}}})

(* The final LFO reports of the organisation for the year.                 *)
LfoFacility(r) ==
  Left({Id(x) : x \in {y \in FinalRows("facility") :
    /\ y.details.facilityType = "LFO"
    /\ y.details.organisation = r.details.organisation
    /\ y.details.year = r.details.year
    /\ r.details.facilityType \in {"IF_a", "IF_b", "L_c"}}})

LoadFacility(r) ==
  {Row(r, [organisation |-> o, report |-> p, parent_facility |-> l]) :
      o \in OfFile("organisation", r), p \in OfFile("report", r),
      l \in LfoFacility(r)}

LoadActivity(r) ==
  {Row(r, [facility |-> f, report |-> p]) :
      f \in OfFile("facility", r), p \in OfFile("report", r)}

LoadUnit(r) ==
  {Row(r, [activity |-> a]) : a \in ActivityOf(r)}

(* The identifiers of a facility that give its BCGHGID.                    *)
Bcghgid(f, context) ==
  {i \in view.identifier :
     i.file = f /\ i.key.context = context
     /\ i.text.type = "BCGHGID" /\ i.text.value # ""}
GivesBcghgid(r) ==
  \/ /\ r \in Bcghgid(r.file, "RegistrationData")
     /\ Bcghgid(r.file, "VerifyTombstone") = {}
  \/ r \in Bcghgid(r.file, "VerifyTombstone")

BcghgidOf(r) ==
  Left({x.id : x \in {y \in tables.facility :
                        y.id[1] = r.file /\ GivesBcghgid(r)}})

LoadIdentifier(r) ==
  {Row(r, [facility_bcghgid |-> b, facility |-> f, report |-> p]) :
      b \in BcghgidOf(r), f \in OfFile("facility", r),
      p \in OfFile("report", r)}

(* "select id ... is null" is an error when there are two to select from.  *)
SubqueryFails(t) ==
  t = "identifier" /\ \E r \in FinalRows("identifier") :
    /\ r \in Bcghgid(r.file, "RegistrationData")
    /\ Cardinality(Bcghgid(r.file, "VerifyTombstone")) > 1

LoadNaics(r) ==
  {Row(r, [facility |-> f, report |-> p,
           registration_data_facility |->
             IF r.key.context = "RegistrationData" THEN f ELSE Null]) :
      f \in OfFile("facility", r), p \in OfFile("report", r)}

LoadFuel(r) ==
  {Row(r, [report |-> p, unit |-> u, fuel_mapping |-> m]) :
      p \in OfFile("report", r), u \in UnitOf(r),
      m \in Mapped({r.text.type})}

(* The primary code of the registration, or, when it has more than one,    *)
(* the code of the tombstone.                                              *)
PrimaryNaics(f) ==
  {n \in view.naics : /\ n.file = f
                      /\ n.key.context = "RegistrationData"
                      /\ n.text.priority = "Primary"}
IsNaicsOf(r, n) ==
  \/ n \in PrimaryNaics(r.file) /\ Cardinality(PrimaryNaics(r.file)) < 2
  \/ /\ n.key.context = "VerifyTombstone" /\ n.text.code # ""
     /\ Cardinality(PrimaryNaics(r.file)) > 1
NaicsOf(r) == Joined("naics", r, IsNaicsOf)

(* What an emission is taxed as: flared, vented, or nothing.  Its activity *)
(* is one at most: the index of the view is on what they are joined by.    *)
Flared(r) ==
  /\ r.text.gas \in {"CO2nonbio", "CO2bioC"}    (* like 'CO2%' *)
  /\ \E a \in view.activity :
       a.file = r.file /\ InActivity(r, a) /\ a.text = [name |-> "Flaring"]
Vented(r) == r.text.gas = "CH4" /\ r.text.type \in TaxedEmissionType
TaxedAs(r) ==
  {t \in {"Flared Natural Gas CO2", "Vented Natural Gas CH4"} :
     \/ t = "Flared Natural Gas CO2" /\ Flared(r)
     \/ t = "Vented Natural Gas CH4" /\ Vented(r)}

LoadEmission(r) ==
  {Row(r, [activity |-> a, facility |-> f, fuel |-> l, naics |-> n,
           fuel_mapping |-> m, organisation |-> o, report |-> p,
           unit |-> u]) :
      a \in ActivityOf(r), f \in OfFile("facility", r),
      l \in NamedFuelOf(r), n \in NaicsOf(r), m \in Mapped(TaxedAs(r)),
      o \in OfFile("organisation", r), p \in OfFile("report", r),
      u \in UnitOf(r)}

LoadPermit(r) ==
  {Row(r, [report |-> p, facility |-> f]) :
      p \in OfFile("report", r), f \in OfFile("facility", r)}

LoadParentOrganisation(r) ==
  {Row(r, [report |-> p, organisation |-> o]) :
      p \in OfFile("report", r), o \in OfFile("organisation", r)}

SameContext(x, y) ==
  /\ x.key.context = y.key.context
  /\ x.key.context \in {"RegistrationData", "VerifyTombstone"}

IsOfOrganisation(r, o) == r.key.type = "Organisation"
IsOfParent(r, o) ==
  /\ r.key.type = "ParentOrganisation"
  /\ r.key.parentOrganisation = o.key.index
  /\ SameContext(r, o)
OrganisationOf(r) == Joined("organisation", r, IsOfOrganisation)
ParentOf(r) == Joined("parent_organisation", r, IsOfParent)

LoadAddress(r) ==
  {Row(r, [facility |-> f, organisation |-> o, parent_organisation |-> q,
           report |-> p]) :
      f \in OfFile("facility", r), o \in OrganisationOf(r),
      q \in ParentOf(r), p \in OfFile("report", r)}

IsAt(r, a) ==
  /\ a.key.type = "Contact"
  /\ r.key.index = a.key.contact
  /\ SameContext(r, a)
AddressOf(r) == Joined("address", r, IsAt)

LoadContact(r) ==
  {Row(r, [address |-> a, facility |-> f, report |-> p, organisation |-> o]) :
      a \in AddressOf(r), f \in OfFile("facility", r),
      p \in OfFile("report", r), o \in OfFile("organisation", r)}

LoadAdditionalData(r) ==
  {Row(r, [activity |-> a, report |-> p]) :
      a \in ActivityOf(r), p \in OfFile("report", r)}

LoadEmissionFactor(r) ==
  {Row(r, [fuel |-> l]) : l \in FuelOf(r)}

LoadOtherVenting(r) ==
  {Row(r, [report |-> p]) : p \in OfFile("report", r)}

LoadReportHistory(r) ==
  {Row(r, [totals |-> h]) :
      h \in OfFile("historical_report_emission_data", r)}

AttachmentOf(r) ==
  LET d == docs[r.file].details
  IN  Left({<<"attachment", a>> : a \in {x \in Attachment :
        /\ x.report = d.report /\ x.zip = d.zip
        /\ "name" \in DOMAIN r.text
        /\ x.number = r.text.number /\ x.name = r.text.name}})

LoadReportAttachment(r) ==
  {Row(r, [report |-> p, attachment |-> a]) :
      p \in OfFile("report", r), a \in AttachmentOf(r)}

(* The rows of the views a function loads from: those of final reports;    *)
(* the history has every report.                                           *)
SourceRows(t) ==
  CASE t = "emission" -> FinalRows("emission") \cup FinalRows("r3_emission")
                           \cup FinalRows("eio_emission")
    [] t = "emission_factor" ->
         FinalRows("measured_emission_factor") \cup FinalRows("emission_factor")
    [] t = "report_history" -> view.report
    [] t = "report_attachment" -> view.historical_report_attachment_data
    [] OTHER -> FinalRows(t)

RowsFor(t, r) ==
  CASE t = "report" -> LoadReport(r)
    [] t = "organisation" -> LoadOrganisation(r)
    [] t = "facility" -> LoadFacility(r)
    [] t = "activity" -> LoadActivity(r)
    [] t = "unit" -> LoadUnit(r)
    [] t = "identifier" -> LoadIdentifier(r)
    [] t = "naics" -> LoadNaics(r)
    [] t = "fuel" -> LoadFuel(r)
    [] t = "emission" -> LoadEmission(r)
    [] t = "permit" -> LoadPermit(r)
    [] t = "parent_organisation" -> LoadParentOrganisation(r)
    [] t = "address" -> LoadAddress(r)
    [] t = "contact" -> LoadContact(r)
    [] t = "additional_data" -> LoadAdditionalData(r)
    [] t = "emission_factor" -> LoadEmissionFactor(r)
    [] t = "other_venting" -> LoadOtherVenting(r)
    [] t = "report_history" -> LoadReportHistory(r)
    [] t = "report_attachment" -> LoadReportAttachment(r)
Loaded(t) == UNION {RowsFor(t, r) : r \in SourceRows(t)}

-----------------------------------------------------------------------------
(* The constraints of the tables.                                          *)

(* The table a column refers to; what is not listed has no constraint, or  *)
(* one on a table that a load does not fill.                               *)
Referred(t, column) ==
  IF column \in {"parent_facility", "facility_bcghgid",
                 "registration_data_facility"} THEN "facility"
  ELSE IF t = "report_attachment" /\ column = "report" THEN "report_history"
  ELSE column

(* The primary key, which emission_factor takes from a sequence.           *)
UniqueIds(t, rows) ==
  t = "emission_factor"
  \/ Cardinality({r.id : r \in rows}) = Cardinality(rows)

(* The foreign keys, which are checked when the statement ends: the rows   *)
(* with one that points nowhere.                                           *)
Ids(t) == {r.id : r \in tables[t]}
Dangling(t, rows) ==
  {r \in rows : \E column \in DOMAIN r.ref :
     LET target == Referred(t, column)
     IN  /\ target \in Table /\ r.ref[column] # Null
         /\ r.ref[column] \notin
              IF target = t THEN {x.id : x \in rows} ELSE Ids(target)}

Insertable(t) ==
  /\ ~SubqueryFails(t)
  /\ UniqueIds(t, Loaded(t))
  /\ Dangling(t, Loaded(t)) = {}

-----------------------------------------------------------------------------
Init ==
  /\ docs \in Extract
  /\ view = NoData
  /\ tables = NoRows
  /\ loaded = 0
  /\ status = "called"
  /\ live = NoRows

(* perform transform('with data'), and clone_schema.                       *)
Transform ==
  /\ status = "called"
  /\ UniqueKeys(Transformed(docs))
  /\ view' = Transformed(docs)
  /\ tables' = NoRows
  /\ status' = "loading"
  /\ UNCHANGED <<docs, loaded, live>>

(* One round of the loops over mv_array and history_array.                 *)
LoadTable ==
  /\ status = "loading" /\ loaded < Len(Order)
  /\ LET t == Order[loaded + 1]
     IN  /\ Insertable(t)
         /\ tables' = [tables EXCEPT ![t] = Loaded(t)]
  /\ loaded' = loaded + 1
  /\ UNCHANGED <<docs, view, status, live>>

(* perform transform('with no data'); drop swrs and rename swrs_load.      *)
Publish ==
  /\ status = "loading" /\ loaded = Len(Order)
  /\ view' = NoData
  /\ live' = tables
  /\ status' = "returned"
  /\ UNCHANGED <<docs, tables, loaded>>

(* An error in a statement: the transaction is rolled back.                *)
Fail ==
  /\ \/ status = "called" /\ ~UniqueKeys(Transformed(docs))
     \/ /\ status = "loading" /\ loaded < Len(Order)
        /\ ~Insertable(Order[loaded + 1])
  /\ view' = NoData
  /\ tables' = NoRows
  /\ loaded' = 0
  /\ status' = "failed"
  /\ UNCHANGED <<docs, live>>

Next == Transform \/ LoadTable \/ Publish \/ Fail

Spec == Init /\ [][Next]_vars

-----------------------------------------------------------------------------
(* Properties.                                                             *)

(* The report files that count: reportable, and the last of their facility *)
(* and year.                                                               *)
IsLast(f) ==
  /\ docs[f].details.reportable
  /\ \A g \in DOMAIN docs :
       /\ docs[g].details.reportable
       /\ docs[g].details.facility = docs[f].details.facility
       /\ docs[g].details.year = docs[f].details.year
       => docs[g].details.rank <= docs[f].details.rank

(* The reports the load is written for.                                    *)
AtMostOne(S) == \A x, y \in S : x = y
Tagged(d, tags) == {e \in d.elements : Tag(e) \in tags}
RegularReport(d) ==
  LET of(S, context) == {e \in S : PathContext(e) = context}
      bcghgid == {e \in Tagged(d, {"Identifier"}) : d.text[e].type = "BCGHGID"}
      code == Tagged(d, {"NAICSCode"})
      primary == {e \in code : d.text[e].priority = "Primary"}
  IN  /\ AtMostOne(of(bcghgid, "VerifyTombstone"))
      /\ \/ AtMostOne(of(primary, "RegistrationData"))
         \/ AtMostOne(of(code, "VerifyTombstone"))
      /\ AtMostOne(Tagged(d, {"TotalEmissions"}))
      /\ d.details.type = "R3" =>
           AtMostOne({Parent(e) : e \in Tagged(d, {"TotalRow"})})
      /\ \A e \in Tagged(d, {"SubProcess"}) :
           AtMostOne({x \in Children(d, {e}) : Tag(x) = "FileDetails"})
Regular ==
  /\ \A f \in DOMAIN docs : RegularReport(docs[f])
  /\ \A f, g \in DOMAIN docs :
       /\ IsLast(f) /\ docs[f].details.facilityType = "LFO"
       /\ IsLast(g) /\ docs[g].details.facilityType = "LFO"
       /\ docs[f].details.organisation = docs[g].details.organisation
       /\ docs[f].details.year = docs[g].details.year
       => f = g

(* Of regular reports every load succeeds: no index, primary key, foreign  *)
(* key or subquery refuses what the views and the joins make of them.  One *)
(* report that did not load would keep all others from being loaded.       *)
LoadSucceeds == Regular => status # "failed"

(* The fuel of a factor is found without the names of its units, which the *)
(* index of the fuels is on as well: fuels differ in their places.         *)
FuelsAreApart ==
  \A D \in Extract : \A x, y \in FuelView(D) :
    x.file = y.file /\ InFuel(x, y) => x = y

(* How reports are nested.  No element of the first list is below one of   *)
(* its own level or of a higher one; an element of the first name of a     *)
(* pair is in one of the second.                                           *)
Level ==
  [RegistrationData |-> 1, VerifyTombstone |-> 1, ActivityData |-> 1,
   Process |-> 2, SubProcess |-> 3, Units |-> 4, Unit |-> 5,
   Substances |-> 6, Substance |-> 7, Fuel |-> 8,
   Emissions |-> 9, ParentOrganisation |-> 9, Contact |-> 9]
Within ==
  {<<"Unit", "SubProcess">>, <<"Fuel", "Unit">>, <<"Emission", "Unit">>,
   <<"EIOEmission", "Unit">>, <<"EmissionFactor", "Fuel">>,
   <<"MeasuredEmissionFactor", "Fuel">>}
Registered == {"RegistrationData", "VerifyTombstone"}

NestedElement(d, e) ==
  /\ \A m, n \in DOMAIN e :
       m < n /\ {e[m][1], e[n][1]} \subseteq DOMAIN Level =>
         Level[e[m][1]] < Level[e[n][1]]
  /\ \A w \in Within : Tag(e) = w[1] => Ancestor(e, w[2]) # {}
  /\ Tag(e) = "TotalRow" => Ancestor(e, "SubProcess") = {}
  (* Substances are lists of them.                                         *)
  /\ e # <<>> => (Tag(e) = "Substance" <=> Tag(Parent(e)) = "Substances")
  (* What has fuels and emissions comes first in ActivityData.             *)
  /\ Tag(e) \in {"Fuel", "Emission", "EIOEmission"} =>
       FirstActivity(d, e) = ProcessOwner(e)
  (* Addresses, and what has them.                                         *)
  /\ Tag(e) = "Address" =>
       \A tag \in {"Contact", "ParentOrganisation"} :
         Ancestor(e, tag) # {} => Tag(Parent(e)) = tag
  /\ Tag(e) = "ParentOrganisation" => PathContext(e) \in Registered
  /\ Tag(e) = "Contact" =>
       /\ PathContext(e) \in Registered <=> Ancestor(e, "ConfidentialityRequest") = {}
       /\ Ancestor(e, "Stack") = {}
       /\ AtMostOne({x \in Children(d, {e}) : Tag(x) = "Address"})
ReportsAreNested ==
  \A D \in Extract : \A f \in DOMAIN D :
    \A e \in D[f].elements : NestedElement(D[f], e)

(* How elements are told apart.  Those of one name that agree in the names *)
(* of their key are on paths of the same names; and of the elements they   *)
(* are in, only those that the key counts have siblings of their name.     *)
ByPlace ==
  {"SubProcess", "Unit", "Fuel", "Emission", "EIOEmission",
   "MeasuredEmissionFactor"}
ByContext == {"Identifier", "NAICSCode", "Permit", "Contact", "ParentOrganisation"}
Names(e) == [n \in DOMAIN e |-> e[n][1]]
Counted(tag) ==
  IF tag = "Emission" THEN IndexedTag \cup {"Emissions"}
  ELSE IF tag \in ByPlace THEN IndexedTag ELSE {}
Single(d, e) ==
  \A x \in d.elements \ {<<>>} : Parent(x) = Parent(e) /\ Tag(x) = Tag(e) => x = e
Described(d) ==
  {e \in d.elements : e \in DOMAIN d.text /\ Depth(e) \in {1, 2, 3, 5}}

ListedReport(d) ==
  /\ \A x, y \in Tagged(d, ByPlace \cup ByContext) :
       /\ Tag(x) = Tag(y)
       /\ Tag(x) \in ByPlace => ProcessOwner(x) = ProcessOwner(y)
       /\ Tag(x) \in ByContext => PathContext(x) = PathContext(y)
       /\ Tag(x) = "Emission" =>
            EmissionOwner(x, "Emissions") = EmissionOwner(y, "Emissions")
       => Names(x) = Names(y)
  /\ \A e \in Tagged(d, ByPlace \cup ByContext) : \A n \in 1 .. Len(e) - 1 :
       e[n][1] \in Counted(Tag(e)) \/ Single(d, SubSeq(e, 1, n))
  /\ \A x, y \in Described(d) :
       /\ ProcessOwner(x) = ProcessOwner(y)
       /\ Tag(x) = Tag(y) /\ Tag(Parent(x)) = Tag(Parent(y))
       => Names(x) = Names(y)
  (* What is in the first or third element below a sub-process, which are  *)
  (* not counted.                                                          *)
  /\ \A e \in Described(d) :
       LET first == Above(e, Depth(e) - 1)
       IN  /\ Depth(e) > 1 => Tag(first) = "FileDetails" \/ Single(d, first)
           /\ Depth(e) = 5 => Single(d, Above(e, 2))
  /\ Tagged(d, {"Identifier", "NAICSCode"}) \subseteq DOMAIN d.text
ReportsAreListed == \A D \in Extract : \A f \in DOMAIN D : ListedReport(D[f])

(* An attachment is told apart by what the load looks for.                 *)
AttachmentsAreApart ==
  \A a, b \in Attachment :
    /\ a.report = b.report /\ a.zip = b.zip
    /\ a.number = b.number /\ a.name = b.name
    => a = b

(* What left_join_integrity_test.sql:6-8 asks: "Ensuring we have no row    *)
(* duplication as a result of a left join"; and no row is lost.            *)
NoRowIsLostOrRepeated ==
  status = "loading" =>
    \A n \in 1 .. loaded :
      LET t == Order[n]
      IN  /\ {r.id : r \in tables[t]} = {Id(x) : x \in SourceRows(t)}
          /\ Cardinality(tables[t]) = Cardinality(SourceRows(t))

(* The columns of indices find what encloses an element in its report: its *)
(* sub-process, unit, fuel, parent organisation; and a contact its address. *)
(* (Of the emissions, those that are in a fuel or in no unit at all.)      *)
Enclosing(id, tag) ==
  LET a == Ancestor(id[2], tag)
  IN  IF a = {} THEN Null ELSE <<id[1], CHOOSE x \in a : TRUE>>
RefersToWhatEnclosesIt ==
  /\ \A r \in tables.unit \cup tables.additional_data :
       r.ref.activity = Enclosing(r.id, "SubProcess")
  /\ \A r \in tables.fuel : r.ref.unit = Enclosing(r.id, "Unit")
  /\ \A r \in tables.emission_factor : r.ref.fuel = Enclosing(r.id, "Fuel")
  /\ \A r \in tables.emission :
       Enclosing(r.id, "Unit") = Null \/ Enclosing(r.id, "Fuel") # Null =>
         /\ r.ref.fuel = Enclosing(r.id, "Fuel")
         /\ r.ref.unit = Enclosing(r.id, "Unit")
         /\ r.ref.activity = Enclosing(r.id, "SubProcess")
  /\ \A r \in tables.address :
       r.ref.parent_organisation = Enclosing(r.id, "ParentOrganisation")
  /\ \A r \in tables.contact :
       Left({<<r.id[1], x>> :
               x \in {y \in Children(docs[r.id[1]], {r.id[2]}) :
                        Tag(y) = "Address"}}) = {r.ref.address}

(* A row refers to rows of its own report only, which is a final one; but  *)
(* a facility has as its parent the LFO of its organisation in its year,   *)
(* whenever there is one, by its final report.                             *)
LfoOf(f) ==
  {g \in DOMAIN docs :
     /\ docs[f].details.facilityType \in {"IF_a", "IF_b", "L_c"}
     /\ IsLast(g) /\ docs[g].details.facilityType = "LFO"
     /\ docs[g].details.organisation = docs[f].details.organisation
     /\ docs[g].details.year = docs[f].details.year}
StaysInReport ==
  /\ \A t \in Table \ {"report_history", "report_attachment"} :
       \A r \in tables[t] :
         /\ IsLast(r.id[1])
         /\ \A column \in DOMAIN r.ref \ {"parent_facility"} :
              Referred(t, column) \in Table /\ r.ref[column] # Null =>
                r.ref[column][1] = r.id[1]
  /\ \A r \in tables.facility :
       {r.ref.parent_facility} = Left({<<g, <<>>>> : g \in LfoOf(r.id[1])})
=============================================================================
