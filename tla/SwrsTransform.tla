---------------------------- MODULE SwrsTransform ----------------------------
(***************************************************************************)
(* The materialized views of swrs_transform: what each takes from a report *)
(* and by which columns its rows are told apart.                           *)
(*                                                                         *)
(* A report is a tree.  An element is its path from ReportData: a sequence *)
(* of steps <<tag, place among its siblings>>.  A document d has its       *)
(* elements (a prefix closed set), text (the columns that are read off an  *)
(* element, a record per element that has any; "" where there is none),    *)
(* and details (those of ReportDetails, ReportStatus, Facility and         *)
(* Organisation).                                                          *)
(*                                                                         *)
(* The columns that are only carried along (names, addresses, quantities   *)
(* of a unit and so on) are left out.  The id of a row, row_number() in    *)
(* every view, is <<file, element>>: it names the row and nothing else.    *)
(***************************************************************************)
EXTENDS Naturals, FiniteSets, Sequences

(* The value null, which is equal to nothing when tables are joined.       *)
Null == <<>>

-----------------------------------------------------------------------------
(* XPath, as far as the views use it.                                      *)

Tag(e) == IF e = <<>> THEN "ReportData" ELSE e[Len(e)][1]
Above(e, n) == SubSeq(e, 1, Len(e) - n)
Parent(e) == Above(e, 1)

(* ancestor-or-self::tag, ancestor::tag                                    *)
SelfOrAncestor(e, tag) ==
  {SubSeq(e, 1, n) : n \in {m \in 1 .. Len(e) : e[m][1] = tag}}
Ancestor(e, tag) == SelfOrAncestor(Parent(e), tag)

Children(d, S) == {x \in d.elements \ {<<>>} : Parent(x) \in S}

(* The siblings before an element of S.                                    *)
Preceding(d, S) ==
  {x \in d.elements \ {<<>>} :
     \E e \in S \ {<<>>} :
       Parent(x) = Parent(e) /\ x[Len(x)][2] < e[Len(e)][2]}

(* count(S/preceding-sibling::tag)                                         *)
Index(d, S, tag) == Cardinality({x \in Preceding(d, S) : Tag(x) = tag})

(* Document order, and the name of the first element of S.                 *)
Before(x, y) ==
  \E n \in 1 .. Len(y) :
    \/ Len(x) = n - 1 /\ x = SubSeq(y, 1, n - 1)
    \/ /\ Len(x) >= n
       /\ SubSeq(x, 1, n - 1) = SubSeq(y, 1, n - 1)
       /\ x[n][2] < y[n][2]
Name(S) ==
  IF S = {} THEN "" ELSE Tag(CHOOSE x \in S : \A y \in S : x = y \/ Before(x, y))

-----------------------------------------------------------------------------
(* The columns the joins compare.                                          *)

IndexedTag == {"Process", "SubProcess", "Units", "Unit", "Substance", "Fuel"}

(* process_idx, sub_process_idx, units_idx, unit_idx, substance_idx and    *)
(* fuel_idx: each counts the siblings before the ancestor of that name,    *)
(* and is 0 when there is no such ancestor.                                *)
Position(d, e) == [tag \in IndexedTag |-> Index(d, SelfOrAncestor(e, tag), tag)]

(* substances_idx                                                          *)
SubstancesIndex(d, e) ==
  Cardinality(Preceding(d, {Parent(s) : s \in Ancestor(e, "Substance")}))

(* activity_name, of the views that name the parent of the process.        *)
ProcessOwner(e) == Name({Parent(p) : p \in Ancestor(e, "Process")})

(* activity_name and sub_activity_name, of those that name the children    *)
(* and the grandchildren of the ancestor ActivityData: the first of each,  *)
(* wherever e is below them.                                               *)
FirstActivity(d, e) == Name(Children(d, Ancestor(e, "ActivityData")))
FirstSubActivity(d, e) ==
  Name(Children(d, Children(d, Ancestor(e, "ActivityData"))))

(* unit_name and sub_unit_name of a fuel, and of an emission.              *)
AboveSubstance(e, n) == {Above(s, n) : s \in Ancestor(e, "Substance")}
AboveSubstances(e, n) == {Above(s, n) : s \in Ancestor(e, "Substances")}
FuelUnitNames(e) == <<Name(AboveSubstance(e, 3)), Name(AboveSubstance(e, 2))>>
EmissionUnitNames(e) ==
  <<Name(AboveSubstances(e, 2) \cup AboveSubstance(e, 3)),
    Name(AboveSubstances(e, 1) \cup AboveSubstance(e, 2))>>

(* name(./ancestor::VerifyTombstone|./ancestor::RegistrationData)          *)
PathContext(e) ==
  Name(Ancestor(e, "VerifyTombstone") \cup Ancestor(e, "RegistrationData"))

-----------------------------------------------------------------------------
(* The views.  Each is the set of its rows, for the documents in docs.     *)

Text(d, e) == IF e \in DOMAIN d.text THEN d.text[e] ELSE [none |-> TRUE]

(* One row per document.                                                   *)
PerReport(docs) ==
  {[file |-> f, elem |-> <<>>, details |-> docs[f].details] : f \in DOMAIN docs}
ReportView(docs) == PerReport(docs)
OrganisationView(docs) == PerReport(docs)
FacilityView(docs) == PerReport(docs)

(* One row per element e of a document d with Selected(d, e); key is what  *)
(* the unique index of the view is on.                                     *)
PerElement(docs, Selected(_, _), Key(_, _)) ==
  UNION {{[file |-> f, elem |-> e, text |-> Text(docs[f], e),
           key |-> Key(docs[f], e)] :
            e \in {x \in docs[f].elements : Selected(docs[f], x)}} :
         f \in DOMAIN docs}

(* The columns of rows that belong to a process.                           *)
ProcessKey(d, e) ==
  [activity |-> ProcessOwner(e), at |-> Position(d, e)]

ActivityView(docs) ==
  PerElement(docs, LAMBDA d, e : Tag(e) = "SubProcess", ProcessKey)

UnitView(docs) == PerElement(docs, LAMBDA d, e : Tag(e) = "Unit", ProcessKey)

FuelKey(d, e) ==
  [activity |-> FirstActivity(d, e), subActivity |-> FirstSubActivity(d, e),
   unitNames |-> FuelUnitNames(e), at |-> Position(d, e),
   substances |-> SubstancesIndex(d, e)]
FuelView(docs) == PerElement(docs, LAMBDA d, e : Tag(e) = "Fuel", FuelKey)

(* fuel_name: what the emissions belong to.                                *)
EmissionOwner(e, list) ==
  Name({x \in {Parent(y) : y \in Ancestor(e, "Emissions")} :
          Tag(x) \notin {"Substance", "Substances"}}
       \cup ({Parent(e)} \ SelfOrAncestor(e, list)))
\* Mutant of EmissionKey: fuel_idx counts the emissions before this one.
EmissionKeyMiscounted(d, e) ==
  [activity |-> FirstActivity(d, e), subActivity |-> FirstSubActivity(d, e),
   unitNames |-> EmissionUnitNames(e),
   at |-> [Position(d, e) EXCEPT !["Fuel"] = Index(d, {e}, "Emission")],
   substances |-> SubstancesIndex(d, e),
   owner |-> EmissionOwner(e, "Emissions"),
   emissions |-> Index(d, Ancestor(e, "Emissions"), "Emissions"),
   emission |-> Index(d, {e}, "Emission")]
EmissionKey(d, e) ==
  [activity |-> FirstActivity(d, e), subActivity |-> FirstSubActivity(d, e),
   unitNames |-> EmissionUnitNames(e), at |-> Position(d, e),
   substances |-> SubstancesIndex(d, e),
   owner |-> EmissionOwner(e, "Emissions"),
   emissions |-> Index(d, Ancestor(e, "Emissions"), "Emissions"),
   emission |-> Index(d, {e}, "Emission")]
EmissionView(docs) ==
  PerElement(docs, LAMBDA d, e : Tag(e) = "Emission", EmissionKey)

(* emissions_idx counts the EIOEmissions before an Emissions element.      *)
EioEmissionKey(d, e) ==
  [activity |-> FirstActivity(d, e), subActivity |-> FirstSubActivity(d, e),
   unitNames |-> EmissionUnitNames(e), at |-> Position(d, e),
   substances |-> SubstancesIndex(d, e),
   owner |-> EmissionOwner(e, "EIOEmissions"),
   emissions |-> Index(d, Ancestor(e, "Emissions"), "EIOEmissions"),
   emission |-> Index(d, {e}, "EIOEmission")]
EioEmissionView(docs) ==
  PerElement(docs, LAMBDA d, e : Tag(e) = "EIOEmission", EioEmissionKey)

(* The totals of an R3 report.  These rows have no indices: at is null.    *)
R3EmissionKey(d, e) ==
  [activity |-> FirstActivity(d, e), at |-> Null,
   emissions |-> Index(d, Ancestor(e, "Emissions"), "Emissions"),
   emission |-> Index(d, {e}, "TotalRow")]
R3EmissionView(docs) ==
  PerElement(docs,
             LAMBDA d, e : /\ Tag(e) = "TotalRow"
                           /\ Ancestor(e, "TotalAttributableEmissions") # {}
                           /\ d.details.type = "R3",
             R3EmissionKey)

(* Emission factors, before and after 2017.  The key of the later ones     *)
(* has no unique index; their own number counts elements of the other name. *)
FactorKey(d, e) ==
  [activity |-> FirstActivity(d, e), subActivity |-> FirstSubActivity(d, e),
   at |-> Position(d, e), substances |-> SubstancesIndex(d, e),
   factor |-> Index(d, {e}, "MeasuredEmissionFactor")]
EmissionFactorView(docs) ==
  PerElement(docs,
             LAMBDA d, e : /\ Tag(e) = "EmissionFactor"
                           /\ \E x \in Children(d, {e}) :
                                Tag(x) = "EmissionFactorAmount",
             FactorKey)
MeasuredEmissionFactorView(docs) ==
  PerElement(docs, LAMBDA d, e : Tag(e) = "MeasuredEmissionFactor", FactorKey)

(* What RegistrationData and VerifyTombstone say of the facility.          *)
ListedKey(d, e) ==
  [context |-> PathContext(e), index |-> Index(d, {e}, Tag(e))]
IdentifierView(docs) ==
  PerElement(docs, LAMBDA d, e : Tag(e) = "Identifier", ListedKey)
NaicsView(docs) ==
  PerElement(docs, LAMBDA d, e : Tag(e) = "NAICSCode", ListedKey)
PermitView(docs) ==
  PerElement(docs, LAMBDA d, e : Tag(e) = "Permit", ListedKey)
ContactView(docs) ==
  PerElement(docs,
             LAMBDA d, e : /\ Tag(e) = "Contact"
                           /\ Ancestor(e, "ConfidentialityRequest") = {},
             ListedKey)
ParentOrganisationView(docs) ==
  PerElement(docs, LAMBDA d, e : Tag(e) = "ParentOrganisation", ListedKey)

(* The unique index is on two columns more, the facility of an address of  *)
(* a facility or contact and the organisation of one of an organisation or *)
(* parent; an address is one or the other, so that one of them is null and *)
(* the index refuses nothing.                                              *)
AddressKey(d, e) ==
  [context |-> PathContext(e), type |-> Tag(Parent(e)),
   contact |-> Index(d, Ancestor(e, "Contact"), "Contact"),
   parentOrganisation |->
     Index(d, Ancestor(e, "ParentOrganisation"), "ParentOrganisation")]
AddressView(docs) ==
  PerElement(docs,
             LAMBDA d, e : Tag(e) = "Address" /\ Ancestor(e, "Stack") = {},
             AddressKey)

(* How far e is below the sub-process it describes; 0 below its units.     *)
Depth(e) ==
  LET s == Ancestor(e, "SubProcess")
      n == Len(CHOOSE x \in s : TRUE)
  IN  IF s = {} THEN 0 ELSE IF e[n + 1][1] = "Units" THEN 0 ELSE Len(e) - n
AdditionalDataKey(d, e) ==
  LET count(S) == Cardinality(Preceding(d, S))
  IN  [activity |-> ProcessOwner(e), at |-> Position(d, e),
       grandparent |-> CASE Depth(e) = 5 -> count({Above(e, 3)})
                         [] Depth(e) = 3 -> count({Parent(e)})
                         [] OTHER -> 0,
       parentIndex |-> CASE Depth(e) = 5 -> count({Parent(e)})
                         [] Depth(e) = 3 -> count(Children(d, {e}))
                         [] OTHER -> 0,
       class |-> count({e}), names |-> <<Tag(Parent(e)), Tag(e)>>]
AdditionalDataView(docs) ==
  PerElement(docs,
             LAMBDA d, e : e \in DOMAIN d.text /\ Depth(e) \in {1, 2, 3, 5},
             AdditionalDataKey)

OtherVentingView(docs) ==
  PerElement(docs,
             LAMBDA d, e : /\ Tag(e) = "OtherVentingDetails"
                           /\ \E s \in Ancestor(e, "SubProcess") :
                                Text(d, s) = [name |-> "Venting"],
             LAMBDA d, e : Null)

(* The files that are named, and those of a sub-process with comments.     *)
HistoricalAttachmentView(docs) ==
  PerElement(docs,
             LAMBDA d, e :
               /\ Tag(e) = "FileDetails"
               /\ \/ \E x \in Children(d, {e}) : Tag(x) = "UploadedFileName"
                  \/ /\ Tag(Parent(e)) = "SubProcess"
                     /\ \E x \in Children(d, {Parent(e)}) : Tag(x) = "Comments",
             LAMBDA d, e : Null)

(* The grand totals; at most one per report.                               *)
HistoricalEmissionView(docs) ==
  PerElement(docs,
             LAMBDA d, e : /\ Tag(e) = "TotalEmissions"
                           /\ Ancestor(e, "TotalEmissions") = {},
             LAMBDA d, e : Null)

-----------------------------------------------------------------------------
(* All views, by name.                                                     *)
Transformed(docs) ==
  [report |-> ReportView(docs), organisation |-> OrganisationView(docs),
   facility |-> FacilityView(docs), activity |-> ActivityView(docs),
   unit |-> UnitView(docs), fuel |-> FuelView(docs),
   emission |-> EmissionView(docs), eio_emission |-> EioEmissionView(docs),
   r3_emission |-> R3EmissionView(docs),
   emission_factor |-> EmissionFactorView(docs),
   measured_emission_factor |-> MeasuredEmissionFactorView(docs),
   identifier |-> IdentifierView(docs), naics |-> NaicsView(docs),
   permit |-> PermitView(docs), contact |-> ContactView(docs),
   parent_organisation |-> ParentOrganisationView(docs),
   address |-> AddressView(docs), additional_data |-> AdditionalDataView(docs),
   other_venting |-> OtherVentingView(docs),
   historical_report_attachment_data |-> HistoricalAttachmentView(docs),
   historical_report_emission_data |-> HistoricalEmissionView(docs)]

(* The views with a unique index on columns of the report: two rows that   *)
(* agree on them make the refresh fail.                                    *)
Indexed ==
  {"activity", "unit", "fuel", "emission", "eio_emission", "r3_emission",
   "measured_emission_factor", "identifier", "naics", "permit", "contact",
   "parent_organisation", "additional_data", "historical_report_emission_data"}
UniqueKeys(v) ==
  \A t \in Indexed :
    Cardinality({<<r.file, r.key>> : r \in v[t]}) = Cardinality(v[t])

(* The view final_report: of each facility and year, the report that was   *)
(* submitted last, without sales and ignored organisations.                *)
FinalReport(v) ==
  LET candidate == {r \in v.report : r.details.reportable}
  IN  {r.file : r \in {x \in candidate :
         \A y \in candidate :
           /\ y.details.facility = x.details.facility
           /\ y.details.year = x.details.year
           => y.details.rank <= x.details.rank}}
Final(v, t) == {r \in v[t] : r.file \in FinalReport(v)}
=============================================================================
