------------------------- MODULE SwrsTransformProofs -------------------------
(***************************************************************************)
(* Theorems about what one load does with the data, for any finite number  *)
(* of finite reports, whatever their elements are.                         *)
(***************************************************************************)
EXTENDS SwrsTransformLoad, FiniteSetTheorems, SequenceTheorems,
        WellFoundedInduction, TLAPS

-----------------------------------------------------------------------------
(* Counting.                                                               *)
LEMMA OneByOne ==
  ASSUME NEW V, NEW P, IsFiniteSet(P), NEW f \in [V -> P],
         \A x, y \in V : f[x] = f[y] => x = y
  PROVE  Cardinality({f[x] : x \in V}) = Cardinality(V)
<1> DEFINE T == {f[x] : x \in V}
<1>1. f \in Injection(V, P)
  BY DEF Injection, IsInjective
<1>2. IsFiniteSet(V)
  BY <1>1, FS_Injection
<1>3. f \in Bijection(V, T)
  BY DEF Bijection, Injection, IsInjective, Surjection
<1>4. ExistsBijection(V, T)
  BY <1>3 DEF ExistsBijection
<1> QED BY <1>2, <1>4, FS_Bijection

LEMMA NoneTwice ==
  ASSUME NEW V, IsFiniteSet(V), NEW P, NEW f \in [V -> P],
         Cardinality({f[x] : x \in V}) = Cardinality(V)
  PROVE  \A x, y \in V : f[x] = f[y] => x = y
<1> DEFINE T == {f[x] : x \in V}
<1>1. f \in Surjection(V, T)
  BY DEF Surjection
<1>2. f \in Injection(V, T)
  BY <1>1, FS_Surjection
<1> QED BY <1>2 DEF Injection, IsInjective

(* The elements of all reports, by file.                                   *)
Places(D) == UNION {{<<f, e>> : e \in D[f].elements \cup {<<>>}} : f \in DOMAIN D}

LEMMA PlacesAreFinite ==
  ASSUME NEW D \in Extract
  PROVE  IsFiniteSet(Places(D))
<1> DEFINE g == [f \in DOMAIN D |-> D[f].elements \cup {<<>>}]
           G == {g[f] : f \in DOMAIN D}
<1>1. IsFiniteSet(DOMAIN D) /\ \A f \in DOMAIN D : IsFiniteSet(D[f].elements)
  BY SwrsTransformLoadAssumption
<1>2. \A f \in DOMAIN D : IsFiniteSet(g[f])
  BY <1>1, FS_Singleton, FS_Union
<1>3. g \in Surjection(DOMAIN D, G)
  BY DEF Surjection
<1>4. IsFiniteSet(G)
  BY <1>1, <1>3, FS_Surjection
<1>5. IsFiniteSet(UNION G)
  BY <1>2, <1>4, FS_UNION
<1>6. IsFiniteSet((DOMAIN D) \X UNION G)
  BY <1>1, <1>5, FS_Product
<1>7. Places(D) \subseteq (DOMAIN D) \X UNION G
  BY DEF Places
<1> QED BY <1>6, <1>7, FS_Subset

-----------------------------------------------------------------------------
(* Of each element a view has at most one row, of the element's file.      *)
Numbered(V) ==
  /\ \A x \in V : Id(x) \in Places(docs)
  /\ \A x, y \in V : Id(x) = Id(y) => x = y

ViewName == {"report", "organisation", "facility", "activity", "unit", "fuel", "emission",
  "eio_emission", "r3_emission", "emission_factor", "measured_emission_factor", "identifier",
  "naics", "permit", "contact", "parent_organisation", "address", "additional_data",
  "other_venting", "historical_report_attachment_data", "historical_report_emission_data"}

LEMMA ViewsAreNumbered ==
  ASSUME NEW t \in ViewName
  PROVE  Numbered(Transformed(docs)[t])
<1>1. \A x, y : Numbered(x) /\ y = x => Numbered(y)
  OBVIOUS
<1>report. Numbered(PerReport(docs))
  BY DEF PerReport, Numbered, Places, Id
<1>activity. Numbered(ActivityView(docs))
  BY DEF ActivityView, PerElement, Numbered, Places, Id
<1>unit. Numbered(UnitView(docs))
  BY DEF UnitView, PerElement, Numbered, Places, Id
<1>fuel. Numbered(FuelView(docs))
  BY DEF FuelView, PerElement, Numbered, Places, Id
<1>emission. Numbered(EmissionView(docs))
  BY DEF EmissionView, PerElement, Numbered, Places, Id
<1>eio. Numbered(EioEmissionView(docs))
  BY DEF EioEmissionView, PerElement, Numbered, Places, Id
<1>r3. Numbered(R3EmissionView(docs))
  BY DEF R3EmissionView, PerElement, Numbered, Places, Id
<1>factor. Numbered(EmissionFactorView(docs))
  <2>1. \A x \in EmissionFactorView(docs) : \E f \in DOMAIN docs : \E e \in docs[f].elements :
          x = [file |-> f, elem |-> e, text |-> Text(docs[f], e),
          key |-> FactorKey(docs[f], e)]
    BY DEF EmissionFactorView, PerElement
  <2> QED BY <2>1 DEF Numbered, Places, Id
<1>measured. Numbered(MeasuredEmissionFactorView(docs))
  BY DEF MeasuredEmissionFactorView, PerElement, Numbered, Places, Id
<1>identifier. Numbered(IdentifierView(docs))
  BY DEF IdentifierView, PerElement, Numbered, Places, Id
<1>naics. Numbered(NaicsView(docs))
  BY DEF NaicsView, PerElement, Numbered, Places, Id
<1>permit. Numbered(PermitView(docs))
  BY DEF PermitView, PerElement, Numbered, Places, Id
<1>contact. Numbered(ContactView(docs))
  BY DEF ContactView, PerElement, Numbered, Places, Id
<1>parent. Numbered(ParentOrganisationView(docs))
  BY DEF ParentOrganisationView, PerElement, Numbered, Places, Id
<1>address. Numbered(AddressView(docs))
  BY DEF AddressView, PerElement, Numbered, Places, Id
<1>additional. Numbered(AdditionalDataView(docs))
  BY DEF AdditionalDataView, PerElement, Numbered, Places, Id
<1>venting. Numbered(OtherVentingView(docs))
  BY DEF OtherVentingView, PerElement, Numbered, Places, Id
<1>attachment. Numbered(HistoricalAttachmentView(docs))
  <2>1. \A x \in HistoricalAttachmentView(docs) : \E f \in DOMAIN docs : \E e \in docs[f].elements :
          x = [file |-> f, elem |-> e, text |-> Text(docs[f], e), key |-> Null]
    BY DEF HistoricalAttachmentView, PerElement
  <2> QED BY <2>1 DEF Numbered, Places, Id
<1>totals. Numbered(HistoricalEmissionView(docs))
  BY DEF HistoricalEmissionView, PerElement, Numbered, Places, Id
<1> HIDE DEF Numbered
<1> QED
  BY <1>report, <1>activity, <1>unit, <1>fuel, <1>emission, <1>eio, <1>r3,
     <1>factor,
     <1>measured, <1>identifier, <1>naics, <1>permit, <1>contact, <1>parent,
     <1>address,
     <1>additional, <1>venting, <1>attachment, <1>totals
     DEF ViewName, Transformed, ReportView, OrganisationView, FacilityView

-----------------------------------------------------------------------------
(* What each table is made of.                                             *)
LEMMA TableNames ==
  ASSUME NEW t \in Table
  PROVE  t \in {"report", "organisation", "facility", "activity",
                "unit", "identifier", "naics", "fuel",
                "emission", "permit", "parent_organisation", "address",
                "contact", "additional_data", "emission_factor", "other_venting",
                "report_history", "report_attachment"}
  BY DEF Table, Order

LEMMA SourcesAre ==
  /\ SourceRows("emission") = FinalRows("emission") \cup FinalRows("r3_emission")
                                \cup FinalRows("eio_emission")
  /\ SourceRows("emission_factor") =
       FinalRows("measured_emission_factor") \cup FinalRows("emission_factor")
  /\ SourceRows("report_history") = view.report
  /\ SourceRows("report_attachment") = view.historical_report_attachment_data
  /\ \A t \in Table \ {"emission", "emission_factor", "report_history", "report_attachment"} :
       SourceRows(t) = FinalRows(t)
  BY Zenon DEF SourceRows

LEMMA TagsOfViews ==
  ASSUME view = Transformed(docs)
  PROVE  /\ \A x \in view.emission : Tag(x.elem) = "Emission"
         /\ \A x \in view.eio_emission : Tag(x.elem) = "EIOEmission"
         /\ \A x \in view.r3_emission : Tag(x.elem) = "TotalRow"
         /\ \A x \in view.emission_factor : Tag(x.elem) = "EmissionFactor"
         /\ \A x \in view.measured_emission_factor : Tag(x.elem) = "MeasuredEmissionFactor"
<1>1. \A x \in EmissionView(docs) : Tag(x.elem) = "Emission"
  BY DEF EmissionView, PerElement
<1>2. \A x \in EioEmissionView(docs) : Tag(x.elem) = "EIOEmission"
  BY DEF EioEmissionView, PerElement
<1>3. \A x \in R3EmissionView(docs) : Tag(x.elem) = "TotalRow"
  BY DEF R3EmissionView, PerElement
<1>4. \A x \in EmissionFactorView(docs) : Tag(x.elem) = "EmissionFactor"
  <2>1. \A x \in EmissionFactorView(docs) : \E f \in DOMAIN docs : \E e \in docs[f].elements :
          /\ x = [file |-> f, elem |-> e, text |-> Text(docs[f], e),
                  key |-> FactorKey(docs[f], e)]
          /\ Tag(e) = "EmissionFactor"
    BY Zenon DEF EmissionFactorView, PerElement
  <2> QED BY <2>1
<1>5. \A x \in MeasuredEmissionFactorView(docs) : Tag(x.elem) = "MeasuredEmissionFactor"
  BY DEF MeasuredEmissionFactorView, PerElement
<1> QED BY <1>1, <1>2, <1>3, <1>4, <1>5 DEF Transformed

LEMMA SourcesAreNumbered ==
  ASSUME view = Transformed(docs), NEW t \in Table
  PROVE  Numbered(SourceRows(t))
<1>1. \A v \in ViewName : Numbered(view[v]) /\ Numbered(FinalRows(v))
  BY ViewsAreNumbered DEF Numbered, FinalRows, Final
<1>2. CASE t = "emission"
  <2> DEFINE AllEmissions ==
        FinalRows("emission") \cup FinalRows("r3_emission") \cup FinalRows("eio_emission")
  <2>1. \A x, y \in AllEmissions : Id(x) = Id(y) =>
          \E v \in ViewName : x \in view[v] /\ y \in view[v]
    BY TagsOfViews DEF FinalRows, Final, Id, ViewName
  <2>2. \A x \in AllEmissions : \E v \in ViewName : x \in view[v]
    BY DEF FinalRows, Final, ViewName
  <2>3. Numbered(AllEmissions)
    BY <1>1, <2>1, <2>2 DEF Numbered
  <2> QED BY <1>2, <2>3, SourcesAre
<1>3. CASE t = "emission_factor"
  <2> DEFINE Factors == FinalRows("measured_emission_factor") \cup FinalRows("emission_factor")
  <2>1. \A x, y \in Factors : Id(x) = Id(y) =>
          \E v \in ViewName : x \in view[v] /\ y \in view[v]
    BY TagsOfViews DEF FinalRows, Final, Id, ViewName
  <2>2. \A x \in Factors : \E v \in ViewName : x \in view[v]
    BY DEF FinalRows, Final, ViewName
  <2>3. Numbered(Factors)
    BY <1>1, <2>1, <2>2 DEF Numbered
  <2> QED BY <1>3, <2>3, SourcesAre
<1>4. CASE t \in {"report_history", "report_attachment"}
  BY <1>1, <1>4, SourcesAre DEF ViewName
<1>5. CASE t \notin {"emission", "emission_factor", "report_history", "report_attachment"}
  BY <1>1, <1>5, SourcesAre, TableNames DEF ViewName
<1> QED BY <1>2, <1>3, <1>4, <1>5

LEMMA SourcesCount ==
  ASSUME docs \in Extract, NEW V, Numbered(V)
  PROVE  Cardinality({Id(x) : x \in V}) = Cardinality(V)
<1> DEFINE f == [x \in V |-> Id(x)]
<1>1. f \in [V -> Places(docs)]
  BY DEF Numbered
<1>2. \A x, y \in V : f[x] = f[y] => x = y
  BY DEF Numbered
<1>3. {f[x] : x \in V} = {Id(x) : x \in V}
  OBVIOUS
<1> HIDE DEF f
<1>4. Cardinality({f[x] : x \in V}) = Cardinality(V)
  BY <1>1, <1>2, PlacesAreFinite, OneByOne
<1> QED BY <1>3, <1>4

-----------------------------------------------------------------------------
(* A join finds a row or null, of the report of the row it is for.         *)
LEMMA JoinsFind ==
  /\ \A v, r : OfFile(v, r) # {}
  /\ \A types : Mapped(types) # {}
  /\ \A r : /\ ActivityOf(r) # {} /\ UnitOf(r) # {} /\ FuelOf(r) # {} /\ NamedFuelOf(r) # {}
            /\ NaicsOf(r) # {} /\ OrganisationOf(r) # {} /\ ParentOf(r) # {}
            /\ AddressOf(r) # {} /\ BcghgidOf(r) # {}
            /\ LfoFacility(r) # {} /\ AttachmentOf(r) # {}
<1>1. \A S : Left(S) # {}
  BY DEF Left
<1>2. \A v, r : OfFile(v, r) # {}
  BY <1>1 DEF OfFile, Joined
<1>3. \A types : Mapped(types) # {}
  BY <1>1 DEF Mapped
<1>4. \A r : ActivityOf(r) # {} /\ UnitOf(r) # {}
  BY <1>1 DEF ActivityOf, UnitOf, Joined
<1>5. \A r : FuelOf(r) # {} /\ NamedFuelOf(r) # {}
  BY <1>1 DEF FuelOf, NamedFuelOf, Joined
<1>6. \A r : NaicsOf(r) # {} /\ OrganisationOf(r) # {} /\ ParentOf(r) # {} /\ AddressOf(r) # {}
  BY <1>1 DEF NaicsOf, OrganisationOf, ParentOf, AddressOf, Joined
<1>7. \A r : BcghgidOf(r) # {} /\ LfoFacility(r) # {}
  BY <1>1 DEF BcghgidOf, LfoFacility
<1>8. \A r : AttachmentOf(r) # {}
  BY <1>1 DEF AttachmentOf
<1> QED BY <1>2, <1>3, <1>4, <1>5, <1>6, <1>7, <1>8

LEMMA RowIs ==
  \A x, ref : Row(x, ref).id = Id(x) /\ Row(x, ref).ref = ref
  BY DEF Row

(* The rows that come of a source row.                                     *)
LEMMA RowsAre ==
  ASSUME NEW r
  PROVE  /\ RowsFor("report", r) = LoadReport(r)
         /\ RowsFor("organisation", r) = LoadOrganisation(r)
         /\ RowsFor("facility", r) = LoadFacility(r)
         /\ RowsFor("activity", r) = LoadActivity(r)
         /\ RowsFor("unit", r) = LoadUnit(r)
         /\ RowsFor("identifier", r) = LoadIdentifier(r)
         /\ RowsFor("naics", r) = LoadNaics(r)
         /\ RowsFor("fuel", r) = LoadFuel(r)
         /\ RowsFor("emission", r) = LoadEmission(r)
         /\ RowsFor("permit", r) = LoadPermit(r)
         /\ RowsFor("parent_organisation", r) = LoadParentOrganisation(r)
         /\ RowsFor("address", r) = LoadAddress(r)
         /\ RowsFor("contact", r) = LoadContact(r)
         /\ RowsFor("additional_data", r) = LoadAdditionalData(r)
         /\ RowsFor("emission_factor", r) = LoadEmissionFactor(r)
         /\ RowsFor("other_venting", r) = LoadOtherVenting(r)
         /\ RowsFor("report_history", r) = LoadReportHistory(r)
         /\ RowsFor("report_attachment", r) = LoadReportAttachment(r)
  BY Zenon DEF RowsFor

-----------------------------------------------------------------------------
(* A left join loses no row: the ids of a table are those of its source.   *)
LEMMA RowsHaveTheId ==
  ASSUME NEW t \in Table, NEW x, NEW r \in RowsFor(t, x)
  PROVE  r.id = Id(x)
<1>report. r \in LoadReport(x) => r.id = Id(x)
  BY SMT DEF LoadReport, Row
<1>organisation. r \in LoadOrganisation(x) => r.id = Id(x)
  BY SMT DEF LoadOrganisation, Row
<1>facility. r \in LoadFacility(x) => r.id = Id(x)
  BY SMT DEF LoadFacility, Row
<1>activity. r \in LoadActivity(x) => r.id = Id(x)
  BY SMT DEF LoadActivity, Row
<1>unit. r \in LoadUnit(x) => r.id = Id(x)
  BY SMT DEF LoadUnit, Row
<1>identifier. r \in LoadIdentifier(x) => r.id = Id(x)
  BY SMT DEF LoadIdentifier, Row
<1>naics. r \in LoadNaics(x) => r.id = Id(x)
  BY SMT DEF LoadNaics, Row
<1>fuel. r \in LoadFuel(x) => r.id = Id(x)
  BY SMT DEF LoadFuel, Row
<1>emission. r \in LoadEmission(x) => r.id = Id(x)
  BY SMT DEF LoadEmission, Row
<1>permit. r \in LoadPermit(x) => r.id = Id(x)
  BY SMT DEF LoadPermit, Row
<1>parent_organisation. r \in LoadParentOrganisation(x) => r.id = Id(x)
  BY SMT DEF LoadParentOrganisation, Row
<1>address. r \in LoadAddress(x) => r.id = Id(x)
  BY SMT DEF LoadAddress, Row
<1>contact. r \in LoadContact(x) => r.id = Id(x)
  BY SMT DEF LoadContact, Row
<1>additional_data. r \in LoadAdditionalData(x) => r.id = Id(x)
  BY SMT DEF LoadAdditionalData, Row
<1>emission_factor. r \in LoadEmissionFactor(x) => r.id = Id(x)
  BY SMT DEF LoadEmissionFactor, Row
<1>other_venting. r \in LoadOtherVenting(x) => r.id = Id(x)
  BY SMT DEF LoadOtherVenting, Row
<1>report_history. r \in LoadReportHistory(x) => r.id = Id(x)
  BY SMT DEF LoadReportHistory, Row
<1>report_attachment. r \in LoadReportAttachment(x) => r.id = Id(x)
  BY SMT DEF LoadReportAttachment, Row
<1> QED
  BY RowsAre, TableNames, <1>report, <1>organisation, <1>facility, <1>activity,
     <1>unit, <1>identifier, <1>naics, <1>fuel, <1>emission, <1>permit,
     <1>parent_organisation, <1>address, <1>contact, <1>additional_data,
     <1>emission_factor, <1>other_venting, <1>report_history,
     <1>report_attachment

LEMMA RowsAreThere ==
  ASSUME NEW t \in Table, NEW x
  PROVE  RowsFor(t, x) # {}
<1>report. LoadReport(x) # {}
  BY JoinsFind DEF LoadReport
<1>organisation. LoadOrganisation(x) # {}
  BY JoinsFind DEF LoadOrganisation
<1>facility. LoadFacility(x) # {}
  <2>1. PICK o \in OfFile("organisation", x), p \in OfFile("report", x),
          l \in LfoFacility(x) : TRUE
    BY JoinsFind
  <2>2. Row(x, [organisation |-> o, report |-> p,
          parent_facility |-> l]) \in LoadFacility(x)
    BY DEF LoadFacility
  <2> QED BY <2>2
<1>activity. LoadActivity(x) # {}
  <2>1. PICK f \in OfFile("facility", x), p \in OfFile("report", x) : TRUE
    BY JoinsFind
  <2>2. Row(x, [facility |-> f, report |-> p]) \in LoadActivity(x)
    BY DEF LoadActivity
  <2> QED BY <2>2
<1>unit. LoadUnit(x) # {}
  BY JoinsFind DEF LoadUnit
<1>identifier. LoadIdentifier(x) # {}
  <2>1. PICK b \in BcghgidOf(x), f \in OfFile("facility", x),
          p \in OfFile("report", x) : TRUE
    BY JoinsFind
  <2>2. Row(x, [facility_bcghgid |-> b, facility |-> f,
          report |-> p]) \in LoadIdentifier(x)
    BY DEF LoadIdentifier
  <2> QED BY <2>2
<1>naics. LoadNaics(x) # {}
  <2>1. PICK f \in OfFile("facility", x), p \in OfFile("report", x) : TRUE
    BY JoinsFind
  <2>2. Row(x, [facility |-> f, report |-> p, registration_data_facility |->
               IF x.key.context = "RegistrationData" THEN f ELSE Null]) \in LoadNaics(x)
    BY DEF LoadNaics
  <2> QED BY <2>2
<1>fuel. LoadFuel(x) # {}
  <2>1. PICK p \in OfFile("report", x), u \in UnitOf(x),
          m \in Mapped({x.text.type}) : TRUE
    BY JoinsFind
  <2>2. Row(x, [report |-> p, unit |-> u, fuel_mapping |-> m]) \in LoadFuel(x)
    BY DEF LoadFuel
  <2> QED BY <2>2
<1>emission. LoadEmission(x) # {}
  <2>1. PICK a \in ActivityOf(x), f \in OfFile("facility", x),
          l \in NamedFuelOf(x), n \in NaicsOf(x), m \in Mapped(TaxedAs(x)),
          o \in OfFile("organisation", x), p \in OfFile("report", x),
          u \in UnitOf(x) : TRUE
    BY JoinsFind
  <2>2. Row(x, [activity |-> a, facility |-> f, fuel |-> l, naics |-> n,
          fuel_mapping |-> m,
               organisation |-> o, report |-> p,
               unit |-> u]) \in LoadEmission(x)
    BY DEF LoadEmission
  <2> QED BY <2>2
<1>permit. LoadPermit(x) # {}
  <2>1. PICK p \in OfFile("report", x), f \in OfFile("facility", x) : TRUE
    BY JoinsFind
  <2>2. Row(x, [report |-> p, facility |-> f]) \in LoadPermit(x)
    BY DEF LoadPermit
  <2> QED BY <2>2
<1>parent_organisation. LoadParentOrganisation(x) # {}
  <2>1. PICK p \in OfFile("report", x), o \in OfFile("organisation", x) : TRUE
    BY JoinsFind
  <2>2. Row(x, [report |-> p, organisation |-> o]) \in LoadParentOrganisation(x)
    BY DEF LoadParentOrganisation
  <2> QED BY <2>2
<1>address. LoadAddress(x) # {}
  <2>1. PICK f \in OfFile("facility", x), o \in OrganisationOf(x),
          q \in ParentOf(x), p \in OfFile("report", x) : TRUE
    BY JoinsFind
  <2>2. Row(x, [facility |-> f, organisation |-> o, parent_organisation |-> q,
          report |-> p]) \in LoadAddress(x)
    BY DEF LoadAddress
  <2> QED BY <2>2
<1>contact. LoadContact(x) # {}
  <2>1. PICK a \in AddressOf(x), f \in OfFile("facility", x),
          p \in OfFile("report", x), o \in OfFile("organisation", x) : TRUE
    BY JoinsFind
  <2>2. Row(x, [address |-> a, facility |-> f, report |-> p,
          organisation |-> o]) \in LoadContact(x)
    BY DEF LoadContact
  <2> QED BY <2>2
<1>additional_data. LoadAdditionalData(x) # {}
  <2>1. PICK a \in ActivityOf(x), p \in OfFile("report", x) : TRUE
    BY JoinsFind
  <2>2. Row(x, [activity |-> a, report |-> p]) \in LoadAdditionalData(x)
    BY DEF LoadAdditionalData
  <2> QED BY <2>2
<1>emission_factor. LoadEmissionFactor(x) # {}
  BY JoinsFind DEF LoadEmissionFactor
<1>other_venting. LoadOtherVenting(x) # {}
  BY JoinsFind DEF LoadOtherVenting
<1>report_history. LoadReportHistory(x) # {}
  BY JoinsFind DEF LoadReportHistory
<1>report_attachment. LoadReportAttachment(x) # {}
  <2>1. PICK p \in OfFile("report", x), a \in AttachmentOf(x) : TRUE
    BY JoinsFind
  <2>2. Row(x, [report |-> p, attachment |-> a]) \in LoadReportAttachment(x)
    BY DEF LoadReportAttachment
  <2> QED BY <2>2
<1> QED
  BY RowsAre, TableNames, <1>report, <1>organisation, <1>facility, <1>activity,
     <1>unit, <1>identifier, <1>naics, <1>fuel, <1>emission, <1>permit,
     <1>parent_organisation, <1>address, <1>contact, <1>additional_data,
     <1>emission_factor, <1>other_venting, <1>report_history,
     <1>report_attachment

LEMMA LoadsKeepIds ==
  ASSUME NEW t \in Table
  PROVE  {r.id : r \in Loaded(t)} = {Id(x) : x \in SourceRows(t)}
<1>1. \A r \in Loaded(t) : \E x \in SourceRows(t) : r.id = Id(x)
  BY RowsHaveTheId DEF Loaded
<1>2. \A x \in SourceRows(t) : \E r \in Loaded(t) : r.id = Id(x)
  BY RowsHaveTheId, RowsAreThere DEF Loaded
<1> QED BY <1>1, <1>2

-----------------------------------------------------------------------------
(* What a join finds is of the report of the row it is for.                *)
InReport(a, x) == a = Null \/ a[1] = x.file

LEMMA JoinsStay ==
  ASSUME NEW x
  PROVE  /\ \A v, a : a \in OfFile(v, x) => InReport(a, x)
         /\ \A a : \/ a \in ActivityOf(x) \/ a \in UnitOf(x) \/ a \in FuelOf(x)
                  \/ a \in NamedFuelOf(x) \/ a \in NaicsOf(x) \/ a \in OrganisationOf(x)
                  \/ a \in ParentOf(x) \/ a \in AddressOf(x) \/ a \in BcghgidOf(x)
                  => InReport(a, x)
<1>1. \A v, a : a \in OfFile(v, x) => InReport(a, x)
  BY DEF OfFile, Joined, Left, Id, InReport
<1>2. \A a : a \in ActivityOf(x) \/ a \in UnitOf(x) => InReport(a, x)
  BY DEF ActivityOf, UnitOf, Joined, Left, Id, InReport
<1>3. \A a : a \in FuelOf(x) \/ a \in NamedFuelOf(x) => InReport(a, x)
  BY DEF FuelOf, NamedFuelOf, Joined, Left, Id, InReport
<1>4. \A a : a \in NaicsOf(x) \/ a \in OrganisationOf(x) => InReport(a, x)
  BY DEF NaicsOf, OrganisationOf, Joined, Left, Id, InReport
<1>5. \A a : a \in ParentOf(x) \/ a \in AddressOf(x) => InReport(a, x)
  BY DEF ParentOf, AddressOf, Joined, Left, Id, InReport
<1>6. \A a : a \in BcghgidOf(x) => InReport(a, x)
  BY DEF BcghgidOf, Left, InReport
<1> QED BY <1>1, <1>2, <1>3, <1>4, <1>5, <1>6

RefersWithin(t, r, x) ==
  \A column \in DOMAIN r.ref \ {"parent_facility"} :
    Referred(t, column) \in Table => InReport(r.ref[column], x)

LEMMA RowsStay ==
  ASSUME NEW t \in Table \ {"report_history", "report_attachment"}, NEW x,
         NEW r \in RowsFor(t, x)
  PROVE  RefersWithin(t, r, x)
<1>mapping. \A s : Referred(s, "fuel_mapping") \notin Table
  BY DEF Referred, Table, Order
<1>null. InReport(Null, x)
  BY DEF InReport
<1>report. r \in LoadReport(x) => RefersWithin("report", r, x)
  BY SMT, JoinsStay DEF LoadReport, Row, RefersWithin
<1>organisation. r \in LoadOrganisation(x) => RefersWithin("organisation", r, x)
  BY SMT, JoinsStay DEF LoadOrganisation, Row, RefersWithin
<1>facility. r \in LoadFacility(x) => RefersWithin("facility", r, x)
  BY SMT, JoinsStay DEF LoadFacility, Row, RefersWithin
<1>activity. r \in LoadActivity(x) => RefersWithin("activity", r, x)
  BY SMT, JoinsStay DEF LoadActivity, Row, RefersWithin
<1>unit. r \in LoadUnit(x) => RefersWithin("unit", r, x)
  BY SMT, JoinsStay DEF LoadUnit, Row, RefersWithin
<1>identifier. r \in LoadIdentifier(x) => RefersWithin("identifier", r, x)
  BY SMT, JoinsStay DEF LoadIdentifier, Row, RefersWithin
<1>naics. r \in LoadNaics(x) => RefersWithin("naics", r, x)
  BY SMT, JoinsStay, <1>null DEF LoadNaics, Row, RefersWithin
<1>fuel. r \in LoadFuel(x) => RefersWithin("fuel", r, x)
  BY SMT, JoinsStay, <1>mapping DEF LoadFuel, Row, RefersWithin
<1>emission. r \in LoadEmission(x) => RefersWithin("emission", r, x)
  BY SMT, JoinsStay, <1>mapping DEF LoadEmission, Row, RefersWithin
<1>permit. r \in LoadPermit(x) => RefersWithin("permit", r, x)
  BY SMT, JoinsStay DEF LoadPermit, Row, RefersWithin
<1>parent_organisation. r \in LoadParentOrganisation(x)
                          => RefersWithin("parent_organisation", r, x)
  BY SMT, JoinsStay DEF LoadParentOrganisation, Row, RefersWithin
<1>address. r \in LoadAddress(x) => RefersWithin("address", r, x)
  BY SMT, JoinsStay DEF LoadAddress, Row, RefersWithin
<1>contact. r \in LoadContact(x) => RefersWithin("contact", r, x)
  BY SMT, JoinsStay DEF LoadContact, Row, RefersWithin
<1>additional_data. r \in LoadAdditionalData(x) => RefersWithin("additional_data", r, x)
  BY SMT, JoinsStay DEF LoadAdditionalData, Row, RefersWithin
<1>emission_factor. r \in LoadEmissionFactor(x) => RefersWithin("emission_factor", r, x)
  BY SMT, JoinsStay DEF LoadEmissionFactor, Row, RefersWithin
<1>other_venting. r \in LoadOtherVenting(x) => RefersWithin("other_venting", r, x)
  BY SMT, JoinsStay DEF LoadOtherVenting, Row, RefersWithin
<1> QED
  BY RowsAre, TableNames, <1>report, <1>organisation, <1>facility, <1>activity,
     <1>unit, <1>identifier, <1>naics, <1>fuel, <1>emission, <1>permit,
     <1>parent_organisation, <1>address, <1>contact, <1>additional_data,
     <1>emission_factor, <1>other_venting

LEMMA EachReportHasARow ==
  \A f \in DOMAIN docs : \E r \in PerReport(docs) : r.file = f /\ r.details = docs[f].details
<1> TAKE f \in DOMAIN docs
<1>1. [file |-> f, elem |-> <<>>, details |-> docs[f].details] \in PerReport(docs)
  BY DEF PerReport
<1> QED BY <1>1

(* The final reports of the views are the last ones.                       *)
LEMMA FinalIsLast ==
  ASSUME view = Transformed(docs)
  PROVE  FinalReport(view) = {f \in DOMAIN docs : IsLast(f)}
<1>1. view.report = PerReport(docs)
  BY DEF Transformed, ReportView
<1> DEFINE C == {r \in view.report : r.details.reportable}
<1>2. \A r \in view.report : r.file \in DOMAIN docs /\ r.details = docs[r.file].details
  BY <1>1 DEF PerReport
<1>3. \A f \in DOMAIN docs : \E r \in view.report : r.file = f /\ r.details = docs[f].details
  BY <1>1, EachReportHasARow
<1>4. FinalReport(view) =
        {r.file : r \in {x \in C : \A y \in C : /\ y.details.facility = x.details.facility
                                             /\ y.details.year = x.details.year
                                             => y.details.rank <= x.details.rank}}
  BY DEF FinalReport
<1>5. ASSUME NEW r \in C,
             \A y \in C : /\ y.details.facility = r.details.facility
                         /\ y.details.year = r.details.year
                         => y.details.rank <= r.details.rank
      PROVE  r.file \in DOMAIN docs /\ IsLast(r.file)
  <2>1. r.file \in DOMAIN docs /\ r.details = docs[r.file].details
    BY <1>2
  <2>2. docs[r.file].details.reportable
    BY <2>1, Zenon
  <2>3. ASSUME NEW g \in DOMAIN docs, docs[g].details.reportable,
               docs[g].details.facility = docs[r.file].details.facility,
               docs[g].details.year = docs[r.file].details.year
        PROVE  docs[g].details.rank <= docs[r.file].details.rank
    <3>1. PICK y \in view.report : y.file = g /\ y.details = docs[g].details
      BY <1>3
    <3>2. y \in C
      BY <3>1, <2>3, Zenon
    <3> QED BY <1>5, <2>1, <2>3, <3>1, <3>2, Zenon
  <2> QED BY <2>1, <2>2, <2>3, Zenon DEF IsLast
<1>6. ASSUME NEW f \in DOMAIN docs, IsLast(f)
      PROVE  f \in FinalReport(view)
  <2>1. PICK r \in view.report : r.file = f /\ r.details = docs[f].details
    BY <1>3
  <2>2. r \in C
    BY <1>6, <2>1, Zenon DEF IsLast
  <2>3. ASSUME NEW y \in C, y.details.facility = r.details.facility,
               y.details.year = r.details.year
        PROVE  y.details.rank <= r.details.rank
    <3>1. y.file \in DOMAIN docs /\ y.details = docs[y.file].details
      BY <1>2
    <3>2. docs[y.file].details.reportable
      BY <3>1, Zenon
    <3> QED BY <1>6, <2>1, <2>3, <3>1, <3>2, Zenon DEF IsLast
  <2> QED BY <1>4, <2>1, <2>2, <2>3, Zenon
<1>7. \A f \in FinalReport(view) : f \in DOMAIN docs /\ IsLast(f)
  BY <1>4, <1>5, Zenon
<1> QED BY <1>6, <1>7

-----------------------------------------------------------------------------
(* A report has one row in the views of reports, organisations and         *)
(* facilities.                                                             *)
LEMMA OnePerReport ==
  ASSUME view = Transformed(docs), NEW x \in view.facility
  PROVE  /\ x.file \in DOMAIN docs /\ x.details = docs[x.file].details
         /\ Id(x) = <<x.file, <<>>>>
         /\ OfFile("organisation", x) = {<<x.file, <<>>>>}
         /\ OfFile("report", x) = {<<x.file, <<>>>>}
<1>1. /\ view.report = PerReport(docs) /\ view.organisation = PerReport(docs)
      /\ view.facility = PerReport(docs)
  BY DEF Transformed, ReportView, OrganisationView, FacilityView
<1>2. x.file \in DOMAIN docs /\ x.details = docs[x.file].details /\ x.elem = <<>>
  BY <1>1 DEF PerReport
<1> DEFINE S == {y \in PerReport(docs) : y.file = x.file}
<1>3. \A y \in S : Id(y) = <<x.file, <<>>>>
  BY DEF PerReport, Id
<1>4. x \in S
  BY <1>1
<1>5. Left({Id(y) : y \in S}) = {<<x.file, <<>>>>}
  BY <1>3, <1>4 DEF Left
<1>6. OfFile("organisation", x) = Left({Id(y) : y \in S})
  BY <1>1 DEF OfFile, Joined
<1>7. OfFile("report", x) = Left({Id(y) : y \in S})
  BY <1>1 DEF OfFile, Joined
<1> QED BY <1>2, <1>5, <1>6, <1>7 DEF Id

LEMMA LfoIsOfReport ==
  ASSUME view = Transformed(docs), NEW x \in view.facility
  PROVE  LfoFacility(x) = Left({<<g, <<>>>> : g \in LfoOf(x.file)})
<1> DEFINE S == {y \in FinalRows("facility") :
                  /\ y.details.facilityType = "LFO"
                  /\ y.details.organisation = x.details.organisation
                  /\ y.details.year = x.details.year
                  /\ x.details.facilityType \in {"IF_a", "IF_b", "L_c"}}
<1>1. \A y \in view.facility : /\ y.file \in DOMAIN docs /\ y.details = docs[y.file].details
                              /\ Id(y) = <<y.file, <<>>>>
  BY OnePerReport
<1>2. \A y \in FinalRows("facility") : y \in view.facility /\ IsLast(y.file)
  BY FinalIsLast DEF FinalRows, Final
<1>3. \A g \in DOMAIN docs : IsLast(g) =>
        \E y \in FinalRows("facility") : y.file = g
  <2>1. \A g \in DOMAIN docs : \E y \in view.facility : y.file = g
    BY EachReportHasARow DEF Transformed, FacilityView
  <2> QED BY <2>1, FinalIsLast DEF FinalRows, Final
<1>4. \A y \in S : y.file \in LfoOf(x.file) /\ Id(y) = <<y.file, <<>>>>
  <2> SUFFICES ASSUME NEW y \in S
               PROVE  y.file \in LfoOf(x.file) /\ Id(y) = <<y.file, <<>>>>
    OBVIOUS
  <2>1. /\ y.file \in DOMAIN docs /\ y.details = docs[y.file].details
        /\ Id(y) = <<y.file, <<>>>> /\ IsLast(y.file) /\ x.details = docs[x.file].details
    BY <1>1, <1>2
  <2> QED BY <2>1, Zenon DEF LfoOf
<1>5. \A g \in LfoOf(x.file) : \E y \in S : Id(y) = <<g, <<>>>>
  <2> SUFFICES ASSUME NEW g \in LfoOf(x.file)
               PROVE  \E y \in S : Id(y) = <<g, <<>>>>
    OBVIOUS
  <2>1. g \in DOMAIN docs /\ IsLast(g)
    BY DEF LfoOf
  <2>2. PICK y \in FinalRows("facility") : y.file = g
    BY <2>1, <1>3
  <2>3. /\ y.details = docs[g].details /\ x.details = docs[x.file].details
        /\ Id(y) = <<g, <<>>>>
    BY <2>2, <1>1, <1>2
  <2>4. y \in S
    BY <2>2, <2>3, Zenon DEF LfoOf
  <2> QED BY <2>3, <2>4
<1>6. {Id(y) : y \in S} = {<<g, <<>>>> : g \in LfoOf(x.file)}
  BY <1>4, <1>5
<1> QED BY <1>6 DEF LfoFacility

-----------------------------------------------------------------------------
(* The facilities: a second LFO would make a second row with the same id,  *)
(* which the primary key refuses.                                          *)
LEMMA FacilitiesAreFinite ==
  ASSUME docs \in Extract, view = Transformed(docs)
  PROVE  IsFiniteSet(Loaded("facility"))
<1> DEFINE P == Places(docs) \X ({Null} \cup Places(docs))
           h == [r \in Loaded("facility") |-> <<r.id, r.ref.parent_facility>>]
<1>1. IsFiniteSet(P)
  BY PlacesAreFinite, FS_Singleton, FS_Union, FS_Product
<1>2. \A x \in FinalRows("facility") : x \in view.facility
  BY DEF FinalRows, Final
<1>3. Numbered(view.facility)
  BY ViewsAreNumbered DEF ViewName
<1>4. \A r \in Loaded("facility") : \E x \in view.facility : r \in LoadFacility(x)
  BY <1>2, SourcesAre, RowsAre DEF Loaded, Table, Order
<1>5. ASSUME NEW x \in view.facility, NEW r \in LoadFacility(x)
      PROVE  /\ r.id \in Places(docs) /\ r.id = <<x.file, <<>>>>
             /\ r.ref.parent_facility \in {Null} \cup Places(docs)
             /\ r = [id |-> r.id, ref |-> [organisation |-> r.id, report |-> r.id,
                                          parent_facility |-> r.ref.parent_facility]]
  <2>1. PICK o \in OfFile("organisation", x), p \in OfFile("report", x),
          l \in LfoFacility(x) :
          r = [id |-> Id(x), ref |-> [organisation |-> o, report |-> p,
          parent_facility |-> l]]
    BY SMT DEF LoadFacility, Row
  <2>2. o = Id(x) /\ p = Id(x) /\ Id(x) = <<x.file, <<>>>>
    BY OnePerReport
  <2>3. l \in {Null} \cup Places(docs)
    BY <1>2, <1>3 DEF LfoFacility, Left, Numbered
  <2>4. Id(x) \in Places(docs)
    BY <1>3 DEF Numbered
  <2> QED BY <2>1, <2>2, <2>3, <2>4
<1>6. h \in [Loaded("facility") -> P]
  BY <1>4, <1>5
<1>7. \A r, q \in Loaded("facility") : h[r] = h[q] => r = q
  <2> SUFFICES ASSUME NEW r \in Loaded("facility"), NEW q \in Loaded("facility"), h[r] = h[q]
               PROVE  r = q
    OBVIOUS
  <2>1. r.id = q.id /\ r.ref.parent_facility = q.ref.parent_facility
    OBVIOUS
  <2> QED BY <1>4, <1>5, <2>1, Zenon
<1>8. h \in Injection(Loaded("facility"), P)
  BY <1>6, <1>7 DEF Injection, IsInjective
<1> QED BY <1>1, <1>8, FS_Injection

LEMMA OneParent ==
  ASSUME docs \in Extract, view = Transformed(docs),
         UniqueIds("facility", Loaded("facility")),
         NEW r \in Loaded("facility")
  PROVE  {r.ref.parent_facility} = Left({<<g, <<>>>> : g \in LfoOf(r.id[1])})
<1>1. \A x \in FinalRows("facility") : x \in view.facility
  BY DEF FinalRows, Final
<1>2. PICK x \in FinalRows("facility") : r \in LoadFacility(x)
  BY SourcesAre, RowsAre DEF Loaded, Table, Order
<1>3. LoadFacility(x) \subseteq Loaded("facility")
  BY SourcesAre, RowsAre DEF Loaded, Table, Order
<1>4. PICK o \in OfFile("organisation", x), p \in OfFile("report", x), l \in LfoFacility(x) :
        r = [id |-> Id(x), ref |-> [organisation |-> o, report |-> p,
        parent_facility |-> l]]
  BY <1>2, SMT DEF LoadFacility, Row
<1> DEFINE h == [q \in Loaded("facility") |-> q.id]
           V == {q.id : q \in Loaded("facility")}
<1>5. Cardinality(V) = Cardinality(Loaded("facility"))
  BY DEF UniqueIds
<1>6. V = {h[q] : q \in Loaded("facility")} /\ h \in [Loaded("facility") -> V]
  OBVIOUS
<1>7. \A y, z \in Loaded("facility") : y.id = z.id => y = z
  <2> HIDE DEF h, V
  <2>1. \A y, z \in Loaded("facility") : h[y] = h[z] => y = z
    BY <1>5, <1>6, FacilitiesAreFinite, NoneTwice
  <2> QED BY <2>1 DEF h
<1>8. \A m \in LfoFacility(x) : m = l
  <2> TAKE m \in LfoFacility(x)
  <2> DEFINE q == [id |-> Id(x), ref |-> [organisation |-> o, report |-> p,
                                          parent_facility |-> m]]
  <2>1. q \in LoadFacility(x)
    BY SMT DEF LoadFacility, Row
  <2>2. q = r
    BY <1>3, <1>4, <1>7, <2>1
  <2> QED BY <1>4, <2>2
<1>9. LfoFacility(x) = {r.ref.parent_facility} /\ r.id = <<x.file, <<>>>>
  BY <1>1, <1>4, <1>8, OnePerReport
<1> QED BY <1>1, <1>9, LfoIsOfReport

-----------------------------------------------------------------------------
(* A factor has one fuel.                                                  *)
LEMMA FactorsAreNotRepeated ==
  ASSUME docs \in Extract, view = Transformed(docs), FuelsAreApart
  PROVE  Cardinality(Loaded("emission_factor"))
           = Cardinality({r.id : r \in Loaded("emission_factor")})
<1> DEFINE T == Loaded("emission_factor")
           h == [r \in T |-> r.id]
<1>1. ASSUME NEW x, NEW a \in FuelOf(x), NEW b \in FuelOf(x)
      PROVE  a = b
  <2> DEFINE S == {y \in view.fuel : y.file = x.file /\ InFuel(x, y)}
  <2>1. view.fuel = FuelView(docs)
    BY DEF Transformed
  <2>2. ASSUME NEW y \in S, NEW z \in S PROVE InFuel(y, z)
    <3>1. \E D, e : y.key.at = Position(D, e)
      BY <2>1 DEF FuelView, PerElement, FuelKey
    <3>2. y.key.at # Null
      BY <3>1 DEF Position, Null, IndexedTag
    <3> QED BY <3>2 DEF InFuel, SamePlace
  <2>3. \A y, z \in S : y = z
    BY <2>1, <2>2 DEF FuelsAreApart
  <2>4. FuelOf(x) = Left({Id(y) : y \in S})
    BY DEF FuelOf, Joined
  <2> QED BY <2>3, <2>4 DEF Left
<1>2. \A r \in T : \E x \in SourceRows("emission_factor") : r \in LoadEmissionFactor(x)
  BY RowsAre DEF Loaded
<1>3. \A x, r : r \in LoadEmissionFactor(x) =>
        \E l \in FuelOf(x) : r = [id |-> Id(x), ref |-> [fuel |-> l]]
  BY SMT DEF LoadEmissionFactor, Row
<1>4. Numbered(SourceRows("emission_factor"))
  BY SourcesAreNumbered DEF Table, Order
<1>5. \A r, q \in T : h[r] = h[q] => r = q
  <2> SUFFICES ASSUME NEW r \in T, NEW q \in T, r.id = q.id
               PROVE  r = q
    OBVIOUS
  <2>1. PICK x \in SourceRows("emission_factor") : r \in LoadEmissionFactor(x)
    BY <1>2
  <2>2. PICK y \in SourceRows("emission_factor") : q \in LoadEmissionFactor(y)
    BY <1>2
  <2>3. PICK l \in FuelOf(x) : r = [id |-> Id(x), ref |-> [fuel |-> l]]
    BY <1>3, <2>1
  <2>4. PICK m \in FuelOf(y) : q = [id |-> Id(y), ref |-> [fuel |-> m]]
    BY <1>3, <2>2
  <2>5. x = y
    BY <1>4, <2>1, <2>2, <2>3, <2>4 DEF Numbered
  <2> QED BY <1>1, <2>3, <2>4, <2>5
<1>6. h \in [T -> Places(docs)]
  <2>1. \A r \in T : r.id \in Places(docs)
    BY <1>2, <1>3, <1>4 DEF Numbered
  <2> QED BY <2>1
<1>7. {h[r] : r \in T} = {r.id : r \in T}
  OBVIOUS
<1> HIDE DEF h, T
<1>8. Cardinality({h[r] : r \in T}) = Cardinality(T)
  BY <1>5, <1>6, PlacesAreFinite, OneByOne
<1> QED BY <1>7, <1>8 DEF T

-----------------------------------------------------------------------------
(* The invariant: while a load runs the views are those of its reports,    *)
(* and each table that is filled has the rows of its source, once.         *)
Complete(t) ==
  /\ {r.id : r \in tables[t]} = {Id(x) : x \in SourceRows(t)}
  /\ Cardinality(tables[t]) = Cardinality(SourceRows(t))

Computed ==
  /\ status = "loading" => view = Transformed(docs)
  /\ status = "called" => loaded = 0

LEMMA TablesInOrder ==
  Len(Order) \in Nat /\ \A n \in 1 .. Len(Order) : Order[n] \in Table
  BY DEF Order, Table

Inv ==
  /\ docs \in Extract
  /\ loaded \in Nat
  /\ tables = [t \in Table |-> tables[t]]
  /\ Computed

LEMMA InvHolds == Spec => []Inv
<1>1. Init => Inv
  BY DEF Init, Inv, Computed, NoRows
<1>2. Inv /\ [Next]_vars => Inv'
  <2> SUFFICES ASSUME Inv, [Next]_vars PROVE Inv'
    OBVIOUS
  <2> USE DEF Inv, Computed
  <2>1. CASE Transform
    BY <2>1 DEF Transform, NoRows
  <2>2. CASE LoadTable
    <3>1. tables' = [tables EXCEPT ![Order[loaded + 1]] = Loaded(Order[loaded + 1])]
      BY <2>2 DEF LoadTable
    <3>2. tables' = [t \in Table |-> tables'[t]]
      BY <3>1
    <3> QED BY <2>2, <3>2 DEF LoadTable
  <2>3. CASE Publish
    BY <2>3 DEF Publish
  <2>4. CASE Fail
    BY <2>4 DEF Fail, NoRows
  <2>5. CASE UNCHANGED vars
    BY <2>5 DEF vars
  <2> QED BY <2>1, <2>2, <2>3, <2>4, <2>5 DEF Next
<1> QED BY <1>1, <1>2, PTL DEF Spec

(* The table that is filled next.                                          *)
LEMMA TableIsFilled ==
  ASSUME Inv, LoadTable
  PROVE  \E t \in Table : /\ t = Order[loaded + 1] /\ view = Transformed(docs)
                         /\ UniqueIds(t, Loaded(t))
                         /\ tables' = [tables EXCEPT ![t] = Loaded(t)]
                         /\ tables'[t] = Loaded(t)
                         /\ \A s \in Table \ {t} : tables'[s] = tables[s]
<1> DEFINE t == Order[loaded + 1]
<1>1. t \in Table
  BY TablesInOrder DEF LoadTable, Inv
<1>2. UniqueIds(t, Loaded(t)) /\ tables' = [tables EXCEPT ![t] = Loaded(t)]
  BY Zenon DEF LoadTable, Insertable
<1>3. view = Transformed(docs)
  BY DEF LoadTable, Inv, Computed
<1> QED BY <1>1, <1>2, <1>3 DEF Inv

LEMMA FilledIsComplete ==
  ASSUME docs \in Extract, view = Transformed(docs), FuelsAreApart, NEW t \in Table,
         UniqueIds(t, Loaded(t))
  PROVE  /\ {r.id : r \in Loaded(t)} = {Id(x) : x \in SourceRows(t)}
         /\ Cardinality(Loaded(t)) = Cardinality(SourceRows(t))
<1>1. Cardinality({r.id : r \in Loaded(t)}) = Cardinality(Loaded(t))
  BY FactorsAreNotRepeated DEF UniqueIds
<1>2. {r.id : r \in Loaded(t)} = {Id(x) : x \in SourceRows(t)}
  BY LoadsKeepIds
<1>3. Cardinality({Id(x) : x \in SourceRows(t)}) = Cardinality(SourceRows(t))
  BY SourcesAreNumbered, SourcesCount
<1> QED BY <1>1, <1>2, <1>3

(* For any finite reports: each row of the views that a load has read so   *)
(* far is in its table once, whatever the joins found (the load functions, *)
(* and the primary keys of their tables).  Of the emission factors, which  *)
(* have no such key, this takes that no two fuels agree in what the        *)
(* factors are joined by.                                                  *)
THEOREM NoneIsLostOrRepeated ==
  ASSUME FuelsAreApart PROVE Spec => []NoRowIsLostOrRepeated
<1>1. Init => NoRowIsLostOrRepeated
  BY DEF Init, NoRowIsLostOrRepeated
<1>2. Inv /\ NoRowIsLostOrRepeated /\ [Next]_vars => NoRowIsLostOrRepeated'
  <2> SUFFICES ASSUME Inv, NoRowIsLostOrRepeated, [Next]_vars, status' = "loading",
                      NEW n \in 1 .. loaded'
               PROVE  Complete(Order[n])'
    BY DEF NoRowIsLostOrRepeated, Complete
  <2>1. CASE Transform
    BY <2>1 DEF Transform, Inv, Computed
  <2>2. CASE LoadTable
    <3>1. PICK t \in Table : /\ t = Order[loaded + 1] /\ view = Transformed(docs)
                            /\ UniqueIds(t, Loaded(t)) /\ tables'[t] = Loaded(t)
                            /\ \A s \in Table \ {t} : tables'[s] = tables[s]
      BY <2>2, TableIsFilled
    <3>2. \A s : SourceRows(s)' = SourceRows(s)
      BY <2>2 DEF LoadTable, SourceRows, FinalRows
    <3>3. Complete(t)'
      BY <3>1, <3>2, FilledIsComplete DEF Inv, Complete
    <3>4. loaded' = loaded + 1 /\ status = "loading" /\ loaded \in Nat /\ loaded < Len(Order)
      BY <2>2 DEF LoadTable, Inv
    <3>5. CASE Order[n] = t
      BY <3>3, <3>5
    <3>6. CASE Order[n] # t
      <4>1. n \in 1 .. loaded /\ Order[n] \in Table
        BY <3>1, <3>4, <3>6, TablesInOrder
      <4>2. Complete(Order[n])
        BY <3>4, <4>1 DEF NoRowIsLostOrRepeated, Complete
      <4> QED BY <3>1, <3>2, <3>6, <4>1, <4>2 DEF Complete
    <3> QED BY <3>5, <3>6
  <2>3. CASE Publish
    BY <2>3 DEF Publish
  <2>4. CASE Fail
    BY <2>4 DEF Fail
  <2>5. CASE UNCHANGED vars
    <3>1. \A s : SourceRows(s)' = SourceRows(s)
      BY <2>5 DEF vars, SourceRows, FinalRows
    <3>2. Complete(Order[n])
      BY <2>5 DEF vars, NoRowIsLostOrRepeated, Complete
    <3> QED BY <2>5, <3>1, <3>2 DEF vars, Complete
  <2> QED BY <2>1, <2>2, <2>3, <2>4, <2>5 DEF Next
<1> QED BY <1>1, <1>2, InvHolds, PTL DEF Spec

-----------------------------------------------------------------------------
(* What StaysInReport says of one table, and of the facilities.            *)
Stays(t, rows) ==
  \A r \in rows :
    /\ IsLast(r.id[1])
    /\ \A column \in DOMAIN r.ref \ {"parent_facility"} :
         Referred(t, column) \in Table /\ r.ref[column] # Null =>
           r.ref[column][1] = r.id[1]

HasItsParent(rows) ==
  \A r \in rows :
    {r.ref.parent_facility} = Left({<<g, <<>>>> : g \in LfoOf(r.id[1])})

LEMMA LoadedStays ==
  ASSUME view = Transformed(docs),
         NEW t \in Table \ {"report_history", "report_attachment"}
  PROVE  Stays(t, Loaded(t))
<1>1. \A x \in SourceRows(t) : x.file \in FinalReport(view)
  BY SourcesAre DEF FinalRows, Final
<1>2. ASSUME NEW r \in Loaded(t)
      PROVE  \E x \in SourceRows(t) : r.id = Id(x) /\ RefersWithin(t, r, x)
  <2>1. PICK x \in SourceRows(t) : r \in RowsFor(t, x)
    BY DEF Loaded
  <2> QED BY <2>1, RowsHaveTheId, RowsStay
<1> QED BY <1>1, <1>2, FinalIsLast DEF Stays, RefersWithin, InReport, Id

(* For any finite reports: a row refers to rows of its own report only,    *)
(* which is a final one, and the parent of a facility is the final report  *)
(* of the LFO of its organisation and year (load_facility and the other    *)
(* load functions, and the primary key of facility).                       *)
THEOREM ReferencesStay == Spec => []StaysInReport
<1> DEFINE All == /\ \A t \in Table \ {"report_history", "report_attachment"} :
                       Stays(t, tables[t])
                  /\ HasItsParent(tables.facility)
<1>1. Init => All
  BY DEF Init, NoRows, Stays, HasItsParent, Table, Order
<1>2. Inv /\ All /\ [Next]_vars => All'
  <2> SUFFICES ASSUME Inv, All, [Next]_vars PROVE All'
    OBVIOUS
  <2>1. "facility" \in Table
    BY DEF Table, Order
  <2>2. ASSUME tables' = NoRows PROVE All'
    BY <2>1, <2>2 DEF NoRows, Stays, HasItsParent
  <2>3. CASE Transform
    BY <2>2, <2>3 DEF Transform
  <2>4. CASE LoadTable
    <3>1. PICK t \in Table : /\ view = Transformed(docs) /\ UniqueIds(t, Loaded(t))
                            /\ tables'[t] = Loaded(t)
                            /\ \A s \in Table \ {t} : tables'[s] = tables[s]
      BY <2>4, TableIsFilled
    <3>2. docs' = docs
      BY <2>4 DEF LoadTable
    <3>3. \A f : (IsLast(f) <=> IsLast(f)') /\ LfoOf(f)' = LfoOf(f)
      BY <3>2 DEF IsLast, LfoOf
    <3>4. ASSUME NEW s \in Table \ {"report_history", "report_attachment"}
          PROVE  Stays(s, tables[s])'
      <4>1. Stays(s, tables'[s])
        BY <3>1, LoadedStays
      <4> QED BY <4>1, <3>3 DEF Stays
    <3>5. HasItsParent(tables.facility)'
      <4>1. HasItsParent(tables'["facility"])
        BY <2>1, <3>1, OneParent DEF HasItsParent, Inv
      <4> QED BY <4>1, <3>3 DEF HasItsParent
    <3> QED BY <3>4, <3>5
  <2>5. CASE Publish \/ UNCHANGED vars
    BY <2>5 DEF Publish, vars, Stays, HasItsParent, IsLast, LfoOf
  <2>6. CASE Fail
    BY <2>2, <2>6 DEF Fail
  <2> QED BY <2>3, <2>4, <2>5, <2>6 DEF Next
<1>3. All => StaysInReport
  BY DEF StaysInReport, Stays, HasItsParent
<1> QED BY <1>1, <1>2, <1>3, InvHolds, PTL DEF Spec

-----------------------------------------------------------------------------
(* Paths and their beginnings.                                             *)
Path == Seq(STRING \X Nat)
Up(e, n) == SubSeq(e, 1, n)

LEMMA UpIs ==
  ASSUME NEW e \in Path, NEW n \in 0 .. Len(e)
  PROVE  /\ Up(e, n) \in Path /\ Len(Up(e, n)) = n
         /\ \A m \in 1 .. n : Up(e, n)[m] = e[m]
         /\ \A m \in 0 .. n : Up(Up(e, n), m) = Up(e, m)
         /\ Up(e, Len(e)) = e
         /\ n > 0 => Up(e, n) # <<>> /\ Tag(Up(e, n)) = e[n][1]
<1>1. Len(e) \in Nat /\ \A m \in 1 .. Len(e) : e[m] \in STRING \X Nat
  BY ElementOfSeq, LenProperties DEF Path
<1>2. \A m \in 0 .. Len(e) :
        /\ Up(e, m) \in Path /\ Len(Up(e, m)) = m
        /\ \A i \in 1 .. m : Up(e, m)[i] = e[i]
  <2> TAKE m \in 0 .. Len(e)
  <2>1. \A i \in 1 .. m : e[i] \in STRING \X Nat
    BY <1>1
  <2> QED BY <1>1, <2>1, SubSeqProperties DEF Path, Up
<1>3. \A m \in 0 .. n : Up(Up(e, n), m) = Up(e, m)
  <2> TAKE m \in 0 .. n
  <2>1. /\ Up(e, n) \in Path /\ Len(Up(e, n)) = n /\ m \in 0 .. Len(e)
    BY <1>1, <1>2
  <2>2. \A i \in 1 .. m : Up(e, n)[i] \in STRING \X Nat
    BY <1>1, <1>2
  <2>3. /\ Up(Up(e, n), m) \in Path /\ Len(Up(Up(e, n), m)) = m
        /\ \A i \in 1 .. m : Up(Up(e, n), m)[i] = Up(e, n)[i]
    BY <2>1, <2>2, SubSeqProperties DEF Path, Up
  <2>4. \A i \in 1 .. m : Up(Up(e, n), m)[i] = Up(e, m)[i]
    BY <1>2, <2>1, <2>3
  <2> QED BY <1>2, <2>1, <2>3, <2>4, SeqEqual DEF Path
<1>4. Up(e, Len(e)) = e
  BY SubSeqFull DEF Path, Up
<1>5. n > 0 => Up(e, n) # <<>> /\ Tag(Up(e, n)) = e[n][1]
  BY <1>1, <1>2 DEF Tag
<1> QED BY <1>1, <1>2, <1>3, <1>4, <1>5

LEMMA ParentIs ==
  ASSUME NEW e \in Path, e # <<>>
  PROVE  /\ Len(e) \in Nat \ {0} /\ Parent(e) = Up(e, Len(e) - 1)
         /\ Parent(e) \in Path /\ Len(Parent(e)) = Len(e) - 1
<1>1. Len(e) \in Nat \ {0}
  BY LenProperties, EmptySeq DEF Path
<1>2. Len(e) - 1 \in 0 .. Len(e)
  BY <1>1
<1>3. Parent(e) = Up(e, Len(e) - 1)
  BY DEF Parent, Above, Up
<1> HIDE DEF Path, Up
<1>4. Up(e, Len(e) - 1) \in Path /\ Len(Up(e, Len(e) - 1)) = Len(e) - 1
  BY <1>2, UpIs
<1> QED BY <1>1, <1>3, <1>4

LEMMA AncestorIs ==
  ASSUME NEW e \in Path, NEW tag
  PROVE  /\ SelfOrAncestor(e, tag) = {Up(e, n) : n \in {m \in 1 .. Len(e) : e[m][1] = tag}}
         /\ Ancestor(e, tag) = {Up(e, n) : n \in {m \in 1 .. Len(e) - 1 : e[m][1] = tag}}
<1>1. SelfOrAncestor(e, tag) = {Up(e, n) : n \in {m \in 1 .. Len(e) : e[m][1] = tag}}
  BY DEF SelfOrAncestor, Up
<1>2. CASE e = <<>>
  <2>1. Parent(e) = <<>> /\ Len(e) = 0
    BY <1>2, SubSeqEmpty DEF Parent, Above
  <2> QED BY <1>1, <1>2, <2>1 DEF Ancestor, SelfOrAncestor
<1>3. CASE e # <<>>
  <2>1. SelfOrAncestor(Parent(e), tag) =
          {Up(Parent(e), n) : n \in {m \in 1 .. Len(e) - 1 : Parent(e)[m][1] = tag}}
    BY <1>3, ParentIs DEF SelfOrAncestor, Up
  <2>2. \A m \in 1 .. Len(e) - 1 : Parent(e)[m] = e[m] /\ Up(Parent(e), m) = Up(e, m)
    <3>1. Len(e) \in Nat \ {0} /\ Parent(e) = Up(e, Len(e) - 1)
      BY <1>3, ParentIs
    <3>2. Len(e) - 1 \in 0 .. Len(e)
      BY <3>1
    <3> QED BY <3>1, <3>2, UpIs
  <2>3. {Up(Parent(e),
  n) : n \in {m \in 1 .. Len(e) - 1 : Parent(e)[m][1] = tag}}
          = {Up(e, n) : n \in {m \in 1 .. Len(e) - 1 : e[m][1] = tag}}
    <3>1. {m \in 1 .. Len(e) - 1 : Parent(e)[m][1] = tag} = {m \in 1 .. Len(e) - 1 : e[m][1] = tag}
      BY <2>2
    <3> QED BY <2>2, <3>1
  <2> QED BY <1>1, <2>1, <2>3 DEF Ancestor
<1> QED BY <1>2, <1>3

(* What is above an element of a level is above what is in the element.    *)
Leveled(e) ==
  \A m, n \in DOMAIN e :
    m < n /\ {e[m][1], e[n][1]} \subseteq DOMAIN Level => Level[e[m][1]] < Level[e[n][1]]

LEMMA Levels ==
  /\ DOMAIN Level = {"RegistrationData", "VerifyTombstone", "ActivityData", "Process",
       "SubProcess", "Units", "Unit", "Substances", "Substance", "Fuel",
       "Emissions", "ParentOrganisation", "Contact"}
  /\ \A tag \in DOMAIN Level : Level[tag] \in Nat
  /\ Level["RegistrationData"] = 1 /\ Level["VerifyTombstone"] = 1
  /\ Level["ActivityData"] = 1 /\ Level["Process"] = 2 /\ Level["SubProcess"] = 3
  /\ Level["Units"] = 4 /\ Level["Unit"] = 5 /\ Level["Substances"] = 6
  /\ Level["Substance"] = 7 /\ Level["Fuel"] = 8
  /\ Level["Emissions"] = 9 /\ Level["ParentOrganisation"] = 9 /\ Level["Contact"] = 9
  BY DEF Level

LEMMA Inside ==
  ASSUME NEW e \in Path, Leveled(e), NEW n \in 1 .. Len(e), e[n][1] \in DOMAIN Level
  PROVE  LET a == Up(e, n)
         IN  /\ SelfOrAncestor(e, e[n][1]) = {a}
             /\ n < Len(e) => Ancestor(e, e[n][1]) = {a}
             /\ \A tag \in DOMAIN Level :
                  /\ Level[tag] <= Level[e[n][1]] =>
                       SelfOrAncestor(e, tag) = SelfOrAncestor(a, tag)
                  /\ Level[tag] < Level[e[n][1]] => Ancestor(e, tag) = Ancestor(a, tag)
                  /\ Level[tag] > Level[e[n][1]] => SelfOrAncestor(a, tag) = {}
<1> DEFINE a == Up(e, n)
           T == e[n][1]
<1>1. Len(e) \in Nat /\ DOMAIN e = 1 .. Len(e) /\ n \in Nat /\ n >= 1 /\ n <= Len(e)
  BY LenProperties DEF Path
<1>2. \A m \in 1 .. Len(e) : e[m][1] \in DOMAIN Level =>
        /\ m < n => Level[e[m][1]] < Level[T]
        /\ m > n => Level[e[m][1]] > Level[T]
  BY <1>1 DEF Leveled
<1>3. /\ a \in Path /\ Len(a) = n /\ \A m \in 1 .. n : a[m] = e[m] /\ Up(a, m) = Up(e, m)
  BY <1>1, UpIs
<1>4. \A tag : /\ SelfOrAncestor(a, tag) = {Up(a, m) : m \in {i \in 1 .. n : a[i][1] = tag}}
               /\ Ancestor(a, tag) = {Up(a, m) : m \in {i \in 1 .. n - 1 : a[i][1] = tag}}
  BY <1>3, AncestorIs
<1>5. \A tag : /\ SelfOrAncestor(a, tag) = {Up(e, m) : m \in {i \in 1 .. n : e[i][1] = tag}}
               /\ Ancestor(a, tag) = {Up(e, m) : m \in {i \in 1 .. n - 1 : e[i][1] = tag}}
  <2> TAKE tag
  <2>1. {i \in 1 .. n : a[i][1] = tag} = {i \in 1 .. n : e[i][1] = tag}
    BY <1>3
  <2>2. {i \in 1 .. n - 1 : a[i][1] = tag} = {i \in 1 .. n - 1 : e[i][1] = tag}
    BY <1>1, <1>3
  <2> QED BY <1>1, <1>3, <1>4, <2>1, <2>2
<1>6. {m \in 1 .. Len(e) : e[m][1] = T} = {n}
  BY <1>1, <1>2, Levels
<1>7. n < Len(e) => {m \in 1 .. Len(e) - 1 : e[m][1] = T} = {n}
  BY <1>1, <1>2, Levels
<1>8. SelfOrAncestor(e, T) = {a} /\ (n < Len(e) => Ancestor(e, T) = {a})
  BY <1>6, <1>7, AncestorIs
<1>9. ASSUME NEW tag \in DOMAIN Level
      PROVE  /\ Level[tag] <= Level[T] => SelfOrAncestor(e, tag) = SelfOrAncestor(a, tag)
             /\ Level[tag] < Level[T] => Ancestor(e, tag) = Ancestor(a, tag)
             /\ Level[tag] > Level[T] => SelfOrAncestor(a, tag) = {}
  <2>1. ASSUME Level[tag] <= Level[T]
        PROVE  SelfOrAncestor(e, tag) = SelfOrAncestor(a, tag)
    <3>1. {m \in 1 .. Len(e) : e[m][1] = tag} = {m \in 1 .. n : e[m][1] = tag}
      BY <1>1, <1>2, <2>1, Levels
    <3> QED BY <1>5, <3>1, AncestorIs
  <2>2. ASSUME Level[tag] < Level[T]
        PROVE  Ancestor(e, tag) = Ancestor(a, tag)
    <3>1. \A m \in 1 .. Len(e) : e[m][1] = tag => m < n
      BY <1>1, <1>2, <2>2, Levels
    <3>2. {m \in 1 .. Len(e) - 1 : e[m][1] = tag} = {m \in 1 .. n - 1 : e[m][1] = tag}
      <4>1. \A m : m \in 1 .. Len(e) - 1 /\ e[m][1] = tag <=> m \in 1 .. n - 1 /\ e[m][1] = tag
        BY <1>1, <3>1
      <4> QED BY <4>1
    <3> QED BY <1>5, <3>2, AncestorIs
  <2>3. ASSUME Level[tag] > Level[T]
        PROVE  SelfOrAncestor(a, tag) = {}
    <3>1. {m \in 1 .. n : e[m][1] = tag} = {}
      BY <1>1, <1>2, <2>3, Levels
    <3> QED BY <1>5, <3>1
  <2> QED BY <2>1, <2>2, <2>3
<1> HIDE DEF a, T
<1> QED BY <1>8, <1>9 DEF a, T

-----------------------------------------------------------------------------
(* The rows of the views.                                                  *)
LEMMA KeysAreApart ==
  ASSUME docs \in Extract, view = Transformed(docs), UniqueKeys(view), NEW t \in Indexed
  PROVE  \A x, y \in view[t] : x.file = y.file /\ x.key = y.key => x = y
<1> DEFINE k == [x \in view[t] |-> <<x.file, x.key>>]
           P == {<<x.file, x.key>> : x \in view[t]}
<1>1. Numbered(view[t])
  BY ViewsAreNumbered DEF Indexed, ViewName
<1>2. IsFiniteSet(view[t])
  <2> DEFINE i == [x \in view[t] |-> Id(x)]
  <2>1. i \in Injection(view[t], Places(docs))
    BY <1>1 DEF Numbered, Injection, IsInjective
  <2> HIDE DEF i
  <2> QED BY <2>1, PlacesAreFinite, FS_Injection
<1>3. k \in [view[t] -> P] /\ Cardinality({k[x] : x \in view[t]}) = Cardinality(view[t])
  <2>1. {k[x] : x \in view[t]} = P
    OBVIOUS
  <2>2. Cardinality(P) = Cardinality(view[t])
    BY DEF UniqueKeys
  <2> QED BY <2>1, <2>2
<1>4. \A x, y \in view[t] : k[x] = k[y] => x = y
  <2> HIDE DEF k, P
  <2> QED BY <1>2, <1>3, NoneTwice
<1> QED BY <1>4

IsElement(f, e) == f \in DOMAIN docs /\ e \in docs[f].elements

LEMMA ViewsAre ==
  ASSUME view = Transformed(docs)
  PROVE  /\ view.activity = ActivityView(docs) /\ view.unit = UnitView(docs)
         /\ view.fuel = FuelView(docs) /\ view.emission = EmissionView(docs)
         /\ view.eio_emission = EioEmissionView(docs)
         /\ view.r3_emission = R3EmissionView(docs)
         /\ view.emission_factor = EmissionFactorView(docs)
         /\ view.measured_emission_factor = MeasuredEmissionFactorView(docs)
         /\ view.contact = ContactView(docs) /\ view.address = AddressView(docs)
         /\ view.parent_organisation = ParentOrganisationView(docs)
         /\ view.additional_data = AdditionalDataView(docs)
  BY DEF Transformed

LEMMA ActivityRows ==
  /\ \A x \in ActivityView(docs) :
       /\ IsElement(x.file, x.elem) /\ Tag(x.elem) = "SubProcess"
       /\ x.key = ProcessKey(docs[x.file], x.elem)
  /\ \A f, e : IsElement(f, e) /\ Tag(e) = "SubProcess" =>
       \E x \in ActivityView(docs) : x.file = f /\ x.elem = e
<1>1. \A x \in ActivityView(docs) : \E f \in DOMAIN docs : \E e \in docs[f].elements :
        Tag(e) = "SubProcess" /\ x = [file |-> f, elem |-> e, text |-> Text(docs[f], e),
                                 key |-> ProcessKey(docs[f], e)]
  BY DEF ActivityView, PerElement
<1>2. ASSUME NEW f, NEW e, IsElement(f, e), Tag(e) = "SubProcess"
      PROVE  [file |-> f, elem |-> e, text |-> Text(docs[f], e),
              key |-> ProcessKey(docs[f], e)] \in ActivityView(docs)
  BY <1>2, SMT DEF ActivityView, PerElement, IsElement
<1>3. \A x \in ActivityView(docs) :
        /\ IsElement(x.file, x.elem) /\ Tag(x.elem) = "SubProcess"
        /\ x.key = ProcessKey(docs[x.file], x.elem)
  <2> TAKE x \in ActivityView(docs)
  <2>1. PICK f, e : /\ IsElement(f, e) /\ Tag(e) = "SubProcess"
                    /\ x = [file |-> f, elem |-> e, text |-> Text(docs[f], e),
                            key |-> ProcessKey(docs[f], e)]
    BY <1>1 DEF IsElement
  <2>2. x.file = f /\ x.elem = e /\ x.key = ProcessKey(docs[f], e)
    BY <2>1
  <2> QED BY <2>1, <2>2 DEF IsElement
<1>4. \A f, e : IsElement(f, e) /\ Tag(e) = "SubProcess" =>
        \E x \in ActivityView(docs) : x.file = f /\ x.elem = e
  <2> TAKE f, e
  <2> DEFINE x == [file |-> f, elem |-> e, text |-> Text(docs[f], e),
                   key |-> ProcessKey(docs[f], e)]
  <2>1. x.file = f /\ x.elem = e
    OBVIOUS
  <2>2. IsElement(f, e) /\ Tag(e) = "SubProcess" => x \in ActivityView(docs)
    BY <1>2
  <2> HIDE DEF x
  <2> QED BY <2>1, <2>2
<1> QED BY <1>3, <1>4

LEMMA UnitRows ==
  /\ \A x \in UnitView(docs) :
       /\ IsElement(x.file, x.elem) /\ Tag(x.elem) = "Unit"
       /\ x.key = ProcessKey(docs[x.file], x.elem)
  /\ \A f, e : IsElement(f, e) /\ Tag(e) = "Unit" =>
       \E x \in UnitView(docs) : x.file = f /\ x.elem = e
<1>1. \A x \in UnitView(docs) : \E f \in DOMAIN docs : \E e \in docs[f].elements :
        Tag(e) = "Unit" /\ x = [file |-> f, elem |-> e, text |-> Text(docs[f], e),
                                 key |-> ProcessKey(docs[f], e)]
  BY DEF UnitView, PerElement
<1>2. ASSUME NEW f, NEW e, IsElement(f, e), Tag(e) = "Unit"
      PROVE  [file |-> f, elem |-> e, text |-> Text(docs[f], e),
              key |-> ProcessKey(docs[f], e)] \in UnitView(docs)
  BY <1>2, SMT DEF UnitView, PerElement, IsElement
<1>3. \A x \in UnitView(docs) :
        /\ IsElement(x.file, x.elem) /\ Tag(x.elem) = "Unit"
        /\ x.key = ProcessKey(docs[x.file], x.elem)
  <2> TAKE x \in UnitView(docs)
  <2>1. PICK f, e : /\ IsElement(f, e) /\ Tag(e) = "Unit"
                    /\ x = [file |-> f, elem |-> e, text |-> Text(docs[f], e),
                            key |-> ProcessKey(docs[f], e)]
    BY <1>1 DEF IsElement
  <2>2. x.file = f /\ x.elem = e /\ x.key = ProcessKey(docs[f], e)
    BY <2>1
  <2> QED BY <2>1, <2>2 DEF IsElement
<1>4. \A f, e : IsElement(f, e) /\ Tag(e) = "Unit" =>
        \E x \in UnitView(docs) : x.file = f /\ x.elem = e
  <2> TAKE f, e
  <2> DEFINE x == [file |-> f, elem |-> e, text |-> Text(docs[f], e),
                   key |-> ProcessKey(docs[f], e)]
  <2>1. x.file = f /\ x.elem = e
    OBVIOUS
  <2>2. IsElement(f, e) /\ Tag(e) = "Unit" => x \in UnitView(docs)
    BY <1>2
  <2> HIDE DEF x
  <2> QED BY <2>1, <2>2
<1> QED BY <1>3, <1>4

LEMMA FuelRows ==
  /\ \A x \in FuelView(docs) :
       /\ IsElement(x.file, x.elem) /\ Tag(x.elem) = "Fuel"
       /\ x.key = FuelKey(docs[x.file], x.elem)
  /\ \A f, e : IsElement(f, e) /\ Tag(e) = "Fuel" =>
       \E x \in FuelView(docs) : x.file = f /\ x.elem = e
<1>1. \A x \in FuelView(docs) : \E f \in DOMAIN docs : \E e \in docs[f].elements :
        Tag(e) = "Fuel" /\ x = [file |-> f, elem |-> e, text |-> Text(docs[f], e),
                                 key |-> FuelKey(docs[f], e)]
  BY DEF FuelView, PerElement
<1>2. ASSUME NEW f, NEW e, IsElement(f, e), Tag(e) = "Fuel"
      PROVE  [file |-> f, elem |-> e, text |-> Text(docs[f], e),
              key |-> FuelKey(docs[f], e)] \in FuelView(docs)
  BY <1>2, SMT DEF FuelView, PerElement, IsElement
<1>3. \A x \in FuelView(docs) :
        /\ IsElement(x.file, x.elem) /\ Tag(x.elem) = "Fuel"
        /\ x.key = FuelKey(docs[x.file], x.elem)
  <2> TAKE x \in FuelView(docs)
  <2>1. PICK f, e : /\ IsElement(f, e) /\ Tag(e) = "Fuel"
                    /\ x = [file |-> f, elem |-> e, text |-> Text(docs[f], e),
                            key |-> FuelKey(docs[f], e)]
    BY <1>1 DEF IsElement
  <2>2. x.file = f /\ x.elem = e /\ x.key = FuelKey(docs[f], e)
    BY <2>1
  <2> QED BY <2>1, <2>2 DEF IsElement
<1>4. \A f, e : IsElement(f, e) /\ Tag(e) = "Fuel" =>
        \E x \in FuelView(docs) : x.file = f /\ x.elem = e
  <2> TAKE f, e
  <2> DEFINE x == [file |-> f, elem |-> e, text |-> Text(docs[f], e),
                   key |-> FuelKey(docs[f], e)]
  <2>1. x.file = f /\ x.elem = e
    OBVIOUS
  <2>2. IsElement(f, e) /\ Tag(e) = "Fuel" => x \in FuelView(docs)
    BY <1>2
  <2> HIDE DEF x
  <2> QED BY <2>1, <2>2
<1> QED BY <1>3, <1>4

LEMMA ElementsAreNested ==
  ASSUME docs \in Extract, ReportsAreNested, NEW f, NEW e, IsElement(f, e)
  PROVE  /\ e \in Path /\ NestedElement(docs[f], e) /\ Leveled(e)
         /\ \A n \in 0 .. Len(e) : IsElement(f, Up(e, n))
<1>1. e \in Path /\ \A n \in 0 .. Len(e) : IsElement(f, Up(e, n))
  BY SwrsTransformLoadAssumption DEF Path, Up, IsElement
<1>2. NestedElement(docs[f], e)
  BY DEF ReportsAreNested, IsElement
<1>3. Leveled(e)
  BY <1>2 DEF NestedElement, Leveled
<1> QED BY <1>1, <1>2, <1>3

(* The step of a path at which it enters the element it is in.             *)
Enters(f, e, T, n) ==
  /\ n \in 1 .. Len(e) /\ n < Len(e) /\ e[n][1] = T
  /\ IsElement(f, Up(e, n)) /\ Tag(Up(e, n)) = T
  /\ Ancestor(e, T) = {Up(e, n)} /\ Enclosing(<<f, e>>, T) = <<f, Up(e, n)>>

LEMMA EnclosingIs ==
  ASSUME docs \in Extract, ReportsAreNested, NEW f, NEW e, IsElement(f, e),
         NEW T \in DOMAIN Level, Ancestor(e, T) # {}
  PROVE  \E n : Enters(f, e, T, n)
<1>1. e \in Path /\ Leveled(e) /\ \A n \in 0 .. Len(e) : IsElement(f, Up(e, n))
  BY ElementsAreNested
<1>2. PICK n \in 1 .. Len(e) - 1 : e[n][1] = T
  BY <1>1, AncestorIs
<1>3. Len(e) \in Nat
  BY <1>1, LenProperties DEF Path
<1>4. n \in 1 .. Len(e) /\ n < Len(e) /\ n \in 0 .. Len(e) /\ n > 0
  BY <1>2, <1>3
<1>5. Ancestor(e, T) = {Up(e, n)}
  BY <1>1, <1>2, <1>4, Inside
<1>6. IsElement(f, Up(e, n)) /\ Tag(Up(e, n)) = T
  BY <1>1, <1>2, <1>4, UpIs
<1>7. Enclosing(<<f, e>>, T) = <<f, Up(e, n)>>
  BY <1>5 DEF Enclosing
<1> QED BY <1>2, <1>4, <1>5, <1>6, <1>7 DEF Enters

LEMMA NothingHigher ==
  ASSUME docs \in Extract, ReportsAreNested, NEW f, NEW e, IsElement(f, e),
         Tag(e) \in DOMAIN Level
  PROVE  \A tag \in DOMAIN Level :
           Level[tag] > Level[Tag(e)] => SelfOrAncestor(e, tag) = {}
<1>1. e \in Path /\ Leveled(e)
  BY ElementsAreNested
<1>2. e # <<>>
  BY Levels DEF Tag
<1>3. Len(e) \in 1 .. Len(e) /\ e[Len(e)][1] = Tag(e) /\ Up(e, Len(e)) = e
  BY <1>1, <1>2, ParentIs, UpIs DEF Tag
<1> QED BY <1>1, <1>3, Inside

LEMMA PositionIs ==
  ASSUME NEW d, NEW e
  PROVE  /\ Position(d, e) = [tag \in IndexedTag |-> Position(d, e)[tag]]
         /\ Position(d, e) # Null
         /\ \A tag \in IndexedTag :
              Position(d, e)[tag] = Index(d, SelfOrAncestor(e, tag), tag)
  BY DEF Position, Null, IndexedTag

(* The columns of a row that stand for what it is in.                      *)
InProcess(r) ==
  /\ IsElement(r.file, r.elem)
  /\ r.key.activity = ProcessOwner(r.elem)
  /\ r.key.at = Position(docs[r.file], r.elem)

LEMMA SubProcessFound ==
  ASSUME docs \in Extract, view = Transformed(docs), UniqueKeys(view), ReportsAreNested,
         NEW r, InProcess(r), Ancestor(r.elem, "SubProcess") # {}
  PROVE  ActivityOf(r) = {Enclosing(Id(r), "SubProcess")}
<1> DEFINE f == r.file
           e == r.elem
           d == docs[f]
<1>1. IsElement(f, e) /\ e \in Path /\ Leveled(e)
  BY ElementsAreNested DEF InProcess
<1>2. PICK n : Enters(f, e, "SubProcess", n)
  BY <1>1, Levels, EnclosingIs
<1> DEFINE a == Up(e, n)
<1>3. /\ Ancestor(e, "Process") = Ancestor(a, "Process")
      /\ SelfOrAncestor(e, "Process") = SelfOrAncestor(a, "Process")
      /\ SelfOrAncestor(e, "SubProcess") = SelfOrAncestor(a, "SubProcess")
  BY <1>1, <1>2, Levels, Inside DEF Enters
<1>4. PICK y \in view.activity : y.file = f /\ y.elem = a
  BY <1>2, ViewsAre, ActivityRows DEF Enters
<1>5. ASSUME NEW z \in view.activity
      PROVE  /\ z.key.activity = ProcessOwner(z.elem)
             /\ z.key.at = Position(docs[z.file], z.elem)
             /\ z.key = [activity |-> z.key.activity, at |-> z.key.at]
             /\ IsElement(z.file, z.elem) /\ Tag(z.elem) = "SubProcess"
  <2>1. /\ z.key = ProcessKey(docs[z.file], z.elem)
        /\ IsElement(z.file, z.elem) /\ Tag(z.elem) = "SubProcess"
    BY ViewsAre, ActivityRows
  <2> QED BY <2>1 DEF ProcessKey
<1>6. r.key.at = Position(d, e) /\ y.key.at = Position(d, a)
  BY <1>4, <1>5 DEF InProcess
<1>7. InActivity(r, y)
  <2>1. r.key.at # Null
    BY <1>6, PositionIs
  <2>2. r.key.activity = y.key.activity
    BY <1>3, <1>4, <1>5 DEF InProcess, ProcessOwner
  <2>3. \A tag \in {"Process", "SubProcess"} : Position(d,
  e)[tag] = Position(d, a)[tag]
    BY <1>3, PositionIs DEF IndexedTag
  <2> QED BY <1>6, <2>1, <2>2, <2>3 DEF InActivity, SamePlace
<1>8. ASSUME NEW z \in view.activity, z.file = f, InActivity(r, z)
      PROVE  z = y
  <2>1. /\ z.key.activity = y.key.activity
        /\ \A tag \in {"Process", "SubProcess"} : z.key.at[tag] = y.key.at[tag]
    BY <1>7, <1>8 DEF InActivity, SamePlace
  <2>2. z.key.at = Position(d, z.elem) /\ IsElement(f, z.elem) /\ Tag(z.elem) = "SubProcess"
    BY <1>5, <1>8
  <2>3. \A tag \in IndexedTag \ {"Process", "SubProcess"} :
          Position(d, z.elem)[tag] = Position(d, a)[tag]
    <3> TAKE tag \in IndexedTag \ {"Process", "SubProcess"}
    <3>1. tag \in DOMAIN Level /\ Level[tag] > Level["SubProcess"] /\ "SubProcess" \in DOMAIN Level
      BY Levels DEF IndexedTag
    <3>2. SelfOrAncestor(z.elem, tag) = {} /\ SelfOrAncestor(a, tag) = {}
      BY <1>2, <2>2, <3>1, NothingHigher DEF Enters
    <3> QED BY <3>2 DEF Position
  <2>4. \A tag \in IndexedTag : Position(d, z.elem)[tag] = Position(d, a)[tag]
    BY <1>6, <2>1, <2>2, <2>3
  <2>5. Position(d, z.elem) = Position(d, a)
    BY <2>4 DEF Position
  <2>6. z.key = y.key
    BY <1>5, <1>6, <2>1, <2>2, <2>5
  <2> QED BY <1>4, <1>8, <2>6, KeysAreApart DEF Indexed
<1>9. {z \in view.activity : z.file = r.file /\ InActivity(r, z)} = {y}
  BY <1>4, <1>7, <1>8
<1>10. ActivityOf(r) = Left({Id(z) : z \in {y}})
  BY <1>9 DEF ActivityOf, Joined
<1>11. Id(y) = <<f, a>> /\ Id(r) = <<f, e>>
  BY <1>4 DEF Id
<1> QED BY <1>2, <1>10, <1>11 DEF Left, Enters

LEMMA UnitFound ==
  ASSUME docs \in Extract, view = Transformed(docs), UniqueKeys(view), ReportsAreNested,
         NEW r, InProcess(r), Ancestor(r.elem, "Unit") # {}
  PROVE  UnitOf(r) = {Enclosing(Id(r), "Unit")}
<1> DEFINE f == r.file
           e == r.elem
           d == docs[f]
<1>1. IsElement(f, e) /\ e \in Path /\ Leveled(e)
  BY ElementsAreNested DEF InProcess
<1>2. PICK n : Enters(f, e, "Unit", n)
  BY <1>1, Levels, EnclosingIs
<1> DEFINE a == Up(e, n)
<1>3. /\ Ancestor(e, "Process") = Ancestor(a, "Process")
      /\ \A tag \in {"Process", "SubProcess", "Units", "Unit"} :
           SelfOrAncestor(e, tag) = SelfOrAncestor(a, tag)
  BY <1>1, <1>2, Levels, Inside DEF Enters
<1>4. PICK y \in view.unit : y.file = f /\ y.elem = a
  BY <1>2, ViewsAre, UnitRows DEF Enters
<1>5. ASSUME NEW z \in view.unit
      PROVE  /\ z.key.activity = ProcessOwner(z.elem)
             /\ z.key.at = Position(docs[z.file], z.elem)
             /\ z.key = [activity |-> z.key.activity, at |-> z.key.at]
             /\ IsElement(z.file, z.elem) /\ Tag(z.elem) = "Unit"
  <2>1. /\ z.key = ProcessKey(docs[z.file], z.elem)
        /\ IsElement(z.file, z.elem) /\ Tag(z.elem) = "Unit"
    BY ViewsAre, UnitRows
  <2> QED BY <2>1 DEF ProcessKey
<1>6. r.key.at = Position(d, e) /\ y.key.at = Position(d, a)
  BY <1>4, <1>5 DEF InProcess
<1>7. InUnit(r, y)
  <2>1. r.key.at # Null
    BY <1>6, PositionIs
  <2>2. r.key.activity = y.key.activity
    BY <1>3, <1>4, <1>5 DEF InProcess, ProcessOwner
  <2>3. \A tag \in {"Process", "SubProcess", "Units", "Unit"} : Position(d,
  e)[tag] = Position(d, a)[tag]
    BY <1>3, PositionIs DEF IndexedTag
  <2> QED BY <1>6, <2>1, <2>2, <2>3 DEF InUnit, SamePlace
<1>8. ASSUME NEW z \in view.unit, z.file = f, InUnit(r, z)
      PROVE  z = y
  <2>1. /\ z.key.activity = y.key.activity
        /\ \A tag \in {"Process", "SubProcess", "Units", "Unit"} : z.key.at[tag] = y.key.at[tag]
    BY <1>7, <1>8 DEF InUnit, SamePlace
  <2>2. z.key.at = Position(d, z.elem) /\ IsElement(f, z.elem) /\ Tag(z.elem) = "Unit"
    BY <1>5, <1>8
  <2>3. \A tag \in IndexedTag \ {"Process", "SubProcess", "Units", "Unit"} :
          Position(d, z.elem)[tag] = Position(d, a)[tag]
    <3> TAKE tag \in IndexedTag \ {"Process", "SubProcess", "Units", "Unit"}
    <3>1. tag \in DOMAIN Level /\ Level[tag] > Level["Unit"] /\ "Unit" \in DOMAIN Level
      BY Levels DEF IndexedTag
    <3>2. SelfOrAncestor(z.elem, tag) = {} /\ SelfOrAncestor(a, tag) = {}
      BY <1>2, <2>2, <3>1, NothingHigher DEF Enters
    <3> QED BY <3>2 DEF Position
  <2>4. \A tag \in IndexedTag : Position(d, z.elem)[tag] = Position(d, a)[tag]
    BY <1>6, <2>1, <2>2, <2>3
  <2>5. Position(d, z.elem) = Position(d, a)
    BY <2>4 DEF Position
  <2>6. z.key = y.key
    BY <1>5, <1>6, <2>1, <2>2, <2>5
  <2> QED BY <1>4, <1>8, <2>6, KeysAreApart DEF Indexed
<1>9. {z \in view.unit : z.file = r.file /\ InUnit(r, z)} = {y}
  BY <1>4, <1>7, <1>8
<1>10. UnitOf(r) = Left({Id(z) : z \in {y}})
  BY <1>9 DEF UnitOf, Joined
<1>11. Id(y) = <<f, a>> /\ Id(r) = <<f, e>>
  BY <1>4 DEF Id
<1> QED BY <1>2, <1>10, <1>11 DEF Left, Enters

InNamedActivity(r) ==
  /\ IsElement(r.file, r.elem)
  /\ r.key.activity = FirstActivity(docs[r.file], r.elem)
  /\ r.key.subActivity = FirstSubActivity(docs[r.file], r.elem)
  /\ r.key.at = Position(docs[r.file], r.elem)
  /\ r.key.substances = SubstancesIndex(docs[r.file], r.elem)

LEMMA FuelEncloses ==
  ASSUME docs \in Extract, view = Transformed(docs), ReportsAreNested,
         NEW r, InNamedActivity(r), NEW n, Enters(r.file, r.elem, "Fuel", n)
  PROVE  \E y \in view.fuel :
           /\ y.file = r.file /\ y.elem = Up(r.elem, n) /\ InFuel(r, y)
           /\ y.key.unitNames = FuelUnitNames(y.elem)
<1> DEFINE f == r.file
           e == r.elem
           d == docs[f]
           a == Up(e, n)
<1>1. IsElement(f, e) /\ e \in Path /\ Leveled(e)
  BY ElementsAreNested DEF InNamedActivity
<1>2. /\ Ancestor(e, "ActivityData") = Ancestor(a, "ActivityData")
      /\ Ancestor(e, "Substance") = Ancestor(a, "Substance")
      /\ \A tag \in IndexedTag : SelfOrAncestor(e, tag) = SelfOrAncestor(a, tag)
  BY <1>1, Levels, Inside DEF Enters, IndexedTag
<1>3. PICK y \in view.fuel : y.file = f /\ y.elem = a
  BY ViewsAre, FuelRows DEF Enters
<1>4. y.key = FuelKey(d, a)
  BY <1>3, ViewsAre, FuelRows
<1>5. Position(d, e) = Position(d, a)
  BY <1>2 DEF Position
<1>6. /\ FirstActivity(d, e) = FirstActivity(d, a)
      /\ FirstSubActivity(d, e) = FirstSubActivity(d, a)
      /\ SubstancesIndex(d, e) = SubstancesIndex(d, a)
  BY <1>2 DEF FirstActivity, FirstSubActivity, SubstancesIndex
<1>7. /\ y.key.activity = FirstActivity(d, a) /\ y.key.subActivity = FirstSubActivity(d, a)
      /\ y.key.at = Position(d, a) /\ y.key.substances = SubstancesIndex(d, a)
      /\ y.key.unitNames = FuelUnitNames(a)
  BY <1>4 DEF FuelKey
<1>8. InFuel(r, y)
  BY <1>5, <1>6, <1>7, PositionIs DEF InNamedActivity, InFuel, SamePlace
<1> QED BY <1>3, <1>7, <1>8

LEMMA FuelsOfAPlace ==
  ASSUME docs \in Extract, view = Transformed(docs), UniqueKeys(view),
         NEW y \in view.fuel, NEW z \in view.fuel, y.file = z.file, NEW r,
         InNamedFuel(r, y), InNamedFuel(r, z)
  PROVE  y = z
<1>1. ASSUME NEW x \in view.fuel
      PROVE  /\ x.key = [activity |-> x.key.activity, subActivity |-> x.key.subActivity,
                         unitNames |-> x.key.unitNames, at |-> x.key.at,
                         substances |-> x.key.substances]
             /\ x.key.at = [tag \in IndexedTag |-> x.key.at[tag]]
  <2>1. x.key = FuelKey(docs[x.file], x.elem)
    BY ViewsAre, FuelRows
  <2>2. x.key.at = Position(docs[x.file], x.elem)
    BY <2>1 DEF FuelKey
  <2>3. x.key.at = [tag \in IndexedTag |-> x.key.at[tag]]
    BY <2>2 DEF Position
  <2> QED BY <2>1, <2>3 DEF FuelKey
<1>2. /\ y.key.activity = z.key.activity /\ y.key.subActivity = z.key.subActivity
      /\ y.key.unitNames = z.key.unitNames /\ y.key.substances = z.key.substances
      /\ \A tag \in IndexedTag : y.key.at[tag] = z.key.at[tag]
  BY DEF InNamedFuel, InFuel, SamePlace
<1>3. y.key.at = z.key.at
  BY <1>1, <1>2
<1>4. y.key = z.key
  BY <1>1, <1>2, <1>3
<1> QED BY <1>4, KeysAreApart DEF Indexed

LEMMA FuelOfFactor ==
  ASSUME docs \in Extract, view = Transformed(docs), ReportsAreNested, FuelsAreApart,
         NEW r, InNamedActivity(r), Ancestor(r.elem, "Fuel") # {}
  PROVE  FuelOf(r) = {Enclosing(Id(r), "Fuel")}
<1>1. PICK n : Enters(r.file, r.elem, "Fuel", n)
  BY Levels, EnclosingIs DEF InNamedActivity
<1>2. PICK y \in view.fuel : y.file = r.file /\ y.elem = Up(r.elem, n) /\ InFuel(r, y)
  BY <1>1, FuelEncloses
<1>3. ASSUME NEW z \in view.fuel, z.file = r.file, InFuel(r, z)
      PROVE  z = y
  <2>1. y.key.at = Position(docs[y.file], y.elem)
    <3>1. y.key = FuelKey(docs[y.file], y.elem)
      BY ViewsAre, FuelRows
    <3> QED BY <3>1 DEF FuelKey
  <2>2. y.key.at # Null
    BY <2>1, PositionIs
  <2>3. InFuel(y, z)
    BY <1>2, <1>3, <2>2 DEF InFuel, SamePlace
  <2> QED BY <1>2, <1>3, <2>3, ViewsAre DEF FuelsAreApart
<1>4. {z \in view.fuel : z.file = r.file /\ InFuel(r, z)} = {y}
  BY <1>2, <1>3
<1>5. FuelOf(r) = Left({Id(z) : z \in {y}})
  BY <1>4 DEF FuelOf, Joined
<1> QED BY <1>1, <1>2, <1>5 DEF Left, Id, Enters

(* The names of its units are those of its fuel, if lists have substances. *)
LEMMA SameUnitNames ==
  ASSUME docs \in Extract, ReportsAreNested, NEW f, NEW e, IsElement(f, e),
         NEW n, Enters(f, e, "Fuel", n)
  PROVE  EmissionUnitNames(e) = FuelUnitNames(Up(e, n))
<1> DEFINE a == Up(e, n)
<1>1. e \in Path /\ Leveled(e) /\ Len(e) \in Nat /\ \A m \in 0 .. Len(e) : IsElement(f, Up(e, m))
  BY ElementsAreNested, LenProperties DEF Path
<1>2. Ancestor(e, "Substance") = Ancestor(a, "Substance")
  BY <1>1, Levels, Inside DEF Enters
<1>3. \A m \in 1 .. Len(e) : e[m][1] \in {"Substances", "Substance"} => m < n
  <2> TAKE m \in 1 .. Len(e)
  <2>1. n \in 1 .. Len(e) /\ e[n][1] = "Fuel" /\ DOMAIN e = 1 .. Len(e)
    BY <1>1, LenProperties DEF Enters, Path
  <2>2. n < m /\ e[m][1] \in {"Substances", "Substance"} => Level["Fuel"] < Level[e[m][1]]
    BY <2>1, Levels, <1>1 DEF Leveled
  <2> QED BY <2>1, <2>2, Levels
<1>4. \A m \in 1 .. Len(e) : m > 1 => (e[m][1] = "Substance" <=> e[m - 1][1] = "Substances")
  <2> TAKE m \in 1 .. Len(e)
  <2> HAVE m > 1
  <2>1. m - 1 \in 1 .. Len(e) /\ m \in 0 .. Len(e) /\ m - 1 \in 0 .. m /\ m - 1 \in 0 .. Len(e)
    BY <1>1
  <2>2. /\ Up(e, m) # <<>> /\ Tag(Up(e, m)) = e[m][1] /\ Up(e, m) \in Path
        /\ Len(Up(e, m)) = m /\ Up(Up(e, m), m - 1) = Up(e, m - 1)
        /\ Tag(Up(e, m - 1)) = e[m - 1][1]
    BY <1>1, <2>1, UpIs
  <2>3. Parent(Up(e, m)) = Up(e, m - 1)
    BY <2>2, ParentIs
  <2>4. NestedElement(docs[f], Up(e, m))
    BY <1>1, <2>1, ElementsAreNested
  <2> QED BY <2>2, <2>3, <2>4 DEF NestedElement
<1>5. ASSUME NEW m \in 0 .. Len(e), NEW i \in Nat
      PROVE  Above(Up(e, m), i) = SubSeq(e, 1, m - i)
  <2>1. Len(Up(e, m)) = m /\ m \in Int /\ m - i \in Int
    BY <1>1, UpIs
  <2>2. CASE i <= m
    <3>1. m - i \in 0 .. m
      BY <1>1, <2>2
    <3>2. Up(Up(e, m), m - i) = Up(e, m - i)
      BY <1>1, <3>1, UpIs
    <3> QED BY <2>1, <3>2 DEF Above, Up
  <2>3. CASE i > m
    <3>1. m - i < 1
      BY <2>1, <2>3
    <3> QED BY <2>1, <3>1, SubSeqEmpty DEF Above
  <2> QED BY <2>1, <2>2, <2>3
<1>6. ASSUME NEW s \in Ancestor(e, "Substances"), NEW i \in Nat
      PROVE  Above(s, i) \in AboveSubstance(e, i + 1)
  <2>1. PICK m \in 1 .. Len(e) - 1 : s = Up(e, m) /\ e[m][1] = "Substances"
    BY <1>1, AncestorIs
  <2>2. /\ m + 1 \in 1 .. Len(e) /\ m + 1 > 1 /\ (m + 1) - 1 = m /\ m \in 1 .. Len(e)
        /\ m \in 0 .. Len(e) /\ m + 1 \in 0 .. Len(e) /\ i + 1 \in Nat
    BY <1>1, <2>1
  <2>3. e[m + 1][1] = "Substance"
    BY <1>4, <2>1, <2>2
  <2>4. m + 1 < n /\ n \in 1 .. Len(e)
    BY <1>3, <2>2, <2>3 DEF Enters
  <2>5. Up(e, m + 1) \in Ancestor(e, "Substance")
    <3>1. m + 1 \in {k \in 1 .. Len(e) - 1 : e[k][1] = "Substance"}
      BY <1>1, <2>2, <2>3, <2>4
    <3> QED BY <1>1, <3>1, AncestorIs
  <2>6. Above(s, i) = SubSeq(e, 1, m - i)
    BY <1>5, <2>1, <2>2
  <2>7. Above(Up(e, m + 1), i + 1) = SubSeq(e, 1, (m + 1) - (i + 1))
    BY <1>5, <2>2
  <2>8. (m + 1) - (i + 1) = m - i
    BY <2>2
  <2> QED BY <2>5, <2>6, <2>7, <2>8 DEF AboveSubstance
<1>7. \A i \in Nat : AboveSubstances(e, i) \subseteq AboveSubstance(e, i + 1)
  BY <1>6 DEF AboveSubstances
<1>8. /\ AboveSubstances(e, 2) \cup AboveSubstance(e, 3) = AboveSubstance(a, 3)
      /\ AboveSubstances(e, 1) \cup AboveSubstance(e, 2) = AboveSubstance(a, 2)
  <2>1. \A i : AboveSubstance(e, i) = AboveSubstance(a, i)
    BY <1>2 DEF AboveSubstance
  <2>2. AboveSubstances(e, 2) \subseteq AboveSubstance(e, 3)
    <3>1. 2 \in Nat /\ 2 + 1 = 3
      OBVIOUS
    <3> QED BY <1>7, <3>1
  <2>3. AboveSubstances(e, 1) \subseteq AboveSubstance(e, 2)
    <3>1. 1 \in Nat /\ 1 + 1 = 2
      OBVIOUS
    <3> QED BY <1>7, <3>1
  <2> QED BY <2>1, <2>2, <2>3
<1> QED BY <1>8 DEF EmissionUnitNames, FuelUnitNames

LEMMA FuelOfEmission ==
  ASSUME docs \in Extract, view = Transformed(docs), UniqueKeys(view), ReportsAreNested,
         NEW r, InNamedActivity(r), r.key.unitNames = EmissionUnitNames(r.elem),
         Ancestor(r.elem, "Fuel") # {}
  PROVE  NamedFuelOf(r) = {Enclosing(Id(r), "Fuel")}
<1>1. PICK n : Enters(r.file, r.elem, "Fuel", n)
  BY Levels, EnclosingIs DEF InNamedActivity
<1>2. PICK y \in view.fuel : /\ y.file = r.file /\ y.elem = Up(r.elem, n) /\ InFuel(r, y)
                            /\ y.key.unitNames = FuelUnitNames(y.elem)
  BY <1>1, FuelEncloses
<1>3. EmissionUnitNames(r.elem) = FuelUnitNames(Up(r.elem, n))
  BY <1>1, SameUnitNames DEF InNamedActivity
<1>4. InNamedFuel(r, y)
  BY <1>2, <1>3 DEF InNamedFuel
<1>5. \A z \in view.fuel : z.file = r.file /\ InNamedFuel(r, z) => z = y
  BY <1>2, <1>4, FuelsOfAPlace
<1>6. {z \in view.fuel : z.file = r.file /\ InNamedFuel(r, z)} = {y}
  BY <1>2, <1>4, <1>5
<1>7. NamedFuelOf(r) = Left({Id(z) : z \in {y}})
  BY <1>6 DEF NamedFuelOf, Joined
<1> QED BY <1>1, <1>2, <1>7 DEF Left, Id, Enters

LEMMA ParentRows ==
  /\ \A x \in ParentOrganisationView(docs) :
       /\ IsElement(x.file, x.elem) /\ Tag(x.elem) = "ParentOrganisation"
       /\ x.key = ListedKey(docs[x.file], x.elem)
  /\ \A f, e : IsElement(f, e) /\ Tag(e) = "ParentOrganisation" =>
       \E x \in ParentOrganisationView(docs) : x.file = f /\ x.elem = e
<1>1. \A x \in ParentOrganisationView(docs) : \E f \in DOMAIN docs : \E e \in docs[f].elements :
        /\ Tag(e) = "ParentOrganisation"
        /\ x = [file |-> f, elem |-> e, text |-> Text(docs[f], e), key |-> ListedKey(docs[f], e)]
  BY DEF ParentOrganisationView, PerElement
<1>2. ASSUME NEW f, NEW e, IsElement(f, e), Tag(e) = "ParentOrganisation"
      PROVE  [file |-> f, elem |-> e, text |-> Text(docs[f], e),
              key |-> ListedKey(docs[f], e)] \in ParentOrganisationView(docs)
  BY <1>2, SMT DEF ParentOrganisationView, PerElement, IsElement
<1>3. \A x \in ParentOrganisationView(docs) :
        /\ IsElement(x.file, x.elem) /\ Tag(x.elem) = "ParentOrganisation"
        /\ x.key = ListedKey(docs[x.file], x.elem)
  <2> TAKE x \in ParentOrganisationView(docs)
  <2>1. PICK f, e :
          /\ IsElement(f, e) /\ Tag(e) = "ParentOrganisation"
          /\ x = [file |-> f, elem |-> e, text |-> Text(docs[f], e), key |-> ListedKey(docs[f], e)]
    BY <1>1 DEF IsElement
  <2>2. x.file = f /\ x.elem = e /\ x.key = ListedKey(docs[f], e)
    BY <2>1
  <2> QED BY <2>1, <2>2 DEF IsElement
<1>4. \A f, e : IsElement(f, e) /\ Tag(e) = "ParentOrganisation" =>
        \E x \in ParentOrganisationView(docs) : x.file = f /\ x.elem = e
  <2> TAKE f, e
  <2> DEFINE x == [file |-> f, elem |-> e, text |-> Text(docs[f], e),
                   key |-> ListedKey(docs[f], e)]
  <2>1. x.file = f /\ x.elem = e
    OBVIOUS
  <2>2. IsElement(f, e) /\ Tag(e) = "ParentOrganisation" => x \in ParentOrganisationView(docs)
    BY <1>2
  <2> HIDE DEF x
  <2> QED BY <2>1, <2>2
<1> QED BY <1>3, <1>4

LEMMA ContactRows ==
  /\ \A x \in ContactView(docs) :
       /\ IsElement(x.file, x.elem) /\ Tag(x.elem) = "Contact" /\ Ancestor(x.elem, "ConfidentialityRequest") = {}
       /\ x.key = ListedKey(docs[x.file], x.elem)
  /\ \A f, e : IsElement(f, e) /\ Tag(e) = "Contact" /\ Ancestor(e, "ConfidentialityRequest") = {} =>
       \E x \in ContactView(docs) : x.file = f /\ x.elem = e
<1>1. \A x \in ContactView(docs) : \E f \in DOMAIN docs : \E e \in docs[f].elements :
        /\ Tag(e) = "Contact" /\ Ancestor(e, "ConfidentialityRequest") = {}
        /\ x = [file |-> f, elem |-> e, text |-> Text(docs[f], e), key |-> ListedKey(docs[f], e)]
  BY DEF ContactView, PerElement
<1>2. ASSUME NEW f, NEW e, IsElement(f, e), Tag(e) = "Contact" /\ Ancestor(e, "ConfidentialityRequest") = {}
      PROVE  [file |-> f, elem |-> e, text |-> Text(docs[f], e),
              key |-> ListedKey(docs[f], e)] \in ContactView(docs)
  BY <1>2, SMT DEF ContactView, PerElement, IsElement
<1>3. \A x \in ContactView(docs) :
        /\ IsElement(x.file, x.elem) /\ Tag(x.elem) = "Contact" /\ Ancestor(x.elem, "ConfidentialityRequest") = {}
        /\ x.key = ListedKey(docs[x.file], x.elem)
  <2> TAKE x \in ContactView(docs)
  <2>1. PICK f, e :
          /\ IsElement(f, e) /\ Tag(e) = "Contact" /\ Ancestor(e, "ConfidentialityRequest") = {}
          /\ x = [file |-> f, elem |-> e, text |-> Text(docs[f], e), key |-> ListedKey(docs[f], e)]
    BY <1>1 DEF IsElement
  <2>2. x.file = f /\ x.elem = e /\ x.key = ListedKey(docs[f], e)
    BY <2>1
  <2> QED BY <2>1, <2>2 DEF IsElement
<1>4. \A f, e : IsElement(f, e) /\ Tag(e) = "Contact" /\ Ancestor(e, "ConfidentialityRequest") = {} =>
        \E x \in ContactView(docs) : x.file = f /\ x.elem = e
  <2> TAKE f, e
  <2> DEFINE x == [file |-> f, elem |-> e, text |-> Text(docs[f], e),
                   key |-> ListedKey(docs[f], e)]
  <2>1. x.file = f /\ x.elem = e
    OBVIOUS
  <2>2. IsElement(f, e) /\ Tag(e) = "Contact" /\ Ancestor(e, "ConfidentialityRequest") = {} => x \in ContactView(docs)
    BY <1>2
  <2> HIDE DEF x
  <2> QED BY <2>1, <2>2
<1> QED BY <1>3, <1>4

LEMMA AddressRows ==
  /\ \A x \in AddressView(docs) :
       /\ IsElement(x.file, x.elem) /\ Tag(x.elem) = "Address" /\ Ancestor(x.elem, "Stack") = {}
       /\ x.key = AddressKey(docs[x.file], x.elem)
  /\ \A f, e : IsElement(f, e) /\ Tag(e) = "Address" /\ Ancestor(e, "Stack") = {} =>
       \E x \in AddressView(docs) : x.file = f /\ x.elem = e
<1>1. \A x \in AddressView(docs) : \E f \in DOMAIN docs : \E e \in docs[f].elements :
        /\ Tag(e) = "Address" /\ Ancestor(e, "Stack") = {}
        /\ x = [file |-> f, elem |-> e, text |-> Text(docs[f], e), key |-> AddressKey(docs[f], e)]
  BY DEF AddressView, PerElement
<1>2. ASSUME NEW f, NEW e, IsElement(f, e), Tag(e) = "Address" /\ Ancestor(e, "Stack") = {}
      PROVE  [file |-> f, elem |-> e, text |-> Text(docs[f], e),
              key |-> AddressKey(docs[f], e)] \in AddressView(docs)
  BY <1>2, SMT DEF AddressView, PerElement, IsElement
<1>3. \A x \in AddressView(docs) :
        /\ IsElement(x.file, x.elem) /\ Tag(x.elem) = "Address" /\ Ancestor(x.elem, "Stack") = {}
        /\ x.key = AddressKey(docs[x.file], x.elem)
  <2> TAKE x \in AddressView(docs)
  <2>1. PICK f, e :
          /\ IsElement(f, e) /\ Tag(e) = "Address" /\ Ancestor(e, "Stack") = {}
          /\ x = [file |-> f, elem |-> e, text |-> Text(docs[f], e), key |-> AddressKey(docs[f], e)]
    BY <1>1 DEF IsElement
  <2>2. x.file = f /\ x.elem = e /\ x.key = AddressKey(docs[f], e)
    BY <2>1
  <2> QED BY <2>1, <2>2 DEF IsElement
<1>4. \A f, e : IsElement(f, e) /\ Tag(e) = "Address" /\ Ancestor(e, "Stack") = {} =>
        \E x \in AddressView(docs) : x.file = f /\ x.elem = e
  <2> TAKE f, e
  <2> DEFINE x == [file |-> f, elem |-> e, text |-> Text(docs[f], e),
                   key |-> AddressKey(docs[f], e)]
  <2>1. x.file = f /\ x.elem = e
    OBVIOUS
  <2>2. IsElement(f, e) /\ Tag(e) = "Address" /\ Ancestor(e, "Stack") = {} => x \in AddressView(docs)
    BY <1>2
  <2> HIDE DEF x
  <2> QED BY <2>1, <2>2
<1> QED BY <1>3, <1>4

LEMMA OwnTag ==
  ASSUME NEW e \in Path, e # <<>>
  PROVE  /\ \A tag : tag # Tag(e) => SelfOrAncestor(e, tag) = Ancestor(e, tag)
         /\ e \in SelfOrAncestor(e, Tag(e))
<1>1. Len(e) \in Nat \ {0} /\ Tag(e) = e[Len(e)][1] /\ Up(e, Len(e)) = e
  BY ParentIs, UpIs DEF Tag
<1>2. ASSUME NEW tag, tag # Tag(e)
      PROVE  SelfOrAncestor(e, tag) = Ancestor(e, tag)
  <2>1. \A m : m \in 1 .. Len(e) /\ e[m][1] = tag <=> m \in 1 .. Len(e) - 1 /\ e[m][1] = tag
    BY <1>1, <1>2
  <2>2. {m \in 1 .. Len(e) : e[m][1] = tag} = {m \in 1 .. Len(e) - 1 : e[m][1] = tag}
    BY <2>1
  <2> QED BY <2>2, AncestorIs
<1>3. e \in SelfOrAncestor(e, Tag(e))
  BY <1>1, AncestorIs
<1> QED BY <1>2, <1>3

(* What an address is at, when it is at a parent organisation or a contact. *)
LEMMA AddressIsAt ==
  ASSUME docs \in Extract, ReportsAreNested, NEW f, NEW e, IsElement(f, e), e # <<>>,
         NEW T \in {"ParentOrganisation", "Contact"}, Tag(Parent(e)) = T
  PROVE  /\ IsElement(f, Parent(e)) /\ Ancestor(e, T) = {Parent(e)}
         /\ PathContext(e) = PathContext(Parent(e))
<1> DEFINE p == Parent(e)
<1>1. e \in Path /\ Leveled(e) /\ \A n \in 0 .. Len(e) : IsElement(f, Up(e, n))
  BY ElementsAreNested
<1>2. p = Up(e, Len(e) - 1) /\ Len(e) \in Nat \ {0} /\ p \in Path
  BY <1>1, ParentIs
<1>3. Len(e) - 1 \in 0 .. Len(e)
  BY <1>2
<1>4. IsElement(f, p)
  BY <1>1, <1>2, <1>3
<1>5. p \in Path /\ Leveled(p) /\ p # <<>> /\ T \in DOMAIN Level
  BY <1>4, ElementsAreNested, Levels DEF Tag
<1>6. Len(p) \in 1 .. Len(p) /\ p[Len(p)][1] = T /\ Up(p, Len(p)) = p
  BY <1>5, ParentIs, UpIs DEF Tag
<1>7. SelfOrAncestor(p, T) = {p}
  BY <1>5, <1>6, Inside
<1>8. \A tag : tag # T => Ancestor(e, tag) = Ancestor(p, tag)
  BY <1>5, OwnTag DEF Ancestor
<1>9. PathContext(e) = PathContext(p)
  <2>1. /\ Ancestor(e, "VerifyTombstone") = Ancestor(p, "VerifyTombstone")
        /\ Ancestor(e, "RegistrationData") = Ancestor(p, "RegistrationData")
    BY <1>8
  <2> QED BY <2>1 DEF PathContext
<1> QED BY <1>4, <1>7, <1>9 DEF Ancestor

LEMMA ParentFound ==
  ASSUME docs \in Extract, view = Transformed(docs), UniqueKeys(view), ReportsAreNested,
         NEW r \in view.address
  PROVE  ParentOf(r) = {Enclosing(Id(r), "ParentOrganisation")}
<1> DEFINE f == r.file
           e == r.elem
           d == docs[f]
           P == "ParentOrganisation"
           S == {z \in view.parent_organisation : z.file = r.file /\ IsOfParent(r, z)}
<1>1. IsElement(f, e) /\ Tag(e) = "Address" /\ r.key = AddressKey(d, e)
  BY ViewsAre, AddressRows
<1>2. /\ r.key.type = Tag(Parent(e)) /\ r.key.context = PathContext(e)
      /\ r.key.parentOrganisation = Index(d, Ancestor(e, P), P)
  BY <1>1 DEF AddressKey
<1>3. e # <<>> /\ e \in Path /\ NestedElement(d, e)
  BY <1>1, ElementsAreNested DEF Tag
<1>4. ParentOf(r) = Left({Id(z) : z \in S})
  BY DEF ParentOf, Joined
<1>5. CASE Tag(Parent(e)) = P
  <2> DEFINE p == Parent(e)
  <2>1. /\ IsElement(f, p) /\ Ancestor(e, P) = {p} /\ PathContext(e) = PathContext(p)
    BY <1>1, <1>3, <1>5, AddressIsAt
  <2>2. PICK y \in view.parent_organisation : y.file = f /\ y.elem = p
    BY <1>5, <2>1, ViewsAre, ParentRows
  <2>3. \A z \in view.parent_organisation : z.key = ListedKey(docs[z.file],
  z.elem)
    BY ViewsAre, ParentRows
  <2>4. y.key = [context |-> PathContext(p), index |-> Index(d, {p}, P)]
    BY <1>5, <2>2, <2>3 DEF ListedKey
  <2>5. PathContext(p) \in {"RegistrationData", "VerifyTombstone"}
    BY <1>5, <2>1, ElementsAreNested DEF NestedElement, Registered
  <2>6. IsOfParent(r, y)
    BY <1>2, <1>5, <2>1, <2>4, <2>5 DEF IsOfParent, SameContext
  <2>7. ASSUME NEW z \in S PROVE z = y
    <3>1. z.key.index = y.key.index /\ z.key.context = y.key.context
      BY <2>6, <2>7 DEF IsOfParent, SameContext
    <3>2. z.key = [context |-> z.key.context, index |-> z.key.index]
      <4>1. z.key = ListedKey(docs[z.file], z.elem)
        BY <2>3, <2>7
      <4> QED BY <4>1 DEF ListedKey
    <3>3. z.key = y.key
      BY <2>4, <3>1, <3>2
    <3> QED BY <2>2, <2>7, <3>3, KeysAreApart DEF Indexed
  <2>8. S = {y}
    BY <2>2, <2>6, <2>7
  <2>9. Enclosing(Id(r), P) = <<f, p>>
    BY <2>1 DEF Enclosing, Id
  <2> QED BY <1>4, <2>2, <2>8, <2>9 DEF Left, Id
<1>6. CASE Tag(Parent(e)) # P
  <2>1. Ancestor(e, P) = {}
    BY <1>1, <1>3, <1>6 DEF NestedElement
  <2>2. S = {}
    BY <1>2, <1>6 DEF IsOfParent
  <2> QED BY <1>4, <2>1, <2>2 DEF Left, Enclosing, Id
<1> QED BY <1>5, <1>6

LEMMA AddressFound ==
  ASSUME docs \in Extract, view = Transformed(docs), UniqueKeys(view), ReportsAreNested,
         NEW r \in view.contact
  PROVE  LET A == {x \in Children(docs[r.file], {r.elem}) : Tag(x) = "Address"}
         IN  AddressOf(r) = Left({<<r.file, x>> : x \in A}) /\ AtMostOne(A)
<1> DEFINE f == r.file
           c == r.elem
           d == docs[f]
           A == {x \in Children(d, {c}) : Tag(x) = "Address"}
           S == {z \in view.address : z.file = r.file /\ IsAt(r, z)}
<1>1. /\ IsElement(f, c) /\ Tag(c) = "Contact" /\ Ancestor(c, "ConfidentialityRequest") = {}
      /\ r.key = ListedKey(d, c)
  BY ViewsAre, ContactRows
<1>2. r.key.context = PathContext(c) /\ r.key.index = Index(d, {c}, "Contact")
  BY <1>1 DEF ListedKey
<1>3. c # <<>> /\ c \in Path /\ NestedElement(d, c)
  BY <1>1, ElementsAreNested DEF Tag
<1>4. /\ PathContext(c) \in {"RegistrationData", "VerifyTombstone"}
      /\ Ancestor(c, "Stack") = {} /\ AtMostOne(A)
  BY <1>1, <1>3 DEF NestedElement, Registered
<1>5. AddressOf(r) = Left({Id(z) : z \in S})
  BY DEF AddressOf, Joined
<1>6. ASSUME NEW z \in S PROVE z.file = f /\ z.elem \in A
  <2> DEFINE e == z.elem
             p == Parent(e)
  <2>1. IsElement(f, e) /\ Tag(e) = "Address" /\ z.key = AddressKey(d, e)
    BY <1>6, ViewsAre, AddressRows
  <2>2. /\ z.key.type = Tag(p) /\ z.key.context = PathContext(e)
        /\ z.key.contact = Index(d, Ancestor(e, "Contact"), "Contact")
    BY <2>1 DEF AddressKey
  <2>3. e # <<>> /\ Tag(p) = "Contact"
    BY <1>6, <2>1, <2>2 DEF IsAt, Tag
  <2>4. /\ IsElement(f, p) /\ Ancestor(e, "Contact") = {p} /\ PathContext(e) = PathContext(p)
    BY <2>1, <2>3, AddressIsAt
  <2>5. PathContext(p) = PathContext(c) /\ Index(d, {p}, "Contact") = Index(d, {c}, "Contact")
    BY <1>2, <1>6, <2>2, <2>4 DEF IsAt, SameContext
  <2>6. Ancestor(p, "ConfidentialityRequest") = {}
    BY <1>4, <2>3, <2>4, <2>5, ElementsAreNested DEF NestedElement, Registered
  <2>7. PICK y \in view.contact : y.file = f /\ y.elem = p
    BY <2>3, <2>4, <2>6, ViewsAre, ContactRows
  <2>8. y.key = ListedKey(d, p)
    BY <2>7, ViewsAre, ContactRows
  <2>9. y.key = r.key
    BY <1>1, <2>3, <2>5, <2>8 DEF ListedKey
  <2>10. p = c
    BY <2>7, <2>9, KeysAreApart DEF Indexed
  <2> QED BY <1>6, <2>1, <2>3, <2>10 DEF Children, IsElement
<1>7. ASSUME NEW x \in A PROVE \E z \in S : z.elem = x
  <2>1. IsElement(f, x) /\ x # <<>> /\ Parent(x) = c /\ Tag(x) = "Address"
    BY <1>1 DEF Children, IsElement
  <2>2. Ancestor(x, "Contact") = {c} /\ PathContext(x) = PathContext(c)
    BY <1>1, <2>1, AddressIsAt
  <2>3. Ancestor(x, "Stack") = {}
    BY <1>1, <1>3, <1>4, <2>1, OwnTag DEF Ancestor
  <2>4. PICK z \in view.address : z.file = f /\ z.elem = x
    BY <2>1, <2>3, ViewsAre, AddressRows
  <2>5. z.key = AddressKey(d, x)
    BY <2>4, ViewsAre, AddressRows
  <2>6. /\ z.key.type = "Contact" /\ z.key.context = PathContext(c)
        /\ z.key.contact = Index(d, {c}, "Contact")
    <3>1. /\ z.key.type = Tag(Parent(x)) /\ z.key.context = PathContext(x)
          /\ z.key.contact = Index(d, Ancestor(x, "Contact"), "Contact")
      BY <2>5 DEF AddressKey
    <3> QED BY <1>1, <2>1, <2>2, <3>1
  <2>7. IsAt(r, z)
    BY <1>2, <1>4, <2>6 DEF IsAt, SameContext
  <2> QED BY <2>4, <2>7
<1>8. {Id(z) : z \in S} = {<<f, x>> : x \in A}
  <2>1. \A z \in S : Id(z) \in {<<f, x>> : x \in A}
    BY <1>6 DEF Id
  <2>2. \A x \in A : <<f, x>> \in {Id(z) : z \in S}
    <3> TAKE x \in A
    <3>1. PICK z \in S : z.elem = x
      BY <1>7
    <3> QED BY <3>1 DEF Id
  <2> QED BY <2>1, <2>2
<1> QED BY <1>4, <1>5, <1>8

LEMMA EmissionRows ==
  \A x \in EmissionView(docs) :
    /\ IsElement(x.file, x.elem) /\ Tag(x.elem) = "Emission"
    /\ x.key = EmissionKey(docs[x.file], x.elem)
<1>1. \A x \in EmissionView(docs) : \E f \in DOMAIN docs : \E e \in docs[f].elements :
        /\ Tag(e) = "Emission"
        /\ x = [file |-> f, elem |-> e, text |-> Text(docs[f], e), key |-> EmissionKey(docs[f], e)]
  BY DEF EmissionView, PerElement
<1> TAKE x \in EmissionView(docs)
<1>2. PICK f, e :
        /\ IsElement(f, e) /\ Tag(e) = "Emission"
        /\ x = [file |-> f, elem |-> e, text |-> Text(docs[f], e), key |-> EmissionKey(docs[f], e)]
  BY <1>1 DEF IsElement
<1>3. x.file = f /\ x.elem = e /\ x.key = EmissionKey(docs[f], e)
  BY <1>2
<1> QED BY <1>2, <1>3

LEMMA EioEmissionRows ==
  \A x \in EioEmissionView(docs) :
    /\ IsElement(x.file, x.elem) /\ Tag(x.elem) = "EIOEmission"
    /\ x.key = EioEmissionKey(docs[x.file], x.elem)
<1>1. \A x \in EioEmissionView(docs) : \E f \in DOMAIN docs : \E e \in docs[f].elements :
        /\ Tag(e) = "EIOEmission"
        /\ x = [file |-> f, elem |-> e, text |-> Text(docs[f], e), key |-> EioEmissionKey(docs[f], e)]
  BY DEF EioEmissionView, PerElement
<1> TAKE x \in EioEmissionView(docs)
<1>2. PICK f, e :
        /\ IsElement(f, e) /\ Tag(e) = "EIOEmission"
        /\ x = [file |-> f, elem |-> e, text |-> Text(docs[f], e), key |-> EioEmissionKey(docs[f], e)]
  BY <1>1 DEF IsElement
<1>3. x.file = f /\ x.elem = e /\ x.key = EioEmissionKey(docs[f], e)
  BY <1>2
<1> QED BY <1>2, <1>3

LEMMA R3EmissionRows ==
  \A x \in R3EmissionView(docs) :
    /\ IsElement(x.file, x.elem) /\ Tag(x.elem) = "TotalRow" /\ docs[x.file].details.type = "R3"
    /\ x.key = R3EmissionKey(docs[x.file], x.elem) /\ x.text = Text(docs[x.file], x.elem)
<1>1. \A x \in R3EmissionView(docs) : \E f \in DOMAIN docs : \E e \in docs[f].elements :
        /\ Tag(e) = "TotalRow" /\ docs[f].details.type = "R3"
        /\ x = [file |-> f, elem |-> e, text |-> Text(docs[f], e),
                key |-> R3EmissionKey(docs[f], e)]
  BY DEF R3EmissionView, PerElement
<1> TAKE x \in R3EmissionView(docs)
<1>2. PICK f, e :
        /\ IsElement(f, e) /\ Tag(e) = "TotalRow" /\ docs[f].details.type = "R3"
        /\ x = [file |-> f, elem |-> e, text |-> Text(docs[f], e),
                key |-> R3EmissionKey(docs[f], e)]
  BY <1>1 DEF IsElement
<1>3. /\ x.file = f /\ x.elem = e
      /\ x.key = R3EmissionKey(docs[f], e) /\ x.text = Text(docs[f], e)
  BY <1>2
<1> QED BY <1>2, <1>3

LEMMA FactorRows ==
  \A x \in EmissionFactorView(docs) :
    /\ IsElement(x.file, x.elem) /\ Tag(x.elem) = "EmissionFactor"
    /\ x.key = FactorKey(docs[x.file], x.elem)
<1>1. \A x \in EmissionFactorView(docs) : \E f \in DOMAIN docs : \E e \in docs[f].elements :
        /\ Tag(e) = "EmissionFactor"
        /\ x = [file |-> f, elem |-> e, text |-> Text(docs[f], e), key |-> FactorKey(docs[f], e)]
  BY DEF EmissionFactorView, PerElement
<1> TAKE x \in EmissionFactorView(docs)
<1>2. PICK f, e :
        /\ IsElement(f, e) /\ Tag(e) = "EmissionFactor"
        /\ x = [file |-> f, elem |-> e, text |-> Text(docs[f], e), key |-> FactorKey(docs[f], e)]
  BY <1>1 DEF IsElement
<1>3. x.file = f /\ x.elem = e /\ x.key = FactorKey(docs[f], e)
  BY <1>2
<1> QED BY <1>2, <1>3

LEMMA MeasuredFactorRows ==
  \A x \in MeasuredEmissionFactorView(docs) :
    /\ IsElement(x.file, x.elem) /\ Tag(x.elem) = "MeasuredEmissionFactor"
    /\ x.key = FactorKey(docs[x.file], x.elem)
<1>1. \A x \in MeasuredEmissionFactorView(docs) : \E f \in DOMAIN docs : \E e \in docs[f].elements :
        /\ Tag(e) = "MeasuredEmissionFactor"
        /\ x = [file |-> f, elem |-> e, text |-> Text(docs[f], e), key |-> FactorKey(docs[f], e)]
  BY DEF MeasuredEmissionFactorView, PerElement
<1> TAKE x \in MeasuredEmissionFactorView(docs)
<1>2. PICK f, e :
        /\ IsElement(f, e) /\ Tag(e) = "MeasuredEmissionFactor"
        /\ x = [file |-> f, elem |-> e, text |-> Text(docs[f], e), key |-> FactorKey(docs[f], e)]
  BY <1>1 DEF IsElement
<1>3. x.file = f /\ x.elem = e /\ x.key = FactorKey(docs[f], e)
  BY <1>2
<1> QED BY <1>2, <1>3

LEMMA AdditionalDataRows ==
  \A x \in AdditionalDataView(docs) :
    /\ IsElement(x.file, x.elem) /\ x.elem \in Described(docs[x.file])
    /\ x.key = AdditionalDataKey(docs[x.file], x.elem) /\ x.text = Text(docs[x.file], x.elem)
<1>1. \A x \in AdditionalDataView(docs) : \E f \in DOMAIN docs : \E e \in docs[f].elements :
        /\ e \in Described(docs[f])
        /\ x = [file |-> f, elem |-> e, text |-> Text(docs[f], e),
                key |-> AdditionalDataKey(docs[f], e)]
  BY DEF AdditionalDataView, PerElement, Described
<1> TAKE x \in AdditionalDataView(docs)
<1>2. PICK f, e :
        /\ IsElement(f, e) /\ e \in Described(docs[f])
        /\ x = [file |-> f, elem |-> e, text |-> Text(docs[f], e),
                key |-> AdditionalDataKey(docs[f], e)]
  BY <1>1 DEF IsElement
<1>3. /\ x.file = f /\ x.elem = e
      /\ x.key = AdditionalDataKey(docs[f], e) /\ x.text = Text(docs[f], e)
  BY <1>2
<1> QED BY <1>2, <1>3

LEMMA OfUnit ==
  ASSUME view = Transformed(docs), docs \in Extract, ReportsAreNested, NEW x \in view.unit
  PROVE  InProcess(x) /\ Ancestor(x.elem, "SubProcess") # {}
<1>1. /\ IsElement(x.file, x.elem) /\ Tag(x.elem) = "Unit"
      /\ x.key = ProcessKey(docs[x.file], x.elem)
  BY ViewsAre, UnitRows
<1>2. Ancestor(x.elem, "SubProcess") # {}
  BY <1>1, ElementsAreNested DEF NestedElement, Within
<1>3. x.key.activity = ProcessOwner(x.elem) /\ x.key.at = Position(docs[x.file], x.elem)
  BY <1>1 DEF ProcessKey
<1> QED BY <1>1, <1>2, <1>3 DEF InProcess

LEMMA OfAdditionalData ==
  ASSUME view = Transformed(docs), NEW x \in view.additional_data
  PROVE  InProcess(x) /\ Ancestor(x.elem, "SubProcess") # {}
<1>1. /\ IsElement(x.file, x.elem) /\ Depth(x.elem) \in {1, 2, 3, 5}
      /\ x.key = AdditionalDataKey(docs[x.file], x.elem)
  BY ViewsAre, AdditionalDataRows DEF Described
<1>2. Ancestor(x.elem, "SubProcess") # {}
  BY <1>1 DEF Depth
<1>3. x.key.activity = ProcessOwner(x.elem) /\ x.key.at = Position(docs[x.file], x.elem)
  BY <1>1 DEF AdditionalDataKey
<1> QED BY <1>1, <1>2, <1>3 DEF InProcess

LEMMA OfFuel ==
  ASSUME view = Transformed(docs), docs \in Extract, ReportsAreNested, NEW x \in view.fuel
  PROVE  InProcess(x) /\ Ancestor(x.elem, "Unit") # {}
<1>1. /\ IsElement(x.file, x.elem) /\ Tag(x.elem) = "Fuel"
      /\ x.key = FuelKey(docs[x.file], x.elem)
  BY ViewsAre, FuelRows
<1>2. NestedElement(docs[x.file], x.elem)
  BY <1>1, ElementsAreNested
<1>3. FirstActivity(docs[x.file], x.elem) = ProcessOwner(x.elem) /\ Ancestor(x.elem, "Unit") # {}
  BY <1>1, <1>2 DEF NestedElement, Within
<1> QED BY <1>1, <1>3 DEF InProcess, FuelKey

LEMMA OfFactor ==
  ASSUME view = Transformed(docs), docs \in Extract, ReportsAreNested,
         NEW x \in view.emission_factor \cup view.measured_emission_factor
  PROVE  InNamedActivity(x) /\ Ancestor(x.elem, "Fuel") # {}
<1>1. /\ IsElement(x.file, x.elem) /\ Tag(x.elem) \in {"EmissionFactor", "MeasuredEmissionFactor"}
      /\ x.key = FactorKey(docs[x.file], x.elem)
  BY ViewsAre, FactorRows, MeasuredFactorRows
<1>2. NestedElement(docs[x.file], x.elem)
  BY <1>1, ElementsAreNested
<1>3. Ancestor(x.elem, "Fuel") # {}
  BY <1>1, <1>2 DEF NestedElement, Within
<1> QED BY <1>1, <1>3 DEF InNamedActivity, FactorKey

LEMMA InUnitInSubProcess ==
  ASSUME docs \in Extract, ReportsAreNested, NEW f, NEW e, IsElement(f, e)
  PROVE  /\ Ancestor(e, "Unit") # {} => Ancestor(e, "SubProcess") # {}
         /\ Ancestor(e, "Fuel") # {} => Ancestor(e, "Unit") # {}
<1>1. e \in Path /\ Leveled(e)
  BY ElementsAreNested
<1>2. ASSUME NEW w \in {<<"Unit", "SubProcess">>, <<"Fuel", "Unit">>},
             Ancestor(e, w[1]) # {}
      PROVE  Ancestor(e, w[2]) # {}
  <2>1. w \in Within /\ w[1] \in DOMAIN Level /\ w[2] \in DOMAIN Level /\ Level[w[2]] < Level[w[1]]
    BY Levels DEF Within
  <2>2. PICK n : Enters(f, e, w[1], n)
    BY <1>2, <2>1, EnclosingIs
  <2>3. Ancestor(Up(e, n), w[2]) # {}
    BY <2>1, <2>2, ElementsAreNested DEF Enters, NestedElement
  <2>4. Ancestor(e, w[2]) = Ancestor(Up(e, n), w[2])
    BY <1>1, <2>1, <2>2, Inside DEF Enters
  <2> QED BY <2>3, <2>4
<1> QED BY <1>2

LEMMA OfEmission ==
  ASSUME view = Transformed(docs), docs \in Extract, ReportsAreNested,
         NEW x \in view.emission \cup view.eio_emission
  PROVE  /\ InProcess(x) /\ InNamedActivity(x)
         /\ x.key.unitNames = EmissionUnitNames(x.elem)
         /\ Ancestor(x.elem, "Unit") # {} /\ Ancestor(x.elem, "SubProcess") # {}
<1>1. /\ IsElement(x.file, x.elem) /\ Tag(x.elem) \in {"Emission", "EIOEmission"}
      /\ \/ x.key = EmissionKey(docs[x.file], x.elem)
         \/ x.key = EioEmissionKey(docs[x.file], x.elem)
  BY ViewsAre, EmissionRows, EioEmissionRows
<1>2. NestedElement(docs[x.file], x.elem)
  BY <1>1, ElementsAreNested
<1>3. FirstActivity(docs[x.file], x.elem) = ProcessOwner(x.elem) /\ Ancestor(x.elem, "Unit") # {}
  BY <1>1, <1>2 DEF NestedElement, Within
<1>4. /\ x.key.activity = FirstActivity(docs[x.file], x.elem)
      /\ x.key.subActivity = FirstSubActivity(docs[x.file], x.elem)
      /\ x.key.unitNames = EmissionUnitNames(x.elem)
      /\ x.key.at = Position(docs[x.file], x.elem)
      /\ x.key.substances = SubstancesIndex(docs[x.file], x.elem)
  BY <1>1 DEF EmissionKey, EioEmissionKey
<1>5. Ancestor(x.elem, "SubProcess") # {}
  BY <1>1, <1>3, InUnitInSubProcess
<1> QED BY <1>1, <1>3, <1>4, <1>5 DEF InProcess, InNamedActivity

LEMMA OfTotals ==
  ASSUME view = Transformed(docs), docs \in Extract, ReportsAreNested, NEW x \in view.r3_emission
  PROVE  /\ NamedFuelOf(x) = {Null} /\ UnitOf(x) = {Null} /\ ActivityOf(x) = {Null}
         /\ \A T \in {"SubProcess", "Unit", "Fuel"} : Enclosing(Id(x), T) = Null
<1>1. /\ IsElement(x.file, x.elem) /\ Tag(x.elem) = "TotalRow"
      /\ x.key = R3EmissionKey(docs[x.file], x.elem)
  BY ViewsAre, R3EmissionRows
<1>2. x.key.at = Null
  BY <1>1 DEF R3EmissionKey
<1>3. \A y : ~InNamedFuel(x, y) /\ ~InUnit(x, y) /\ ~InActivity(x, y)
  BY <1>2 DEF InNamedFuel, InFuel, InUnit, InActivity, SamePlace
<1>4. NamedFuelOf(x) = {Null} /\ UnitOf(x) = {Null} /\ ActivityOf(x) = {Null}
  BY <1>3 DEF NamedFuelOf, UnitOf, ActivityOf, Joined, Left
<1>5. Ancestor(x.elem, "SubProcess") = {}
  BY <1>1, ElementsAreNested DEF NestedElement
<1>6. Ancestor(x.elem, "Unit") = {} /\ Ancestor(x.elem, "Fuel") = {}
  BY <1>1, <1>5, InUnitInSubProcess
<1> QED BY <1>4, <1>5, <1>6 DEF Enclosing, Id

-----------------------------------------------------------------------------
(* What RefersToWhatEnclosesIt says of one table.                          *)
Right(t, rows) ==
  /\ t \in {"unit", "additional_data"} =>
       \A r \in rows : r.ref.activity = Enclosing(r.id, "SubProcess")
  /\ t = "fuel" => \A r \in rows : r.ref.unit = Enclosing(r.id, "Unit")
  /\ t = "emission_factor" => \A r \in rows : r.ref.fuel = Enclosing(r.id, "Fuel")
  /\ t = "emission" =>
       \A r \in rows :
         Enclosing(r.id, "Unit") = Null \/ Enclosing(r.id, "Fuel") # Null =>
           /\ r.ref.fuel = Enclosing(r.id, "Fuel")
           /\ r.ref.unit = Enclosing(r.id, "Unit")
           /\ r.ref.activity = Enclosing(r.id, "SubProcess")
  /\ t = "address" =>
       \A r \in rows : r.ref.parent_organisation = Enclosing(r.id, "ParentOrganisation")
  /\ t = "contact" =>
       \A r \in rows :
         Left({<<r.id[1], x>> :
                 x \in {y \in Children(docs[r.id[1]], {r.id[2]}) :
                          Tag(y) = "Address"}}) = {r.ref.address}

LEMMA EmissionIsRight ==
  ASSUME docs \in Extract, view = Transformed(docs), UniqueKeys(view), ReportsAreNested,
         NEW x \in SourceRows("emission"), NEW r \in LoadEmission(x),
         Enclosing(r.id, "Unit") = Null \/ Enclosing(r.id, "Fuel") # Null
  PROVE  /\ r.ref.fuel = Enclosing(r.id, "Fuel") /\ r.ref.unit = Enclosing(r.id, "Unit")
         /\ r.ref.activity = Enclosing(r.id, "SubProcess")
<1>1. x \in view.emission \cup view.eio_emission \cup view.r3_emission
  BY SourcesAre DEF FinalRows, Final
<1>2. /\ r.id = Id(x) /\ r.ref.fuel \in NamedFuelOf(x) /\ r.ref.unit \in UnitOf(x)
      /\ r.ref.activity \in ActivityOf(x)
  <2>1. \E a \in ActivityOf(x), f \in OfFile("facility", x),
  l \in NamedFuelOf(x),
           n \in NaicsOf(x), m \in Mapped(TaxedAs(x)),
           o \in OfFile("organisation", x),
           p \in OfFile("report", x), u \in UnitOf(x) :
          r = Row(x, [activity |-> a, facility |-> f, fuel |-> l, naics |-> n,
                      fuel_mapping |-> m, organisation |-> o, report |-> p,
                      unit |-> u])
    BY DEF LoadEmission
  <2>2. PICK a \in ActivityOf(x), f \in OfFile("facility", x),
  l \in NamedFuelOf(x),
             n \in NaicsOf(x), m \in Mapped(TaxedAs(x)),
             o \in OfFile("organisation", x),
             p \in OfFile("report", x), u \in UnitOf(x) :
          r = Row(x, [activity |-> a, facility |-> f, fuel |-> l, naics |-> n,
                      fuel_mapping |-> m, organisation |-> o, report |-> p,
                      unit |-> u])
    BY <2>1
  <2> QED BY <2>2 DEF Row
<1>3. CASE x \in view.r3_emission
  BY <1>2, <1>3, OfTotals
<1>4. CASE x \in view.emission \cup view.eio_emission
  <2>1. /\ InProcess(x) /\ InNamedActivity(x) /\ x.key.unitNames = EmissionUnitNames(x.elem)
        /\ Ancestor(x.elem, "Unit") # {} /\ Ancestor(x.elem, "SubProcess") # {}
    BY <1>4, OfEmission
  <2>2. Enclosing(Id(x), "Unit") # Null
    BY <2>1 DEF Enclosing, Id, Null
  <2>3. Ancestor(x.elem, "Fuel") # {}
    BY <1>2, <2>2 DEF Enclosing, Id
  <2>4. /\ NamedFuelOf(x) = {Enclosing(Id(x), "Fuel")} /\ UnitOf(x) = {Enclosing(Id(x), "Unit")}
        /\ ActivityOf(x) = {Enclosing(Id(x), "SubProcess")}
    BY <2>1, <2>3, SubProcessFound, UnitFound, FuelOfEmission
  <2> QED BY <1>2, <2>4
<1> QED BY <1>1, <1>3, <1>4

LEMMA LoadedIsRight ==
  ASSUME docs \in Extract, view = Transformed(docs), UniqueKeys(view), ReportsAreNested,
         FuelsAreApart, NEW t \in Table
  PROVE  Right(t, Loaded(t))
<1>1. \A r \in Loaded(t) : \E x \in SourceRows(t) : r \in RowsFor(t, x)
  BY DEF Loaded
<1>2. \A s \in Table \ {"emission", "emission_factor", "report_history", "report_attachment"} :
        SourceRows(s) \subseteq view[s]
  BY SourcesAre DEF FinalRows, Final
<1>unit. ASSUME t = "unit", NEW r \in Loaded(t)
         PROVE  r.ref.activity = Enclosing(r.id, "SubProcess")
  <2>1. PICK x \in view.unit : r \in LoadUnit(x)
    BY <1>1, <1>2, <1>unit, RowsAre
  <2>2. PICK a \in ActivityOf(x) : r = Row(x, [activity |-> a])
    BY <2>1 DEF LoadUnit
  <2>3. ActivityOf(x) = {Enclosing(Id(x), "SubProcess")}
    BY OfUnit, SubProcessFound
  <2> QED BY <2>2, <2>3 DEF Row
<1>additional. ASSUME t = "additional_data", NEW r \in Loaded(t)
               PROVE  r.ref.activity = Enclosing(r.id, "SubProcess")
  <2>1. PICK x \in view.additional_data : r \in LoadAdditionalData(x)
    BY <1>1, <1>2, <1>additional, RowsAre
  <2>2. PICK a \in ActivityOf(x), p \in OfFile("report", x) :
          r = Row(x, [activity |-> a, report |-> p])
    BY <2>1, SMT DEF LoadAdditionalData
  <2>3. ActivityOf(x) = {Enclosing(Id(x), "SubProcess")}
    BY OfAdditionalData, SubProcessFound
  <2> QED BY <2>2, <2>3 DEF Row
<1>fuel. ASSUME t = "fuel", NEW r \in Loaded(t)
         PROVE  r.ref.unit = Enclosing(r.id, "Unit")
  <2>1. PICK x \in view.fuel : r \in LoadFuel(x)
    BY <1>1, <1>2, <1>fuel, RowsAre
  <2>2. PICK p \in OfFile("report", x), u \in UnitOf(x),
  m \in Mapped({x.text.type}) :
          r = Row(x, [report |-> p, unit |-> u, fuel_mapping |-> m])
    BY <2>1, SMT DEF LoadFuel
  <2>3. UnitOf(x) = {Enclosing(Id(x), "Unit")}
    BY OfFuel, UnitFound
  <2> QED BY <2>2, <2>3 DEF Row
<1>factor. ASSUME t = "emission_factor", NEW r \in Loaded(t)
           PROVE  r.ref.fuel = Enclosing(r.id, "Fuel")
  <2>1. PICK x \in SourceRows("emission_factor") : r \in LoadEmissionFactor(x)
    BY <1>1, <1>factor, RowsAre
  <2>2. PICK l \in FuelOf(x) : r = Row(x, [fuel |-> l])
    BY <2>1 DEF LoadEmissionFactor
  <2>3. x \in view.emission_factor \cup view.measured_emission_factor
    BY <2>1, SourcesAre DEF FinalRows, Final
  <2>4. FuelOf(x) = {Enclosing(Id(x), "Fuel")}
    BY <2>3, OfFactor, FuelOfFactor
  <2> QED BY <2>2, <2>4 DEF Row
<1>emission. ASSUME t = "emission", NEW r \in Loaded(t),
                    Enclosing(r.id, "Unit") = Null \/ Enclosing(r.id,
                    "Fuel") # Null
             PROVE  /\ r.ref.fuel = Enclosing(r.id, "Fuel")
                    /\ r.ref.unit = Enclosing(r.id, "Unit")
                    /\ r.ref.activity = Enclosing(r.id, "SubProcess")
  <2>1. PICK x \in SourceRows("emission") : r \in LoadEmission(x)
    BY <1>1, <1>emission, RowsAre
  <2> QED BY <1>emission, <2>1, EmissionIsRight
<1>address. ASSUME t = "address", NEW r \in Loaded(t)
            PROVE  r.ref.parent_organisation = Enclosing(r.id, "ParentOrganisation")
  <2>1. PICK x \in view.address : r \in LoadAddress(x)
    BY <1>1, <1>2, <1>address, RowsAre
  <2>2. PICK f \in OfFile("facility", x), o \in OrganisationOf(x),
  q \in ParentOf(x),
             p \in OfFile("report", x) :
          r = Row(x, [facility |-> f, organisation |-> o,
          parent_organisation |-> q,
                      report |-> p])
    BY <2>1, SMT DEF LoadAddress
  <2>3. ParentOf(x) = {Enclosing(Id(x), "ParentOrganisation")}
    BY ParentFound
  <2> QED BY <2>2, <2>3 DEF Row
<1>contact. ASSUME t = "contact", NEW r \in Loaded(t)
            PROVE  Left({<<r.id[1], x>> :
                           x \in {y \in Children(docs[r.id[1]], {r.id[2]}) :
                                    Tag(y) = "Address"}}) = {r.ref.address}
  <2>1. PICK x \in view.contact : r \in LoadContact(x)
    BY <1>1, <1>2, <1>contact, RowsAre
  <2>2. PICK a \in AddressOf(x), f \in OfFile("facility", x),
  p \in OfFile("report", x),
             o \in OfFile("organisation", x) :
          r = Row(x, [address |-> a, facility |-> f, report |-> p,
          organisation |-> o])
    BY <2>1, SMT DEF LoadContact
  <2> DEFINE A == {y \in Children(docs[x.file], {x.elem}) : Tag(y) = "Address"}
             L == {<<x.file, y>> : y \in A}
  <2>3. AddressOf(x) = Left(L) /\ AtMostOne(A)
    BY AddressFound
  <2>4. Left(L) = {a}
    BY <2>2, <2>3 DEF Left, AtMostOne
  <2>5. r.id = Id(x) /\ r.ref.address = a
    BY <2>2 DEF Row
  <2>6. r.id[1] = x.file /\ r.id[2] = x.elem
    BY <2>5 DEF Id
  <2> QED BY <2>4, <2>5, <2>6
<1> HIDE DEF Right
<1> QED BY <1>unit, <1>additional, <1>fuel, <1>factor, <1>emission, <1>address,
           <1>contact
        DEF Right

(* While a load runs, no two rows of a view have the same key.             *)
KeysHold == status = "loading" => UniqueKeys(view)

LEMMA KeysStay == Spec => []KeysHold
<1>1. Init => KeysHold
  BY DEF Init, KeysHold
<1>2. Inv /\ KeysHold /\ [Next]_vars => KeysHold'
  <2> SUFFICES ASSUME KeysHold, [Next]_vars, status' = "loading"
               PROVE  UniqueKeys(view')
    BY DEF KeysHold, UniqueKeys
  <2>1. CASE Transform
    BY <2>1 DEF Transform
  <2>2. CASE LoadTable \/ UNCHANGED vars
    BY <2>2 DEF LoadTable, vars, KeysHold
  <2>3. CASE Publish \/ Fail
    BY <2>3 DEF Publish, Fail
  <2> QED BY <2>1, <2>2, <2>3 DEF Next
<1> QED BY <1>1, <1>2, InvHolds, PTL DEF Spec

(* For any finite reports that are nested as reports are: the indices by   *)
(* which rows are joined find what encloses an element in its report, and  *)
(* nothing else (load_unit and the other load functions, and the unique    *)
(* indexes of the views).                                                  *)
THEOREM ReferencesEnclose ==
  ASSUME ReportsAreNested, FuelsAreApart PROVE Spec => []RefersToWhatEnclosesIt
<1> DEFINE All == \A t \in Table : Right(t, tables[t])
<1>1. Init => All
  BY DEF Init, NoRows, Right
<1>2. Inv /\ KeysHold /\ All /\ [Next]_vars => All'
  <2> SUFFICES ASSUME Inv, KeysHold, All, [Next]_vars PROVE All'
    OBVIOUS
  <2>1. ASSUME tables' = NoRows PROVE All'
    BY <2>1 DEF NoRows, Right
  <2>2. CASE Transform
    BY <2>1, <2>2 DEF Transform
  <2>3. CASE LoadTable
    <3>1. PICK t \in Table : /\ view = Transformed(docs) /\ UniqueIds(t, Loaded(t))
                            /\ tables'[t] = Loaded(t)
                            /\ \A s \in Table \ {t} : tables'[s] = tables[s]
      BY <2>3, TableIsFilled
    <3>2. docs' = docs /\ UniqueKeys(view)
      BY <2>3 DEF LoadTable, KeysHold
    <3>3. Right(t, Loaded(t))
      BY <3>1, <3>2, LoadedIsRight DEF Inv
    <3>4. \A s \in Table : Right(s, tables'[s])
      BY <3>1, <3>3
    <3> QED BY <3>2, <3>4 DEF Right
  <2>4. CASE Publish \/ UNCHANGED vars
    BY <2>4 DEF Publish, vars, Right
  <2>5. CASE Fail
    BY <2>1, <2>5 DEF Fail
  <2> QED BY <2>2, <2>3, <2>4, <2>5 DEF Next
<1>3. All => RefersToWhatEnclosesIt
  <2> SUFFICES ASSUME All PROVE RefersToWhatEnclosesIt
    OBVIOUS
  <2>1. /\ Right("unit", tables.unit) /\ Right("additional_data", tables.additional_data)
        /\ Right("fuel", tables.fuel) /\ Right("emission_factor", tables.emission_factor)
        /\ Right("emission", tables.emission) /\ Right("address", tables.address)
        /\ Right("contact", tables.contact)
    BY DEF Table, Order
  <2>2. \A r \in tables.unit \cup tables.additional_data :
          r.ref.activity = Enclosing(r.id, "SubProcess")
    BY <2>1 DEF Right
  <2>3. /\ \A r \in tables.fuel : r.ref.unit = Enclosing(r.id, "Unit")
        /\ \A r \in tables.emission_factor : r.ref.fuel = Enclosing(r.id, "Fuel")
    BY <2>1 DEF Right
  <2>4. \A r \in tables.emission :
          Enclosing(r.id, "Unit") = Null \/ Enclosing(r.id, "Fuel") # Null =>
            /\ r.ref.fuel = Enclosing(r.id, "Fuel")
            /\ r.ref.unit = Enclosing(r.id, "Unit")
            /\ r.ref.activity = Enclosing(r.id, "SubProcess")
    BY <2>1 DEF Right
  <2>5. \A r \in tables.address :
          r.ref.parent_organisation = Enclosing(r.id, "ParentOrganisation")
    BY <2>1 DEF Right
  <2>6. \A r \in tables.contact :
          Left({<<r.id[1], x>> :
                  x \in {y \in Children(docs[r.id[1]], {r.id[2]}) :
                           Tag(y) = "Address"}}) = {r.ref.address}
    BY <2>1 DEF Right
  <2> QED BY <2>2, <2>3, <2>4, <2>5, <2>6 DEF RefersToWhatEnclosesIt
<1> QED BY <1>1, <1>2, <1>3, InvHolds, KeysStay, PTL DEF Spec

-----------------------------------------------------------------------------
(* Paths that never part are one.                                          *)
LEMMA LeastNumber ==
  ASSUME NEW S \in SUBSET Nat, S # {}
  PROVE  \E n \in S : \A m \in S : n <= m
<1> DEFINE R == {p \in Nat \X Nat : p[1] < p[2]}
<1>1. OpToRel(<, Nat) = R
  BY DEF OpToRel
<1>2. IsWellFoundedOn(R, Nat)
  BY <1>1, NatLessThanWellFounded
<1>3. \A m, k \in Nat : m < k => <<m, k>> \in R
  OBVIOUS
<1>4. PICK n \in S : \A m \in S : ~(m < n)
  <2>1. PICK n \in S : \A m \in S : <<m, n>> \notin R
    <3> HIDE DEF R
    <3> QED BY <1>2, WFMin
  <2> QED BY <1>3, <2>1
<1> QED BY <1>4

LEMMA PathsMeet ==
  ASSUME NEW x \in Path, NEW y \in Path, Len(x) = Len(y),
         \A n \in 1 .. Len(x) : Up(x, n - 1) = Up(y, n - 1) => Up(x, n) = Up(y, n)
  PROVE  x = y
<1> DEFINE S == {n \in 0 .. Len(x) : Up(x, n) # Up(y, n)}
<1>1. Len(x) \in Nat /\ Up(x, Len(x)) = x /\ Up(y, Len(x)) = y
  BY UpIs, LenProperties DEF Path
<1>2. Up(x, 0) = Up(y, 0)
  BY SubSeqEmpty DEF Up
<1>3. CASE S = {}
  BY <1>1, <1>3
<1>4. CASE S # {}
  <2>1. S \in SUBSET Nat
    BY <1>1
  <2>2. PICK n \in S : \A m \in S : n <= m
    <3> HIDE DEF S
    <3> QED BY <1>4, <2>1, LeastNumber
  <2>3. n \in 1 .. Len(x) /\ n - 1 \in 0 .. Len(x) /\ ~(n <= n - 1)
    BY <1>1, <1>2, <2>2
  <2>4. Up(x, n - 1) = Up(y, n - 1)
    BY <2>2, <2>3
  <2> QED BY <2>2, <2>3, <2>4
<1> QED BY <1>3, <1>4

(* Siblings are told apart by how many are before them.                    *)
LEMMA SiblingsAreApart ==
  ASSUME docs \in Extract, NEW f \in DOMAIN docs, NEW d, d = docs[f],
         NEW x \in d.elements \ {<<>>}, NEW y \in d.elements \ {<<>>}, Parent(x) = Parent(y)
  PROVE  /\ Cardinality(Preceding(d, {x})) = Cardinality(Preceding(d, {y})) => x = y
         /\ Tag(x) = Tag(y) /\ Index(d, {x}, Tag(x)) = Index(d, {y}, Tag(y)) => x = y
<1> DEFINE place(z) == z[Len(z)][2]
           P(z) == {w \in d.elements \ {<<>>} : Parent(w) = Parent(z) /\ place(w) < place(z)}
           Q(z) == {w \in P(z) : Tag(w) = Tag(x)}
<1>1. /\ IsFiniteSet(d.elements)
      /\ \A z \in d.elements \ {<<>>} : place(z) \in Nat
      /\ \A v, w \in d.elements \ {<<>>} : Parent(v) = Parent(w) /\ place(v) = place(w) => v = w
  <2>1. \A z \in d.elements : z \in Path
    BY SwrsTransformLoadAssumption DEF Path
  <2>2. \A z \in d.elements \ {<<>>} : z[Len(z)] \in STRING \X Nat
    <3> TAKE z \in d.elements \ {<<>>}
    <3>1. Len(z) \in 1 .. Len(z)
      BY <2>1, ParentIs
    <3> QED BY <2>1, <3>1, ElementOfSeq DEF Path
  <2>3. \A z \in d.elements \ {<<>>} : place(z) \in Nat
    BY <2>2
  <2> QED BY <2>3, SwrsTransformLoadAssumption
<1>2. ASSUME NEW v \in {x, y}, NEW w \in {x, y}, place(v) < place(w)
      PROVE  /\ IsFiniteSet(P(v)) /\ IsFiniteSet(P(w)) /\ IsFiniteSet(Q(v)) /\ IsFiniteSet(Q(w))
             /\ P(v) \subseteq P(w) /\ P(v) # P(w)
             /\ Q(v) \subseteq Q(w) /\ (Tag(x) = Tag(y) => Q(v) # Q(w))
  <2>1. \A z : IsFiniteSet(P(z)) /\ IsFiniteSet(Q(z))
    <3> TAKE z
    <3>1. P(z) \subseteq d.elements /\ Q(z) \subseteq d.elements
      OBVIOUS
    <3> HIDE DEF P, Q
    <3> QED BY <1>1, <3>1, FS_Subset
  <2>2. P(v) \subseteq P(w)
    BY <1>1, <1>2
  <2>3. v \in P(w) /\ v \notin P(v)
    BY <1>1, <1>2
  <2>4. Q(v) \subseteq Q(w)
    BY <2>2
  <2>5. Tag(x) = Tag(y) => v \in Q(w) /\ v \notin Q(v)
    BY <1>2, <2>3
  <2> HIDE DEF P, Q
  <2> QED BY <2>1, <2>2, <2>3, <2>4, <2>5
<1>3. ASSUME NEW v \in {x, y}, NEW w \in {x, y}, place(v) < place(w)
      PROVE  /\ Cardinality(P(v)) # Cardinality(P(w))
             /\ Tag(x) = Tag(y) => Cardinality(Q(v)) # Cardinality(Q(w))
  <2> HIDE DEF P, Q, place
  <2> QED BY <1>2, <1>3, FS_Subset
<1>4. \A z \in d.elements \ {<<>>} : Preceding(d, {z}) = P(z)
  BY DEF Preceding
<1>5. \A z \in {x, y} : Tag(x) = Tag(y) => Index(d, {z}, Tag(z)) = Cardinality(Q(z))
  <2> TAKE z \in {x, y}
  <2>1. Preceding(d, {z}) = P(z)
    BY <1>4
  <2> QED BY <2>1 DEF Index
<1>6. place(x) < place(y) \/ place(y) < place(x) \/ x = y
  BY <1>1
<1> HIDE DEF P, Q, place
<1> QED BY <1>3, <1>4, <1>5, <1>6

(* One step further along two paths.                                       *)
OneStep(f, x, y, n) ==
  /\ n \in 1 .. Len(y) /\ Up(x, n - 1) = Up(y, n - 1)
  /\ \/ /\ x[n][1] = y[n][1]
        /\ \/ Single(docs[f], Up(x, n))
           \/ Index(docs[f], {Up(x, n)}, x[n][1]) = Index(docs[f], {Up(y, n)}, x[n][1])
     \/ Cardinality(Preceding(docs[f], {Up(x, n)})) =
          Cardinality(Preceding(docs[f], {Up(y, n)}))

LEMMA StepsMeet ==
  ASSUME docs \in Extract, NEW f, NEW x, NEW y, IsElement(f, x), IsElement(f, y)
  PROVE  \A n \in 1 .. Len(x) : OneStep(f, x, y, n) => Up(x, n) = Up(y, n)
<1> SUFFICES ASSUME NEW n \in 1 .. Len(x), OneStep(f, x, y, n)
             PROVE  Up(x, n) = Up(y, n)
  OBVIOUS
<1> USE DEF OneStep
<1> DEFINE d == docs[f]
           v == Up(x, n)
           w == Up(y, n)
<1>1. ASSUME NEW z \in {x, y}
      PROVE  /\ Up(z, n) \in d.elements \ {<<>>} /\ Parent(Up(z, n)) = Up(z, n - 1)
             /\ Tag(Up(z, n)) = z[n][1]
  <2>1. z \in Path /\ \A m \in 0 .. Len(z) : Up(z, m) \in d.elements
    BY SwrsTransformLoadAssumption DEF Path, Up, IsElement
  <2>2. Len(z) \in Nat /\ n \in 1 .. Len(z) /\ n \in 0 .. Len(z) /\ n > 0 /\ n - 1 \in 0 .. n
    BY <2>1, LenProperties DEF Path
  <2>3. /\ Up(z, n) # <<>> /\ Tag(Up(z, n)) = z[n][1] /\ Up(z, n) \in Path
        /\ Len(Up(z, n)) = n /\ Up(Up(z, n), n - 1) = Up(z, n - 1)
    BY <2>1, <2>2, UpIs
  <2>4. Parent(Up(z, n)) = Up(z, n - 1)
    BY <2>3, ParentIs
  <2> QED BY <2>1, <2>2, <2>3, <2>4
<1>2. v \in d.elements \ {<<>>} /\ w \in d.elements \ {<<>>} /\ Parent(v) = Parent(w)
  BY <1>1
<1>3. CASE x[n][1] = y[n][1] /\ Single(d, v)
  BY <1>1, <1>2, <1>3 DEF Single
<1>4. ASSUME NEW g \in DOMAIN docs, NEW p \in docs[g].elements \ {<<>>},
             NEW q \in docs[g].elements \ {<<>>}, Parent(p) = Parent(q)
      PROVE  /\ Cardinality(Preceding(docs[g], {p})) = Cardinality(Preceding(docs[g], {q})) => p = q
             /\ Tag(p) = Tag(q) /\ Index(docs[g], {p}, Tag(p)) = Index(docs[g], {q}, Tag(q)) => p = q
  BY <1>4, SiblingsAreApart
<1>5. f \in DOMAIN docs
  BY DEF IsElement
<1>6. CASE x[n][1] = y[n][1] /\ Index(d, {v}, x[n][1]) = Index(d, {w}, x[n][1])
  <2>1. Tag(v) = x[n][1] /\ Tag(w) = x[n][1]
    BY <1>1, <1>6
  <2>2. v = w
    <3> HIDE DEF v, w
    <3> QED BY <1>2, <1>4, <1>5, <1>6, <2>1
  <2> QED BY <2>2
<1>7. CASE Cardinality(Preceding(d, {v})) = Cardinality(Preceding(d, {w}))
  <2>1. v = w
    <3> HIDE DEF v, w
    <3> QED BY <1>2, <1>4, <1>5, <1>7
  <2> QED BY <2>1
<1> QED BY <1>3, <1>6, <1>7

-----------------------------------------------------------------------------
(* Elements that their keys do not tell apart are one.                     *)
LEMMA NamesAre ==
  ASSUME NEW x \in Path, NEW y \in Path, Names(x) = Names(y)
  PROVE  /\ Len(x) = Len(y) /\ \A n \in 1 .. Len(x) : x[n][1] = y[n][1]
         /\ \A m \in 0 .. Len(x) : Names(Up(x, m)) = Names(Up(y, m))
<1>1. /\ DOMAIN x = 1 .. Len(x) /\ Len(x) \in Nat
      /\ DOMAIN y = 1 .. Len(y) /\ Len(y) \in Nat
  BY LenProperties DEF Path
<1>2. DOMAIN x = DOMAIN y /\ \A n \in DOMAIN x : x[n][1] = y[n][1]
  <2>1. /\ DOMAIN Names(x) = DOMAIN x /\ DOMAIN Names(y) = DOMAIN y
        /\ \A n \in DOMAIN x : Names(x)[n] = x[n][1]
        /\ \A n \in DOMAIN y : Names(y)[n] = y[n][1]
    BY DEF Names
  <2> QED BY <2>1
<1>3. Len(x) = Len(y)
  <2>1. ASSUME NEW a \in Nat, NEW b \in Nat, 1 .. a = 1 .. b PROVE a = b
    <3>1. a < b => b \in 1 .. b /\ b \notin 1 .. a
      OBVIOUS
    <3>2. b < a => a \in 1 .. a /\ a \notin 1 .. b
      OBVIOUS
    <3> QED BY <2>1, <3>1, <3>2
  <2> QED BY <1>1, <1>2, <2>1
<1>4. ASSUME NEW m \in 0 .. Len(x)
      PROVE  Names(Up(x, m)) = Names(Up(y, m))
  <2>1. m \in 0 .. Len(y)
    BY <1>3
  <2>2. \A z \in {x, y} : /\ Up(z, m) \in Path /\ Len(Up(z, m)) = m
                          /\ \A n \in 1 .. m : Up(z, m)[n] = z[n]
    BY <2>1, UpIs
  <2>3. \A z \in {x, y} : DOMAIN Up(z, m) = 1 .. m
    BY <2>2, LenProperties DEF Path
  <2>4. \A n \in 1 .. m : Up(x, m)[n][1] = Up(y, m)[n][1]
    BY <1>1, <1>2, <2>2
  <2> QED BY <2>3, <2>4 DEF Names
<1> QED BY <1>1, <1>2, <1>3, <1>4

LEMMA StepsMeetAlong ==
  ASSUME docs \in Extract, NEW f, NEW x \in Path, NEW y \in Path,
         IsElement(f, x), IsElement(f, y), Names(x) = Names(y),
         \A n \in 1 .. Len(x) :
           \/ Single(docs[f], Up(x, n))
           \/ Index(docs[f], {Up(x, n)}, x[n][1]) = Index(docs[f], {Up(y, n)}, x[n][1])
           \/ Cardinality(Preceding(docs[f], {Up(x, n)})) =
                Cardinality(Preceding(docs[f], {Up(y, n)}))
  PROVE  x = y
<1>1. Len(x) = Len(y) /\ \A n \in 1 .. Len(x) : x[n][1] = y[n][1]
  BY NamesAre
<1>2. ASSUME NEW n \in 1 .. Len(x), Up(x, n - 1) = Up(y, n - 1)
      PROVE  Up(x, n) = Up(y, n)
  <2>1. n \in 1 .. Len(y) /\ x[n][1] = y[n][1]
    BY <1>1
  <2>2. \A i \in 1 .. Len(x) : OneStep(f, x, y, i) => Up(x, i) = Up(y, i)
    BY StepsMeet
  <2>3. OneStep(f, x, y, n)
    BY <1>2, <2>1 DEF OneStep
  <2> QED BY <2>2, <2>3
<1> QED BY <1>1, <1>2, PathsMeet

LEMMA SameElement ==
  ASSUME docs \in Extract, ReportsAreNested, ReportsAreListed, NEW f, NEW x, NEW y,
         IsElement(f, x), IsElement(f, y),
         Tag(x) \in ByPlace \cup ByContext, Names(x) = Names(y),
         \A n \in 1 .. Len(x) : x[n][1] \in Counted(Tag(x)) \/ n = Len(x) =>
           Index(docs[f], {Up(x, n)}, x[n][1]) = Index(docs[f], {Up(y, n)},
           x[n][1])
  PROVE  x = y
<1>1. x \in Path /\ y \in Path /\ Len(x) \in Nat
  BY ElementsAreNested, LenProperties DEF Path
<1>2. ASSUME NEW n \in 1 .. Len(x)
      PROVE  \/ Single(docs[f], Up(x, n))
             \/ Index(docs[f], {Up(x, n)}, x[n][1]) = Index(docs[f], {Up(y, n)}, x[n][1])
  <2>1. n = Len(x) \/ n \in 1 .. Len(x) - 1
    BY <1>1
  <2>2. n \in 1 .. Len(x) - 1 => x[n][1] \in Counted(Tag(x)) \/ Single(docs[f],
  Up(x, n))
    <3>1. ListedReport(docs[f]) /\ x \in Tagged(docs[f], ByPlace \cup ByContext)
      BY DEF ReportsAreListed, IsElement, Tagged
    <3> QED BY <3>1 DEF ListedReport, Up
  <2> QED BY <2>1, <2>2
<1> QED BY <1>1, <1>2, StepsMeetAlong

PlaceCounts(f, x) ==
  \A n \in 1 .. Len(x) : x[n][1] \in IndexedTag =>
    Index(docs[f], {Up(x, n)}, x[n][1]) = Position(docs[f], x)[x[n][1]]

LEMMA PlacesCount ==
  ASSUME docs \in Extract, ReportsAreNested, NEW f, NEW x, IsElement(f, x)
  PROVE  PlaceCounts(f, x)
<1>1. x \in Path /\ Leveled(x)
  BY ElementsAreNested
<1> SUFFICES ASSUME NEW n \in 1 .. Len(x), x[n][1] \in IndexedTag
             PROVE  Index(docs[f], {Up(x, n)}, x[n][1]) = Position(docs[f], x)[x[n][1]]
  BY DEF PlaceCounts
<1>2. x[n][1] \in DOMAIN Level
  BY Levels DEF IndexedTag
<1>3. SelfOrAncestor(x, x[n][1]) = {Up(x, n)}
  BY <1>1, <1>2, Inside
<1>4. Position(docs[f], x)[x[n][1]] = Index(docs[f], SelfOrAncestor(x, x[n][1]), x[n][1])
  BY DEF Position
<1> QED BY <1>3, <1>4

LEMMA SameIndices ==
  ASSUME docs \in Extract, ReportsAreNested, NEW f, NEW x, NEW y,
         IsElement(f, x), IsElement(f, y), Names(x) = Names(y),
         Position(docs[f], x) = Position(docs[f], y)
  PROVE  \A n \in 1 .. Len(x) : x[n][1] \in IndexedTag =>
           Index(docs[f], {Up(x, n)}, x[n][1]) = Index(docs[f], {Up(y, n)},
           x[n][1])
<1>1. x \in Path /\ y \in Path
  BY ElementsAreNested
<1>2. Len(x) = Len(y) /\ \A n \in 1 .. Len(x) : x[n][1] = y[n][1]
  BY <1>1, NamesAre
<1>3. PlaceCounts(f, x) /\ PlaceCounts(f, y)
  BY PlacesCount
<1> QED BY <1>2, <1>3 DEF PlaceCounts

(* What two elements of one position are in.                               *)
Placed == {"SubProcess", "Unit", "Fuel"}
LEMMA SameBeginning ==
  ASSUME docs \in Extract, ReportsAreNested, ReportsAreListed, NEW f, NEW x, NEW y,
         IsElement(f, x), IsElement(f, y), Names(x) = Names(y),
         Position(docs[f], x) = Position(docs[f], y),
         NEW m \in 1 .. Len(x), x[m][1] \in Placed
  PROVE  Up(x, m) = Up(y, m)
<1> DEFINE v == Up(x, m)
           w == Up(y, m)
<1>1. /\ x \in Path /\ y \in Path /\ Len(x) \in Nat /\ m \in 0 .. Len(x) /\ m > 0
      /\ \A n \in 0 .. Len(x) : IsElement(f, Up(x, n))
      /\ \A n \in 0 .. Len(y) : IsElement(f, Up(y, n))
  <2>1. x \in Path /\ y \in Path
    BY ElementsAreNested
  <2>2. Len(x) \in Nat
    BY <2>1, LenProperties DEF Path
  <2> QED BY <2>1, <2>2, ElementsAreNested
<1>2. /\ Len(x) = Len(y) /\ Names(v) = Names(w)
      /\ \A n \in 1 .. Len(x) : x[n][1] = y[n][1]
  BY <1>1, NamesAre
<1>3. /\ IsElement(f, v) /\ IsElement(f, w) /\ v # <<>> /\ Tag(v) = x[m][1]
      /\ Len(v) = m /\ \A n \in 1 .. m : v[n] = x[n] /\ Up(v, n) = Up(x, n) /\ Up(w, n) = Up(y, n)
  BY <1>1, <1>2, UpIs
<1>4. Tag(v) \in ByPlace /\ Counted(Tag(v)) = IndexedTag /\ x[m][1] \in IndexedTag
  BY <1>3 DEF Placed, ByPlace, Counted, IndexedTag
<1>5. ASSUME NEW n \in 1 .. m, v[n][1] \in IndexedTag
      PROVE  Index(docs[f], {Up(v, n)}, v[n][1]) = Index(docs[f], {Up(w, n)}, v[n][1])
  <2>1. n \in 1 .. Len(x) /\ v[n][1] = x[n][1]
    BY <1>1, <1>3
  <2>2. \A k \in 1 .. Len(x) : x[k][1] \in IndexedTag =>
          Index(docs[f], {Up(x, k)}, x[k][1]) = Index(docs[f], {Up(y, k)},
          x[k][1])
    BY SameIndices
  <2> QED BY <1>3, <1>5, <2>1, <2>2
<1>6. \A n \in 1 .. Len(v) : v[n][1] \in Counted(Tag(v)) \/ n = Len(v) =>
        Index(docs[f], {Up(v, n)}, v[n][1]) = Index(docs[f], {Up(w, n)},
        v[n][1])
  BY <1>1, <1>3, <1>4, <1>5
<1> HIDE DEF v, w
<1>7. v = w
  BY <1>2, <1>3, <1>4, <1>6, SameElement
<1> QED BY <1>7 DEF v, w

(* The elements of a report by the columns of their keys.                  *)
LEMMA NamesOfAPlace ==
  ASSUME docs \in Extract, ReportsAreListed, NEW f, NEW x, NEW y,
         IsElement(f, x), IsElement(f, y), Tag(x) = Tag(y)
  PROVE  /\ /\ Tag(x) \in ByPlace /\ ProcessOwner(x) = ProcessOwner(y)
            /\ Tag(x) = "Emission" =>
                 EmissionOwner(x, "Emissions") = EmissionOwner(y, "Emissions")
            => Names(x) = Names(y)
         /\ Tag(x) \in ByContext /\ PathContext(x) = PathContext(y) => Names(x) = Names(y)
<1>1. ListedReport(docs[f])
  BY DEF ReportsAreListed, IsElement
<1>2. Tag(x) \in ByPlace \cup ByContext =>
        /\ x \in Tagged(docs[f], ByPlace \cup ByContext)
        /\ y \in Tagged(docs[f], ByPlace \cup ByContext)
  BY DEF Tagged, IsElement
<1>3. Tag(x) \in ByContext => Tag(x) \notin ByPlace /\ Tag(x) # "Emission"
  BY DEF ByPlace, ByContext
<1> QED BY <1>1, <1>2, <1>3 DEF ListedReport

LEMMA LastStep ==
  ASSUME docs \in Extract, ReportsAreNested, NEW f, NEW x, IsElement(f, x),
         Tag(x) # "ReportData"
  PROVE  /\ x \in Path /\ x # <<>> /\ Len(x) \in Nat /\ Len(x) \in 1 .. Len(x)
         /\ x[Len(x)][1] = Tag(x) /\ Up(x, Len(x)) = x
<1>1. x \in Path /\ x # <<>>
  BY ElementsAreNested DEF Tag
<1> QED BY <1>1, ParentIs, UpIs DEF Tag

LEMMA PlacedApart ==
  ASSUME docs \in Extract, ReportsAreNested, ReportsAreListed, NEW f, NEW x, NEW y,
         IsElement(f, x), IsElement(f, y), Tag(x) = Tag(y), Tag(x) \in Placed,
         ProcessOwner(x) = ProcessOwner(y), Position(docs[f],
         x) = Position(docs[f], y)
  PROVE  x = y
<1>1. Tag(x) \in ByPlace /\ Tag(x) # "Emission" /\ Tag(x) # "ReportData"
  BY DEF Placed, ByPlace
<1>2. Names(x) = Names(y)
  BY <1>1, NamesOfAPlace
<1>3. /\ Len(x) \in 1 .. Len(x) /\ x[Len(x)][1] = Tag(x) /\ Up(x, Len(x)) = x
      /\ Up(y, Len(y)) = y /\ x \in Path /\ y \in Path
  BY <1>1, LastStep
<1>4. Len(x) = Len(y)
  BY <1>2, <1>3, NamesAre
<1>5. Up(x, Len(x)) = Up(y, Len(x))
  BY <1>2, <1>3, SameBeginning
<1> QED BY <1>3, <1>4, <1>5

LEMMA ListedApart ==
  ASSUME docs \in Extract, ReportsAreNested, ReportsAreListed, NEW f, NEW x, NEW y,
         IsElement(f, x), IsElement(f, y), Tag(x) = Tag(y),
         Tag(x) \in ByContext,
         PathContext(x) = PathContext(y),
         Index(docs[f], {x}, Tag(x)) = Index(docs[f], {y}, Tag(y))
  PROVE  x = y
<1>1. Counted(Tag(x)) = {} /\ Tag(x) # "ReportData" /\ Tag(x) \in ByPlace \cup ByContext
  BY DEF ByContext, ByPlace, Counted
<1>2. Names(x) = Names(y)
  BY NamesOfAPlace
<1>3. /\ x[Len(x)][1] = Tag(x) /\ Up(x, Len(x)) = x /\ Up(y, Len(y)) = y
      /\ x \in Path /\ y \in Path
  BY <1>1, LastStep
<1>4. Len(x) = Len(y)
  BY <1>2, <1>3, NamesAre
<1>5. \A n \in 1 .. Len(x) : x[n][1] \in Counted(Tag(x)) \/ n = Len(x) =>
        Index(docs[f], {Up(x, n)}, x[n][1]) = Index(docs[f], {Up(y, n)},
        x[n][1])
  BY <1>1, <1>3, <1>4
<1> QED BY <1>1, <1>2, <1>5, SameElement

(* ... which count what is in a unit more closely.                         *)
Itemized == {"Emission", "EIOEmission", "MeasuredEmissionFactor"}

LEMMA EmissionsAround ==
  ASSUME docs \in Extract, ReportsAreNested, NEW f, NEW x, IsElement(f, x),
         NEW n \in 1 .. Len(x), n < Len(x), x[n][1] = "Emissions"
  PROVE  Ancestor(x, "Emissions") = {Up(x, n)}
<1>1. x \in Path /\ Leveled(x) /\ "Emissions" \in DOMAIN Level
  BY ElementsAreNested, Levels
<1> QED BY <1>1, Inside

LEMMA ItemizedApart ==
  ASSUME docs \in Extract, ReportsAreNested, ReportsAreListed, NEW f, NEW x, NEW y,
         IsElement(f, x), IsElement(f, y), Tag(x) = Tag(y), Tag(x) \in Itemized,
         ProcessOwner(x) = ProcessOwner(y), Position(docs[f],
         x) = Position(docs[f], y),
         Index(docs[f], {x}, Tag(x)) = Index(docs[f], {y}, Tag(y)),
         Tag(x) = "Emission" =>
           /\ EmissionOwner(x, "Emissions") = EmissionOwner(y, "Emissions")
           /\ Index(docs[f], Ancestor(x, "Emissions"), "Emissions") =
                Index(docs[f], Ancestor(y, "Emissions"), "Emissions")
  PROVE  x = y
<1>1. /\ Tag(x) \in ByPlace /\ Tag(x) # "ReportData" /\ Tag(x) \in ByPlace \cup ByContext
      /\ Tag(x) # "Emissions"
  BY DEF Itemized, ByPlace
<1>2. Names(x) = Names(y)
  BY <1>1, NamesOfAPlace
<1>3. /\ x[Len(x)][1] = Tag(x) /\ Up(x, Len(x)) = x /\ Up(y, Len(y)) = y
      /\ x \in Path /\ y \in Path /\ Len(x) \in Nat
  BY <1>1, LastStep
<1>4. Len(x) = Len(y) /\ \A n \in 1 .. Len(x) : x[n][1] = y[n][1]
  BY <1>2, <1>3, NamesAre
<1>5. \A n \in 1 .. Len(x) : x[n][1] \in IndexedTag =>
        Index(docs[f], {Up(x, n)}, x[n][1]) = Index(docs[f], {Up(y, n)},
        x[n][1])
  BY <1>2, SameIndices
<1>6. ASSUME NEW n \in 1 .. Len(x), x[n][1] = "Emissions", Tag(x) = "Emission"
      PROVE  Index(docs[f], {Up(x, n)}, x[n][1]) = Index(docs[f], {Up(y, n)}, x[n][1])
  <2>1. n < Len(x) /\ n < Len(y) /\ n \in 1 .. Len(y) /\ y[n][1] = "Emissions"
    BY <1>1, <1>3, <1>4, <1>6
  <2>2. Ancestor(x, "Emissions") = {Up(x, n)}
    BY <1>6, <2>1, EmissionsAround
  <2>3. Ancestor(y, "Emissions") = {Up(y, n)}
    BY <2>1, EmissionsAround
  <2> QED BY <1>6, <2>2, <2>3
<1>7. Tag(x) # "Emission" => Counted(Tag(x)) = IndexedTag
  BY <1>1 DEF Counted
<1>8. Tag(x) = "Emission" => Counted(Tag(x)) = IndexedTag \cup {"Emissions"}
  BY DEF Counted
<1>9. \A n \in 1 .. Len(x) : x[n][1] \in Counted(Tag(x)) \/ n = Len(x) =>
        Index(docs[f], {Up(x, n)}, x[n][1]) = Index(docs[f], {Up(y, n)},
        x[n][1])
  <2> TAKE n \in 1 .. Len(x)
  <2>1. CASE n = Len(x)
    BY <1>3, <1>4, <2>1
  <2>2. CASE x[n][1] \in IndexedTag
    BY <1>5, <2>2
  <2>3. CASE x[n][1] = "Emissions" /\ Tag(x) = "Emission"
    BY <1>6, <2>3
  <2> QED BY <1>7, <1>8, <2>1, <2>2, <2>3
<1> QED BY <1>1, <1>2, <1>9, SameElement

(* The rows of a view that have one key are of one element.                *)
Apart(V) == \A x, y \in V : x.file = y.file /\ x.key = y.key => x.elem = y.elem

LEMMA PlacedRowsApart ==
  ASSUME docs \in Extract, ReportsAreNested, ReportsAreListed
  PROVE  Apart(ActivityView(docs)) /\ Apart(UnitView(docs)) /\ Apart(FuelView(docs))
<1>1. ASSUME NEW x, NEW y, x.file = y.file, x.key = y.key, Tag(x.elem) = Tag(y.elem),
             Tag(x.elem) \in Placed, InProcess(x), InProcess(y)
      PROVE  x.elem = y.elem
  <2>1. /\ ProcessOwner(x.elem) = ProcessOwner(y.elem)
        /\ Position(docs[x.file], x.elem) = Position(docs[x.file], y.elem)
        /\ IsElement(x.file, x.elem) /\ IsElement(x.file, y.elem)
    BY <1>1 DEF InProcess
  <2> QED BY <1>1, <2>1, PlacedApart
<1>2. \A x \in ActivityView(docs) : InProcess(x) /\ Tag(x.elem) = "SubProcess"
  <2> TAKE x \in ActivityView(docs)
  <2>1. /\ IsElement(x.file, x.elem) /\ Tag(x.elem) = "SubProcess"
        /\ x.key = ProcessKey(docs[x.file], x.elem)
    BY ActivityRows
  <2> QED BY <2>1 DEF InProcess, ProcessKey
<1>3. \A x \in UnitView(docs) : InProcess(x) /\ Tag(x.elem) = "Unit"
  <2> TAKE x \in UnitView(docs)
  <2>1. /\ IsElement(x.file, x.elem) /\ Tag(x.elem) = "Unit"
        /\ x.key = ProcessKey(docs[x.file], x.elem)
    BY UnitRows
  <2> QED BY <2>1 DEF InProcess, ProcessKey
<1>4. \A x \in FuelView(docs) : InProcess(x) /\ Tag(x.elem) = "Fuel"
  <2> TAKE x \in FuelView(docs)
  <2>1. /\ IsElement(x.file, x.elem) /\ Tag(x.elem) = "Fuel"
        /\ x.key = FuelKey(docs[x.file], x.elem)
    BY FuelRows
  <2>2. FirstActivity(docs[x.file], x.elem) = ProcessOwner(x.elem)
    BY <2>1, ElementsAreNested DEF NestedElement
  <2> QED BY <2>1, <2>2 DEF InProcess, FuelKey
<1> QED BY <1>1, <1>2, <1>3, <1>4 DEF Apart, Placed

LEMMA FactorsActivity ==
  ASSUME docs \in Extract, ReportsAreNested, NEW f, NEW e, IsElement(f, e),
         Ancestor(e, "Fuel") # {}
  PROVE  FirstActivity(docs[f], e) = ProcessOwner(e)
<1>1. e \in Path /\ Leveled(e)
  BY ElementsAreNested
<1>2. PICK n : Enters(f, e, "Fuel", n)
  BY Levels, EnclosingIs
<1>3. /\ Ancestor(e, "ActivityData") = Ancestor(Up(e, n), "ActivityData")
      /\ Ancestor(e, "Process") = Ancestor(Up(e, n), "Process")
  BY <1>1, <1>2, Levels, Inside DEF Enters
<1>4. FirstActivity(docs[f], Up(e, n)) = ProcessOwner(Up(e, n))
  BY <1>2, ElementsAreNested DEF NestedElement, Enters
<1> QED BY <1>3, <1>4 DEF FirstActivity, ProcessOwner

LEMMA ItemizedRowsApart ==
  ASSUME docs \in Extract, ReportsAreNested, ReportsAreListed
  PROVE  /\ Apart(EmissionView(docs)) /\ Apart(EioEmissionView(docs))
         /\ Apart(MeasuredEmissionFactorView(docs))
<1>1. ASSUME NEW x, NEW T \in {"EIOEmission", "MeasuredEmissionFactor"},
             NEW y, x.file = y.file, x.key = y.key, Tag(x.elem) = T, Tag(y.elem) = T,
             InProcess(x), InProcess(y),
             Index(docs[x.file], {x.elem}, T) = Index(docs[y.file], {y.elem}, T)
      PROVE  x.elem = y.elem
  <2>1. /\ ProcessOwner(x.elem) = ProcessOwner(y.elem)
        /\ Position(docs[x.file], x.elem) = Position(docs[x.file], y.elem)
        /\ IsElement(x.file, x.elem) /\ IsElement(x.file, y.elem)
    BY <1>1 DEF InProcess
  <2>2. Tag(x.elem) \in Itemized /\ Tag(x.elem) # "Emission"
    BY <1>1 DEF Itemized
  <2> QED BY <1>1, <2>1, <2>2, ItemizedApart
<1>2. ASSUME NEW x \in EmissionView(docs), NEW y \in EmissionView(docs),
             x.file = y.file, x.key = y.key
      PROVE  x.elem = y.elem
  <2>1. \A z \in EmissionView(docs) :
          /\ IsElement(z.file, z.elem) /\ Tag(z.elem) = "Emission"
          /\ z.key = EmissionKey(docs[z.file], z.elem)
    BY EmissionRows
  <2>2. \A z \in EmissionView(docs) :
          /\ z.key.activity = ProcessOwner(z.elem)
          /\ z.key.at = Position(docs[z.file], z.elem)
          /\ z.key.owner = EmissionOwner(z.elem, "Emissions")
          /\ z.key.emissions = Index(docs[z.file], Ancestor(z.elem, "Emissions"), "Emissions")
          /\ z.key.emission = Index(docs[z.file], {z.elem}, "Emission")
    <3> TAKE z \in EmissionView(docs)
    <3>1. FirstActivity(docs[z.file], z.elem) = ProcessOwner(z.elem)
      BY <2>1, ElementsAreNested DEF NestedElement
    <3>2. z.key = EmissionKey(docs[z.file], z.elem)
      BY <2>1
    <3> QED BY <3>1, <3>2 DEF EmissionKey
  <2>3. /\ ProcessOwner(x.elem) = ProcessOwner(y.elem)
        /\ Position(docs[x.file], x.elem) = Position(docs[x.file], y.elem)
        /\ EmissionOwner(x.elem, "Emissions") = EmissionOwner(y.elem, "Emissions")
        /\ Index(docs[x.file], Ancestor(x.elem, "Emissions"), "Emissions")
             = Index(docs[x.file], Ancestor(y.elem, "Emissions"), "Emissions")
        /\ Index(docs[x.file], {x.elem}, "Emission") = Index(docs[x.file], {y.elem}, "Emission")
    BY <1>2, <2>2
  <2>4. /\ Tag(x.elem) = "Emission" /\ Tag(y.elem) = "Emission" /\ "Emission" \in Itemized
        /\ IsElement(x.file, x.elem) /\ IsElement(x.file, y.elem)
    BY <1>2, <2>1 DEF Itemized
  <2> QED BY <2>3, <2>4, ItemizedApart
<1>3. \A x \in EioEmissionView(docs) :
        /\ InProcess(x) /\ Tag(x.elem) = "EIOEmission"
        /\ x.key.emission = Index(docs[x.file], {x.elem}, "EIOEmission")
  <2> TAKE x \in EioEmissionView(docs)
  <2>1. /\ IsElement(x.file, x.elem) /\ Tag(x.elem) = "EIOEmission"
        /\ x.key = EioEmissionKey(docs[x.file], x.elem)
    BY EioEmissionRows
  <2>2. FirstActivity(docs[x.file], x.elem) = ProcessOwner(x.elem)
    BY <2>1, ElementsAreNested DEF NestedElement
  <2>3. /\ x.key.activity = ProcessOwner(x.elem)
        /\ x.key.at = Position(docs[x.file], x.elem)
        /\ x.key.emission = Index(docs[x.file], {x.elem}, "EIOEmission")
    BY <2>1, <2>2 DEF EioEmissionKey
  <2> QED BY <2>1, <2>3 DEF InProcess
<1>4. \A x \in MeasuredEmissionFactorView(docs) :
        /\ InProcess(x) /\ Tag(x.elem) = "MeasuredEmissionFactor"
        /\ x.key.factor = Index(docs[x.file], {x.elem}, "MeasuredEmissionFactor")
  <2> TAKE x \in MeasuredEmissionFactorView(docs)
  <2>1. /\ IsElement(x.file, x.elem) /\ Tag(x.elem) = "MeasuredEmissionFactor"
        /\ x.key = FactorKey(docs[x.file], x.elem)
    BY MeasuredFactorRows
  <2>2. Ancestor(x.elem, "Fuel") # {}
    BY <2>1, ElementsAreNested DEF NestedElement, Within
  <2>3. FirstActivity(docs[x.file], x.elem) = ProcessOwner(x.elem)
    BY <2>1, <2>2, FactorsActivity
  <2>4. /\ x.key.activity = ProcessOwner(x.elem)
        /\ x.key.at = Position(docs[x.file], x.elem)
        /\ x.key.factor = Index(docs[x.file], {x.elem}, "MeasuredEmissionFactor")
    BY <2>1, <2>3 DEF FactorKey
  <2> QED BY <2>1, <2>4 DEF InProcess
<1>5. Apart(EioEmissionView(docs))
  <2> SUFFICES ASSUME NEW x \in EioEmissionView(docs), NEW y \in EioEmissionView(docs),
                      x.file = y.file, x.key = y.key
               PROVE  x.elem = y.elem
    BY DEF Apart
  <2>1. Index(docs[x.file], {x.elem}, "EIOEmission") = Index(docs[y.file],
  {y.elem}, "EIOEmission")
    BY <1>3
  <2>2. /\ Tag(x.elem) = "EIOEmission" /\ Tag(y.elem) = "EIOEmission"
        /\ InProcess(x) /\ InProcess(y)
    BY <1>3
  <2> QED BY <1>1, <2>1, <2>2
<1>6. Apart(MeasuredEmissionFactorView(docs))
  <2> SUFFICES ASSUME NEW x \in MeasuredEmissionFactorView(docs), NEW y \in MeasuredEmissionFactorView(docs),
                      x.file = y.file, x.key = y.key
               PROVE  x.elem = y.elem
    BY DEF Apart
  <2>1. Index(docs[x.file], {x.elem},
  "MeasuredEmissionFactor") = Index(docs[y.file], {y.elem}, "MeasuredEmissionFactor")
    BY <1>4
  <2>2. /\ Tag(x.elem) = "MeasuredEmissionFactor" /\ Tag(y.elem) = "MeasuredEmissionFactor"
        /\ InProcess(x) /\ InProcess(y)
    BY <1>4
  <2> QED BY <1>1, <2>1, <2>2
<1> QED BY <1>2, <1>5, <1>6 DEF Apart

LEMMA IdentifierRows ==
  \A x \in IdentifierView(docs) :
    /\ IsElement(x.file, x.elem) /\ Tag(x.elem) = "Identifier"
    /\ x.key = ListedKey(docs[x.file], x.elem) /\ x.text = Text(docs[x.file], x.elem)
<1>1. \A x \in IdentifierView(docs) : \E f \in DOMAIN docs : \E e \in docs[f].elements :
        /\ Tag(e) = "Identifier"
        /\ x = [file |-> f, elem |-> e, text |-> Text(docs[f], e),
                key |-> ListedKey(docs[f], e)]
  BY DEF IdentifierView, PerElement
<1> TAKE x \in IdentifierView(docs)
<1>2. PICK f, e :
        /\ IsElement(f, e) /\ Tag(e) = "Identifier"
        /\ x = [file |-> f, elem |-> e, text |-> Text(docs[f], e),
                key |-> ListedKey(docs[f], e)]
  BY <1>1 DEF IsElement
<1>3. /\ x.file = f /\ x.elem = e
      /\ x.key = ListedKey(docs[f], e) /\ x.text = Text(docs[f], e)
  BY <1>2
<1> QED BY <1>2, <1>3

LEMMA NaicsRows ==
  \A x \in NaicsView(docs) :
    /\ IsElement(x.file, x.elem) /\ Tag(x.elem) = "NAICSCode"
    /\ x.key = ListedKey(docs[x.file], x.elem) /\ x.text = Text(docs[x.file], x.elem)
<1>1. \A x \in NaicsView(docs) : \E f \in DOMAIN docs : \E e \in docs[f].elements :
        /\ Tag(e) = "NAICSCode"
        /\ x = [file |-> f, elem |-> e, text |-> Text(docs[f], e),
                key |-> ListedKey(docs[f], e)]
  BY DEF NaicsView, PerElement
<1> TAKE x \in NaicsView(docs)
<1>2. PICK f, e :
        /\ IsElement(f, e) /\ Tag(e) = "NAICSCode"
        /\ x = [file |-> f, elem |-> e, text |-> Text(docs[f], e),
                key |-> ListedKey(docs[f], e)]
  BY <1>1 DEF IsElement
<1>3. /\ x.file = f /\ x.elem = e
      /\ x.key = ListedKey(docs[f], e) /\ x.text = Text(docs[f], e)
  BY <1>2
<1> QED BY <1>2, <1>3

LEMMA PermitRows ==
  \A x \in PermitView(docs) :
    /\ IsElement(x.file, x.elem) /\ Tag(x.elem) = "Permit"
    /\ x.key = ListedKey(docs[x.file], x.elem) /\ x.text = Text(docs[x.file], x.elem)
<1>1. \A x \in PermitView(docs) : \E f \in DOMAIN docs : \E e \in docs[f].elements :
        /\ Tag(e) = "Permit"
        /\ x = [file |-> f, elem |-> e, text |-> Text(docs[f], e),
                key |-> ListedKey(docs[f], e)]
  BY DEF PermitView, PerElement
<1> TAKE x \in PermitView(docs)
<1>2. PICK f, e :
        /\ IsElement(f, e) /\ Tag(e) = "Permit"
        /\ x = [file |-> f, elem |-> e, text |-> Text(docs[f], e),
                key |-> ListedKey(docs[f], e)]
  BY <1>1 DEF IsElement
<1>3. /\ x.file = f /\ x.elem = e
      /\ x.key = ListedKey(docs[f], e) /\ x.text = Text(docs[f], e)
  BY <1>2
<1> QED BY <1>2, <1>3

LEMMA GrandTotalsRows ==
  \A x \in HistoricalEmissionView(docs) :
    /\ IsElement(x.file, x.elem) /\ Tag(x.elem) = "TotalEmissions"
    /\ x.key = Null /\ x.text = Text(docs[x.file], x.elem)
<1>1. \A x \in HistoricalEmissionView(docs) : \E f \in DOMAIN docs : \E e \in docs[f].elements :
        /\ Tag(e) = "TotalEmissions"
        /\ x = [file |-> f, elem |-> e, text |-> Text(docs[f], e),
                key |-> Null]
  BY DEF HistoricalEmissionView, PerElement
<1> TAKE x \in HistoricalEmissionView(docs)
<1>2. PICK f, e :
        /\ IsElement(f, e) /\ Tag(e) = "TotalEmissions"
        /\ x = [file |-> f, elem |-> e, text |-> Text(docs[f], e),
                key |-> Null]
  BY <1>1 DEF IsElement
<1>3. /\ x.file = f /\ x.elem = e
      /\ x.key = Null /\ x.text = Text(docs[f], e)
  BY <1>2
<1> QED BY <1>2, <1>3

LEMMA ListedRowsApart ==
  ASSUME docs \in Extract, ReportsAreNested, ReportsAreListed
  PROVE  /\ Apart(IdentifierView(docs)) /\ Apart(NaicsView(docs)) /\ Apart(PermitView(docs))
         /\ Apart(ContactView(docs)) /\ Apart(ParentOrganisationView(docs))
<1> DEFINE Listed(x, T) == /\ IsElement(x.file, x.elem) /\ Tag(x.elem) = T
                           /\ x.key = ListedKey(docs[x.file], x.elem)
<1>1. ASSUME NEW T \in ByContext, NEW x, NEW y, x.file = y.file, x.key = y.key,
             Listed(x, T), Listed(y, T)
      PROVE  x.elem = y.elem
  <2>1. ListedKey(docs[x.file], x.elem) = ListedKey(docs[x.file], y.elem)
    BY <1>1
  <2>2. /\ PathContext(x.elem) = PathContext(y.elem)
        /\ Index(docs[x.file], {x.elem}, Tag(x.elem)) =
             Index(docs[x.file], {y.elem}, Tag(y.elem))
    BY <2>1 DEF ListedKey
  <2> QED BY <1>1, <2>2, ListedApart
<1>2. ASSUME NEW T \in ByContext, NEW V, \A x \in V : Listed(x, T)
      PROVE  Apart(V)
  <2> HIDE DEF Listed
  <2> QED BY <1>1, <1>2 DEF Apart
<1>3. Apart(IdentifierView(docs))
  <2>1. \A x \in IdentifierView(docs) : Listed(x, "Identifier")
    BY IdentifierRows
  <2>2. "Identifier" \in ByContext
    BY DEF ByContext
  <2> HIDE DEF Listed
  <2> QED BY <1>2, <2>1, <2>2
<1>4. Apart(NaicsView(docs))
  <2>1. \A x \in NaicsView(docs) : Listed(x, "NAICSCode")
    BY NaicsRows
  <2>2. "NAICSCode" \in ByContext
    BY DEF ByContext
  <2> HIDE DEF Listed
  <2> QED BY <1>2, <2>1, <2>2
<1>5. Apart(PermitView(docs))
  <2>1. \A x \in PermitView(docs) : Listed(x, "Permit")
    BY PermitRows
  <2>2. "Permit" \in ByContext
    BY DEF ByContext
  <2> HIDE DEF Listed
  <2> QED BY <1>2, <2>1, <2>2
<1>6. Apart(ContactView(docs))
  <2>1. \A x \in ContactView(docs) : Listed(x, "Contact")
    BY ContactRows
  <2>2. "Contact" \in ByContext
    BY DEF ByContext
  <2> HIDE DEF Listed
  <2> QED BY <1>2, <2>1, <2>2
<1>7. Apart(ParentOrganisationView(docs))
  <2>1. \A x \in ParentOrganisationView(docs) : Listed(x, "ParentOrganisation")
    BY ParentRows
  <2>2. "ParentOrganisation" \in ByContext
    BY DEF ByContext
  <2> HIDE DEF Listed
  <2> QED BY <1>2, <2>1, <2>2
<1> QED BY <1>3, <1>4, <1>5, <1>6, <1>7

LEMMA TotalsRowsApart ==
  ASSUME docs \in Extract, ReportsAreNested, Regular
  PROVE  Apart(R3EmissionView(docs)) /\ Apart(HistoricalEmissionView(docs))
<1>1. ASSUME NEW f \in DOMAIN docs
      PROVE  /\ AtMostOne(Tagged(docs[f], {"TotalEmissions"}))
             /\ docs[f].details.type = "R3" =>
                  AtMostOne({Parent(e) : e \in Tagged(docs[f], {"TotalRow"})})
  BY DEF Regular, RegularReport
<1>2. ASSUME NEW x \in R3EmissionView(docs), NEW y \in R3EmissionView(docs),
             x.file = y.file, x.key = y.key
      PROVE  x.elem = y.elem
  <2>1. \A z \in {x, y} :
          /\ IsElement(x.file, z.elem) /\ Tag(z.elem) = "TotalRow"
          /\ docs[x.file].details.type = "R3"
          /\ z.key = R3EmissionKey(docs[x.file], z.elem)
    BY <1>2, R3EmissionRows
  <2>2. R3EmissionKey(docs[x.file], x.elem) = R3EmissionKey(docs[x.file],
  y.elem)
    BY <1>2, <2>1
  <2>3. Index(docs[x.file], {x.elem}, "TotalRow") = Index(docs[x.file],
  {y.elem}, "TotalRow")
    BY <2>2 DEF R3EmissionKey
  <2>4. Parent(x.elem) = Parent(y.elem)
    <3>1. x.elem \in Tagged(docs[x.file], {"TotalRow"}) /\ y.elem \in Tagged(docs[x.file], {"TotalRow"})
      BY <2>1 DEF Tagged, IsElement
    <3>2. AtMostOne({Parent(e) : e \in Tagged(docs[x.file], {"TotalRow"})})
      BY <1>1, <2>1 DEF IsElement
    <3> QED BY <3>1, <3>2 DEF AtMostOne
  <2>5. x.elem \in docs[x.file].elements \ {<<>>} /\ y.elem \in docs[x.file].elements \ {<<>>}
    BY <2>1 DEF Tag, IsElement
  <2>6. ASSUME NEW f \in DOMAIN docs, NEW v \in docs[f].elements \ {<<>>},
               NEW w \in docs[f].elements \ {<<>>}, Parent(v) = Parent(w), Tag(v) = Tag(w),
               Index(docs[f], {v}, Tag(v)) = Index(docs[f], {w}, Tag(w))
        PROVE  v = w
    BY <2>6, SiblingsAreApart
  <2> QED BY <2>1, <2>3, <2>4, <2>5, <2>6 DEF IsElement
<1>3. ASSUME NEW x \in HistoricalEmissionView(docs), NEW y \in HistoricalEmissionView(docs),
             x.file = y.file
      PROVE  x.elem = y.elem
  <2>1. \A z \in {x, y} : IsElement(x.file, z.elem) /\ Tag(z.elem) = "TotalEmissions"
    BY <1>3, GrandTotalsRows
  <2>2. \A z \in {x, y} : z.elem \in Tagged(docs[x.file], {"TotalEmissions"})
    BY <2>1 DEF Tagged, IsElement
  <2> QED BY <1>1, <2>1, <2>2 DEF AtMostOne, IsElement
<1> QED BY <1>2, <1>3 DEF Apart

-----------------------------------------------------------------------------
(* What describes a sub-process: counted step by step down to it.          *)
LEMMA DepthIs ==
  ASSUME docs \in Extract, ReportsAreNested, NEW f, NEW x, IsElement(f, x),
         Depth(x) # 0
  PROVE  \E n : Enters(f, x, "SubProcess", n) /\ Depth(x) = Len(x) - n
<1>1. Ancestor(x, "SubProcess") # {}
  BY DEF Depth
<1>2. PICK n : Enters(f, x, "SubProcess", n)
  BY <1>1, Levels, EnclosingIs
<1>3. x \in Path /\ Len(x) \in Nat /\ n \in 0 .. Len(x)
  BY <1>2, ElementsAreNested, LenProperties DEF Path, Enters
<1>4. (CHOOSE a \in Ancestor(x, "SubProcess") : TRUE) = Up(x, n)
  BY <1>2 DEF Enters
<1>5. Len(Up(x, n)) = n
  BY <1>3, UpIs
<1>6. Depth(x) = IF x[n + 1][1] = "Units" THEN 0 ELSE Len(x) - n
  BY <1>1, <1>4, <1>5 DEF Depth
<1> QED BY <1>2, <1>6

(* The numbers in the key of a description.                                *)
CountAbove(d, e, n) == Cardinality(Preceding(d, {Above(e, n)}))
SameCounts(d, x, y) ==
  /\ Cardinality(Preceding(d, {x})) = Cardinality(Preceding(d, {y}))
  /\ Depth(x) \in {3, 5} => CountAbove(d, x, 1) = CountAbove(d, y, 1)
  /\ Depth(x) = 5 => CountAbove(d, x, 3) = CountAbove(d, y, 3)

LEMMA DescriptionKey ==
  ASSUME NEW d, NEW x, NEW y, AdditionalDataKey(d, x) = AdditionalDataKey(d, y),
         Depth(x) = Depth(y)
  PROVE  SameCounts(d, x, y)
<1> DEFINE k(e) == AdditionalDataKey(d, e)
<1>1. \A e : k(e).class = Cardinality(Preceding(d, {e}))
  BY DEF AdditionalDataKey
<1>2. \A e : Depth(e) = 5 => /\ k(e).grandparent = CountAbove(d, e, 3)
                             /\ k(e).parentIndex = CountAbove(d, e, 1)
  BY DEF AdditionalDataKey, Parent, CountAbove
<1>3. \A e : Depth(e) = 3 => k(e).grandparent = CountAbove(d, e, 1)
  BY DEF AdditionalDataKey, Parent, CountAbove
<1>4. k(x) = k(y)
  OBVIOUS
<1> HIDE DEF k
<1> QED BY <1>1, <1>2, <1>3, <1>4 DEF SameCounts

LEMMA DescribedApart ==
  ASSUME docs \in Extract, ReportsAreNested, ReportsAreListed, Regular,
         NEW f, NEW x, NEW y, IsElement(f, x), IsElement(f, y),
         x \in Described(docs[f]), y \in Described(docs[f]),
         AdditionalDataKey(docs[f], x) = AdditionalDataKey(docs[f], y)
  PROVE  x = y
<1> DEFINE d == docs[f]
           N == Len(x)
           Count(e) == Cardinality(Preceding(d, {e}))
           Meets(i) == Up(x, i) = Up(y, i)
<1>1. /\ Depth(x) \in {1, 2, 3, 5} /\ Depth(y) \in {1, 2, 3, 5} /\ ListedReport(d)
  BY DEF Described, ReportsAreListed, IsElement
<1>2. /\ ProcessOwner(x) = ProcessOwner(y) /\ Tag(x) = Tag(y)
      /\ Tag(Parent(x)) = Tag(Parent(y)) /\ Position(d, x) = Position(d, y)
  <2> DEFINE k(e) == AdditionalDataKey(d, e)
  <2>1. \A e : /\ k(e).activity = ProcessOwner(e) /\ k(e).at = Position(d, e)
               /\ k(e).names = <<Tag(Parent(e)), Tag(e)>>
    BY DEF AdditionalDataKey
  <2>2. k(x) = k(y)
    OBVIOUS
  <2> HIDE DEF k
  <2> QED BY <2>1, <2>2
<1>3. Names(x) = Names(y)
  BY <1>1, <1>2 DEF ListedReport
<1>4. /\ x \in Path /\ y \in Path /\ N \in Nat /\ Len(y) = N
      /\ \A i \in 1 .. N : x[i][1] = y[i][1]
  <2>1. x \in Path /\ y \in Path
    BY ElementsAreNested
  <2> QED BY <1>3, <2>1, NamesAre, LenProperties DEF Path
<1>5. PICK n : Enters(f, x, "SubProcess", n) /\ Depth(x) = N - n
  BY <1>1, DepthIs
<1>6. PICK m : Enters(f, y, "SubProcess", m) /\ Depth(y) = N - m
  BY <1>1, <1>4, DepthIs
<1>7. n = m
  <2>1. y[n][1] = "SubProcess" /\ n \in 1 .. Len(y) - 1 /\ n \in 0 .. Len(y) /\ m \in 0 .. Len(y)
    BY <1>4, <1>5, <1>6 DEF Enters
  <2>2. Up(y, n) \in Ancestor(y, "SubProcess")
    BY <1>4, <2>1, AncestorIs
  <2>3. Up(y, n) = Up(y, m)
    BY <1>6, <2>2 DEF Enters
  <2> QED BY <1>4, <2>1, <2>3, UpIs
<1>8. n \in 1 .. N /\ n < N /\ Depth(x) = Depth(y) /\ x[n][1] \in Placed
  BY <1>4, <1>5, <1>6, <1>7 DEF Enters, Placed
<1>9. Meets(n)
  BY <1>2, <1>3, <1>8, SameBeginning
<1>10. ASSUME NEW i \in 1 .. N, Meets(i - 1),
              Single(d, Up(x, i)) \/ Count(Up(x, i)) = Count(Up(y, i))
       PROVE  Meets(i)
  <2>1. OneStep(f, x, y, i)
    BY <1>4, <1>10 DEF OneStep
  <2>2. \A j \in 1 .. Len(x) : OneStep(f, x, y, j) => Up(x, j) = Up(y, j)
    BY StepsMeet
  <2> QED BY <2>1, <2>2
<1>11. \A e, i : Above(e, i) = Up(e, Len(e) - i)
  BY DEF Above, Up
<1>12. N - n \in {1, 2, 3, 5} /\ n + 1 \in 1 .. N
  BY <1>1, <1>4, <1>5, <1>8
<1>first. ASSUME N - n > 1 PROVE Meets(n + 1)
  <2>1. Above(x, Depth(x) - 1) = Up(x, n + 1) /\ (n + 1) - 1 = n
    BY <1>4, <1>5, <1>8, <1>11
  <2>2. Tag(Up(x, n + 1)) = "FileDetails" \/ Single(d, Up(x, n + 1))
    BY <1>1, <1>5, <1>first, <2>1 DEF ListedReport
  <2>3. CASE Single(d, Up(x, n + 1))
    BY <1>9, <1>10, <1>12, <2>1, <2>3
  <2>4. CASE Tag(Up(x, n + 1)) = "FileDetails"
    <3>1. ASSUME NEW z \in {x, y}
          PROVE  /\ Up(z, n + 1) \in d.elements \ {<<>>}
                 /\ Parent(Up(z, n + 1)) = Up(x, n)
                 /\ Tag(Up(z, n + 1)) = "FileDetails"
      <4>1. IsElement(f, z) /\ z \in Path /\ Len(z) = N /\ z[n + 1][1] = x[n + 1][1]
        BY <1>4, <1>12
      <4>2. n + 1 \in 0 .. Len(z) /\ n \in 0 .. n + 1 /\ n + 1 > 0
        BY <1>4, <1>8, <1>12, <4>1
      <4>3. /\ Up(z, n + 1) \in Path /\ Up(z, n + 1) # <<>> /\ Len(Up(z, n + 1)) = n + 1
            /\ Tag(Up(z, n + 1)) = z[n + 1][1] /\ Up(Up(z, n + 1), n) = Up(z, n)
        BY <4>1, <4>2, UpIs
      <4>4. Parent(Up(z, n + 1)) = Up(Up(z, n + 1), Len(Up(z, n + 1)) - 1)
        BY <4>3, ParentIs
      <4>5. Parent(Up(z, n + 1)) = Up(x, n)
        BY <1>9, <2>1, <4>3, <4>4
      <4>6. Tag(Up(x, n + 1)) = x[n + 1][1]
        BY <1>4, <1>12, UpIs, <4>2, <4>1
      <4>7. IsElement(f, Up(z, n + 1))
        BY <4>1, <4>2, ElementsAreNested
      <4> QED BY <2>4, <4>1, <4>3, <4>5, <4>6, <4>7 DEF IsElement
    <3>2. Up(x, n) \in Tagged(d, {"SubProcess"}) /\ f \in DOMAIN docs
      BY <1>5 DEF Enters, Tagged, IsElement
    <3>3. AtMostOne({v \in Children(d, {Up(x, n)}) : Tag(v) = "FileDetails"})
      BY <3>2 DEF Regular, RegularReport
    <3>4. \A z \in {x, y} :
            Up(z, n + 1) \in {v \in Children(d, {Up(x,
            n)}) : Tag(v) = "FileDetails"}
      BY <3>1 DEF Children
    <3> QED BY <3>3, <3>4 DEF AtMostOne
  <2> QED BY <2>2, <2>3, <2>4
<1>counts. SameCounts(d, x, y)
  <2>1. Depth(x) = Depth(y)
    BY <1>8
  <2> HIDE DEF d, N, Count, Meets
  <2>2. \A g : AdditionalDataKey(g, x) = AdditionalDataKey(g,
  y) => SameCounts(g, x, y)
    BY <2>1, DescriptionKey
  <2>3. AdditionalDataKey(d, x) = AdditionalDataKey(d, y)
    BY DEF d
  <2> QED BY <2>2, <2>3
<1>class. Count(x) = Count(y)
  BY <1>counts DEF SameCounts
<1>last. Up(x, N) = x /\ Up(y, N) = y
  BY <1>4, UpIs
<1>one. CASE N - n = 1
  <2>1. Meets(N - 1) /\ N \in 1 .. N
    BY <1>4, <1>8, <1>9, <1>one
  <2> QED BY <1>10, <1>class, <1>last, <2>1
<1>two. CASE N - n = 2
  <2>1. Meets(N - 1) /\ N \in 1 .. N
    BY <1>4, <1>8, <1>first, <1>two
  <2> QED BY <1>10, <1>class, <1>last, <2>1
<1>three. CASE N - n = 3
  <2>1. Meets(N - 2) /\ N \in 1 .. N /\ N - 1 \in 1 .. N
    BY <1>4, <1>8, <1>first, <1>three
  <2>2. Count(Up(x, N - 1)) = Count(Up(y, N - 1)) /\ (N - 1) - 1 = N - 2
    <3>1. Depth(x) = 3 /\ Depth(x) \in {3, 5}
      BY <1>5, <1>three
    <3>2. CountAbove(d, x, 1) = CountAbove(d, y, 1)
      BY <1>counts, <3>1 DEF SameCounts
    <3>3. Above(x, 1) = Up(x, N - 1) /\ Above(y, 1) = Up(y, N - 1)
      BY <1>4, <1>11
    <3>4. (N - 1) - 1 = N - 2
      BY <1>4
    <3> QED BY <3>2, <3>3, <3>4 DEF CountAbove
  <2>3. Meets(N - 1)
    BY <1>10, <2>1, <2>2
  <2> QED BY <1>10, <1>class, <1>last, <2>1, <2>3
<1>five. CASE N - n = 5
  <2>1. /\ Meets(N - 4) /\ N \in 1 .. N /\ N - 1 \in 1 .. N /\ N - 2 \in 1 .. N
        /\ N - 3 \in 1 .. N /\ (N - 3) - 1 = N - 4 /\ (N - 2) - 1 = N - 3 /\ (N - 1) - 1 = N - 2
    BY <1>4, <1>8, <1>first, <1>five
  <2>2. /\ Count(Up(x, N - 3)) = Count(Up(y, N - 3))
        /\ Count(Up(x, N - 1)) = Count(Up(y, N - 1))
    <3>1. Depth(x) = 5 /\ Depth(x) \in {3, 5}
      BY <1>5, <1>five
    <3>2. CountAbove(d, x, 1) = CountAbove(d, y, 1) /\ CountAbove(d, x, 3) = CountAbove(d, y, 3)
      BY <1>counts, <3>1 DEF SameCounts
    <3>3. /\ Above(x, 1) = Up(x, N - 1) /\ Above(y, 1) = Up(y, N - 1)
          /\ Above(x, 3) = Up(x, N - 3) /\ Above(y, 3) = Up(y, N - 3)
      BY <1>4, <1>11
    <3> QED BY <3>2, <3>3 DEF CountAbove
  <2>3. Single(d, Up(x, N - 2))
    BY <1>1, <1>5, <1>11, <1>five DEF ListedReport
  <2>4. Meets(N - 3)
    BY <1>10, <2>1, <2>2
  <2>5. Meets(N - 2)
    BY <1>10, <2>1, <2>3, <2>4
  <2>6. Meets(N - 1)
    BY <1>10, <2>1, <2>2, <2>5
  <2> QED BY <1>10, <1>class, <1>last, <2>1, <2>6
<1> QED BY <1>12, <1>one, <1>two, <1>three, <1>five

LEMMA DescribedRowsApart ==
  ASSUME docs \in Extract, ReportsAreNested, ReportsAreListed, Regular
  PROVE  Apart(AdditionalDataView(docs))
<1> SUFFICES ASSUME NEW x \in AdditionalDataView(docs), NEW y \in AdditionalDataView(docs),
                    x.file = y.file, x.key = y.key
             PROVE  x.elem = y.elem
  BY DEF Apart
<1>1. \A z \in {x, y} :
        /\ IsElement(x.file, z.elem) /\ z.elem \in Described(docs[x.file])
        /\ z.key = AdditionalDataKey(docs[x.file], z.elem)
  BY AdditionalDataRows
<1>2. AdditionalDataKey(docs[x.file], x.elem) = AdditionalDataKey(docs[x.file], y.elem)
  BY <1>1
<1> QED BY <1>1, <1>2, DescribedApart

-----------------------------------------------------------------------------
(* Of regular and listed reports no unique index refuses a refresh.        *)
LEMMA IndexedViewsApart ==
  ASSUME docs \in Extract, ReportsAreNested, ReportsAreListed, Regular, NEW t \in Indexed
  PROVE  t \in ViewName /\ Apart(Transformed(docs)[t])
<1>1. t \in ViewName
  BY DEF Indexed, ViewName
<1>2. /\ Apart(ActivityView(docs)) /\ Apart(UnitView(docs)) /\ Apart(FuelView(docs))
      /\ Apart(EmissionView(docs)) /\ Apart(EioEmissionView(docs))
      /\ Apart(MeasuredEmissionFactorView(docs))
      /\ Apart(IdentifierView(docs)) /\ Apart(NaicsView(docs)) /\ Apart(PermitView(docs))
      /\ Apart(ContactView(docs)) /\ Apart(ParentOrganisationView(docs))
      /\ Apart(R3EmissionView(docs)) /\ Apart(HistoricalEmissionView(docs))
      /\ Apart(AdditionalDataView(docs))
  BY PlacedRowsApart, ItemizedRowsApart, ListedRowsApart, TotalsRowsApart,
     DescribedRowsApart
<1>3. \A V, W : Apart(V) /\ W = V => Apart(W)
  OBVIOUS
<1> HIDE DEF Apart
<1>4. Apart(Transformed(docs)[t])
  BY <1>2 DEF Indexed, Transformed
<1> QED BY <1>1, <1>4

LEMMA KeysAreUnique ==
  ASSUME docs \in Extract, ReportsAreNested, ReportsAreListed, Regular
  PROVE  UniqueKeys(Transformed(docs))
<1> SUFFICES ASSUME NEW t \in Indexed
             PROVE  Cardinality({<<r.file, r.key>> : r \in Transformed(docs)[t]})
                      = Cardinality(Transformed(docs)[t])
  BY DEF UniqueKeys
<1> DEFINE V == Transformed(docs)[t]
           number == [x \in V |-> Id(x)]
           k == [x \in V |-> <<x.file, x.key>>]
           K == {<<x.file, x.key>> : x \in V}
<1>1. Apart(V) /\ Numbered(V)
  BY IndexedViewsApart, ViewsAreNumbered
<1> HIDE DEF V
<1>2. IsFiniteSet(V)
  <2>1. number \in Injection(V, Places(docs))
    BY <1>1 DEF Injection, IsInjective, Numbered
  <2> HIDE DEF number
  <2> QED BY <2>1, PlacesAreFinite, FS_Injection
<1>3. k \in Surjection(V, K)
  BY DEF Surjection
<1>4. IsFiniteSet(K)
  BY <1>2, <1>3, FS_Surjection
<1>5. \A x, y \in V : k[x] = k[y] => x = y
  BY <1>1 DEF Apart, Numbered, Id
<1>6. k \in [V -> K] /\ {k[x] : x \in V} = K
  OBVIOUS
<1> HIDE DEF k, K
<1>7. Cardinality({k[x] : x \in V}) = Cardinality(V)
  BY <1>4, <1>5, <1>6, OneByOne
<1> QED BY <1>6, <1>7 DEF V, K

-----------------------------------------------------------------------------
(* A load of regular reports: what its views and the parameters are.       *)
Loads ==
  /\ docs \in Extract /\ view = Transformed(docs) /\ UniqueKeys(view)
  /\ ReportsAreNested /\ ReportsAreListed /\ AttachmentsAreApart /\ Regular

(* A join that finds one row at most.                                      *)
LEMMA OneOrNull ==
  /\ \A S : AtMostOne(S) => AtMostOne(Left(S))
  /\ \A S : \A T \in SUBSET S : AtMostOne(S) => AtMostOne(T)
  /\ \A a : AtMostOne({a})
  BY DEF AtMostOne, Left

LEMMA CountedOnce ==
  ASSUME NEW S, AtMostOne(S)
  PROVE  Cardinality(S) < 2
<1>1. CASE S = {}
  BY <1>1, FS_EmptySet
<1>2. CASE S # {}
  <2>1. PICK a \in S : TRUE
    BY <1>2
  <2>2. S = {a}
    BY <2>1 DEF AtMostOne
  <2> QED BY <2>2, FS_Singleton
<1> QED BY <1>1, <1>2

LEMMA FewAreOne ==
  ASSUME NEW S, IsFiniteSet(S), Cardinality(S) < 2
  PROVE  AtMostOne(S)
<1> SUFFICES ASSUME NEW x \in S, NEW y \in S, x # y PROVE FALSE
  BY DEF AtMostOne
<1>1. {x, y} \subseteq S
  OBVIOUS
<1>2. Cardinality({x, y}) = 2 /\ IsFiniteSet({x})
  <2>1. IsFiniteSet({x}) /\ Cardinality({x}) = 1
    BY FS_Singleton
  <2>2. y \notin {x} /\ {x} \cup {y} = {x, y}
    OBVIOUS
  <2>3. Cardinality({x} \cup {y}) = Cardinality({x}) + 1
    BY <2>1, <2>2, FS_AddElement
  <2> QED BY <2>1, <2>2, <2>3
<1>3. Cardinality({x, y}) <= Cardinality(S) /\ Cardinality(S) \in Nat
  BY <1>1, FS_Subset, FS_CardinalityType
<1> QED BY <1>2, <1>3

LEMMA RowsOfAnElement ==
  ASSUME Loads, NEW t \in ViewName, NEW x \in view[t], NEW y \in view[t],
         x.file = y.file, x.elem = y.elem
  PROVE  x = y
BY ViewsAreNumbered DEF Loads, Numbered, Id

LEMMA ViewsAreFinite ==
  ASSUME Loads, NEW t \in ViewName, NEW S \in SUBSET view[t]
  PROVE  IsFiniteSet(S)
<1> DEFINE number == [x \in S |-> Id(x)]
<1>1. number \in Injection(S, Places(docs))
  BY ViewsAreNumbered DEF Loads, Injection, IsInjective, Numbered
<1> HIDE DEF number
<1> QED BY <1>1, PlacesAreFinite, FS_Injection DEF Loads

-----------------------------------------------------------------------------
(* The identifiers and the codes of a registration and of a tombstone.     *)
LEMMA ListedTexts ==
  ASSUME Loads
  PROVE  /\ \A x \in view.identifier :
              /\ x.file \in DOMAIN docs /\ x.elem \in Tagged(docs[x.file], {"Identifier"})
              /\ x.text = docs[x.file].text[x.elem] /\ x.key.context = PathContext(x.elem)
         /\ \A x \in view.naics :
              /\ x.file \in DOMAIN docs /\ x.elem \in Tagged(docs[x.file], {"NAICSCode"})
              /\ x.text = docs[x.file].text[x.elem] /\ x.key.context = PathContext(x.elem)
<1>1. \A f \in DOMAIN docs : Tagged(docs[f], {"Identifier", "NAICSCode"}) \subseteq DOMAIN docs[f].text
  BY DEF Loads, ReportsAreListed, ListedReport
<1>2. ASSUME NEW x, NEW T \in {"Identifier", "NAICSCode"}, IsElement(x.file, x.elem),
             Tag(x.elem) = T, x.key = ListedKey(docs[x.file], x.elem),
             x.text = Text(docs[x.file], x.elem)
      PROVE  /\ x.file \in DOMAIN docs /\ x.elem \in Tagged(docs[x.file], {T})
             /\ x.text = docs[x.file].text[x.elem] /\ x.key.context = PathContext(x.elem)
  <2>1. /\ x.file \in DOMAIN docs /\ x.elem \in Tagged(docs[x.file], {T})
        /\ x.elem \in Tagged(docs[x.file], {"Identifier", "NAICSCode"})
    BY <1>2 DEF IsElement, Tagged
  <2>2. x.elem \in DOMAIN docs[x.file].text
    BY <1>1, <2>1
  <2>3. x.text = docs[x.file].text[x.elem]
    BY <1>2, <2>2 DEF Text
  <2>4. x.key.context = PathContext(x.elem)
    BY <1>2 DEF ListedKey
  <2> QED BY <2>1, <2>3, <2>4
<1>3. view.identifier = IdentifierView(docs) /\ view.naics = NaicsView(docs)
  BY DEF Loads, Transformed
<1> QED BY <1>2, <1>3, IdentifierRows, NaicsRows

LEMMA OneBcghgid ==
  ASSUME Loads, NEW f
  PROVE  AtMostOne(Bcghgid(f, "VerifyTombstone"))
<1> SUFFICES ASSUME NEW x \in Bcghgid(f, "VerifyTombstone"), NEW y \in Bcghgid(f, "VerifyTombstone")
             PROVE  x = y
  BY DEF AtMostOne
<1>1. \A z \in {x, y} : /\ z \in view.identifier /\ z.file = f /\ z.text.type = "BCGHGID"
                        /\ z.key.context = "VerifyTombstone"
  BY DEF Bcghgid
<1> DEFINE d == docs[f]
           S == {e \in {i \in Tagged(d, {"Identifier"}) : d.text[i].type = "BCGHGID"} :
                   PathContext(e) = "VerifyTombstone"}
<1>2. f \in DOMAIN docs /\ x.elem \in S /\ y.elem \in S
  BY <1>1, ListedTexts
<1>3. AtMostOne(S)
  BY <1>2 DEF Loads, Regular, RegularReport
<1> HIDE DEF S
<1>4. x.elem = y.elem
  BY <1>2, <1>3 DEF AtMostOne
<1> QED BY <1>1, <1>4, RowsOfAnElement DEF ViewName

LEMMA NoSubqueryFails ==
  ASSUME Loads, NEW t
  PROVE  ~SubqueryFails(t)
<1>1. \A f : ~(Cardinality(Bcghgid(f, "VerifyTombstone")) > 1)
  <2> TAKE f
  <2>1. Cardinality(Bcghgid(f, "VerifyTombstone")) < 2
    BY OneBcghgid, CountedOnce
  <2>2. IsFiniteSet(Bcghgid(f, "VerifyTombstone"))
    BY ViewsAreFinite DEF Bcghgid, ViewName
  <2>3. Cardinality(Bcghgid(f, "VerifyTombstone")) \in Nat
    BY <2>2, FS_CardinalityType
  <2> QED BY <2>1, <2>3
<1> QED BY <1>1 DEF SubqueryFails

-----------------------------------------------------------------------------
(* The joins find one row at most.                                         *)
LEMMA ReportsFoundOnce ==
  ASSUME Loads, NEW x
  PROVE  /\ AtMostOne(OfFile("report", x)) /\ AtMostOne(OfFile("organisation", x))
         /\ AtMostOne(OfFile("facility", x)) /\ AtMostOne(OrganisationOf(x))
         /\ AtMostOne(OfFile("historical_report_emission_data", x))
<1>1. /\ view.report = PerReport(docs) /\ view.organisation = PerReport(docs)
      /\ view.facility = PerReport(docs)
      /\ view.historical_report_emission_data = HistoricalEmissionView(docs)
  BY DEF Loads, Transformed, ReportView, OrganisationView, FacilityView
<1>2. \A y \in PerReport(docs) : Id(y) = <<y.file, <<>>>>
  BY DEF PerReport, Id
<1>3. \A S \in SUBSET PerReport(docs) :
        (\A y \in S : y.file = x.file) => AtMostOne({Id(y) : y \in S})
  BY <1>2 DEF AtMostOne
<1>4. \A v \in {"report", "organisation", "facility"} : AtMostOne(OfFile(v, x))
  <2> TAKE v \in {"report", "organisation", "facility"}
  <2> DEFINE S == {y \in view[v] : y.file = x.file /\ TRUE}
  <2>1. AtMostOne({Id(y) : y \in S})
    BY <1>1, <1>3
  <2>2. OfFile(v, x) = Left({Id(y) : y \in S})
    BY DEF OfFile, Joined
  <2> HIDE DEF S
  <2> QED BY <2>1, <2>2, OneOrNull
<1>5. AtMostOne(OrganisationOf(x))
  <2> DEFINE S == {y \in view.organisation : y.file = x.file /\ IsOfOrganisation(x, y)}
  <2>1. AtMostOne({Id(y) : y \in S})
    BY <1>1, <1>3
  <2>2. OrganisationOf(x) = Left({Id(y) : y \in S})
    BY DEF OrganisationOf, Joined
  <2> HIDE DEF S
  <2> QED BY <2>1, <2>2, OneOrNull
<1>6. AtMostOne(OfFile("historical_report_emission_data", x))
  <2> DEFINE S == {y \in view.historical_report_emission_data : y.file = x.file /\ TRUE}
  <2>1. \A y \in S : x.file \in DOMAIN docs /\ y.elem \in Tagged(docs[x.file], {"TotalEmissions"})
    BY <1>1, GrandTotalsRows DEF IsElement, Tagged
  <2>2. x.file \in DOMAIN docs => AtMostOne(Tagged(docs[x.file],
  {"TotalEmissions"}))
    BY DEF Loads, Regular, RegularReport
  <2>3. \A y, z \in S : Id(y) = Id(z)
    BY <2>1, <2>2 DEF AtMostOne, Id
  <2>4. OfFile("historical_report_emission_data", x) = Left({Id(y) : y \in S})
    BY DEF OfFile, Joined
  <2>5. AtMostOne({Id(y) : y \in S})
    BY <2>3 DEF AtMostOne
  <2> HIDE DEF S
  <2> QED BY <2>4, <2>5, OneOrNull
<1> QED BY <1>4, <1>5, <1>6

LEMMA OneLfo ==
  ASSUME Loads, NEW x \in view.facility
  PROVE  AtMostOne(LfoFacility(x))
<1>1. LfoFacility(x) = Left({<<g, <<>>>> : g \in LfoOf(x.file)})
  BY LfoIsOfReport DEF Loads
<1>2. AtMostOne(LfoOf(x.file))
  BY DEF LfoOf, AtMostOne, Loads, Regular
<1>3. AtMostOne({<<g, <<>>>> : g \in LfoOf(x.file)})
  BY <1>2 DEF AtMostOne
<1> QED BY <1>1, <1>3, OneOrNull

LEMMA OneActivity ==
  ASSUME Loads
  PROVE  /\ \A x \in view.unit \cup view.additional_data \cup view.emission
                       \cup view.eio_emission \cup view.r3_emission : AtMostOne(ActivityOf(x))
         /\ \A x \in view.fuel \cup view.emission \cup view.eio_emission \cup view.r3_emission :
              AtMostOne(UnitOf(x))
<1> USE DEF Loads
<1>1. \A x \in view.r3_emission : AtMostOne(ActivityOf(x)) /\ AtMostOne(UnitOf(x))
  BY OfTotals, OneOrNull
<1>2. \A x : InProcess(x) /\ Ancestor(x.elem, "SubProcess") # {} => AtMostOne(ActivityOf(x))
  BY SubProcessFound, OneOrNull
<1>3. \A x : InProcess(x) /\ Ancestor(x.elem, "Unit") # {} => AtMostOne(UnitOf(x))
  BY UnitFound, OneOrNull
<1>4. \A x \in view.emission \cup view.eio_emission :
        /\ InProcess(x) /\ Ancestor(x.elem, "Unit") # {} /\ Ancestor(x.elem, "SubProcess") # {}
  BY OfEmission
<1>5. /\ \A x \in view.unit : InProcess(x) /\ Ancestor(x.elem, "SubProcess") # {}
      /\ \A x \in view.additional_data : InProcess(x) /\ Ancestor(x.elem, "SubProcess") # {}
      /\ \A x \in view.fuel : InProcess(x) /\ Ancestor(x.elem, "Unit") # {}
  BY OfUnit, OfAdditionalData, OfFuel
<1> QED BY <1>1, <1>2, <1>3, <1>4, <1>5

LEMMA OneFuel ==
  ASSUME Loads, NEW x
  PROVE  AtMostOne(NamedFuelOf(x))
<1> DEFINE S == {y \in view.fuel : y.file = x.file /\ InNamedFuel(x, y)}
<1>1. \A y, z \in S : y = z
  BY FuelsOfAPlace DEF Loads
<1>2. AtMostOne({Id(y) : y \in S})
  BY <1>1 DEF AtMostOne
<1>3. NamedFuelOf(x) = Left({Id(y) : y \in S})
  BY DEF NamedFuelOf, Joined
<1> HIDE DEF S
<1> QED BY <1>2, <1>3, OneOrNull

LEMMA OneMapping ==
  ASSUME NEW r
  PROVE  /\ \A a : AtMostOne(Mapped({a}))
         /\ AtMostOne(Mapped(TaxedAs(r)))
<1>1. \A types : AtMostOne(types) => AtMostOne(Mapped(types))
  <2> TAKE types
  <2> HAVE AtMostOne(types)
  <2>1. AtMostOne({<<"fuel_mapping", t>> : t \in types \cap FuelMapping})
    BY DEF AtMostOne
  <2> QED BY <2>1, OneOrNull DEF Mapped
<1>2. ~(Flared(r) /\ Vented(r))
  BY DEF Flared, Vented
<1>3. AtMostOne(TaxedAs(r))
  BY <1>2 DEF TaxedAs, AtMostOne
<1> QED BY <1>1, <1>3, OneOrNull

LEMMA OneNaics ==
  ASSUME Loads, NEW x
  PROVE  AtMostOne(NaicsOf(x))
<1> DEFINE f == x.file
           S == {y \in view.naics : y.file = x.file /\ IsNaicsOf(x, y)}
           P == PrimaryNaics(f)
<1>1. P \subseteq view.naics /\ IsFiniteSet(P) /\ Cardinality(P) \in Nat
  <2>1. P \subseteq view.naics
    BY DEF PrimaryNaics
  <2>2. IsFiniteSet(P)
    BY <2>1, ViewsAreFinite DEF ViewName
  <2> QED BY <2>1, <2>2, FS_CardinalityType
<1>codes. \A n : IsNaicsOf(x, n) =>
            \/ n \in P /\ Cardinality(P) < 2
            \/ n.key.context = "VerifyTombstone" /\ Cardinality(P) > 1
  BY DEF IsNaicsOf
<1>primary. \A n \in P : n \in view.naics /\ n.file = f
                         /\ n.key.context = "RegistrationData" /\ n.text.priority = "Primary"
  BY DEF PrimaryNaics
<1> HIDE DEF P
<1>2. ASSUME NEW y \in S, NEW z \in S PROVE y = z
  <2>1. /\ y \in view.naics /\ y.file = f /\ IsNaicsOf(x, y)
        /\ z \in view.naics /\ z.file = f /\ IsNaicsOf(x, z)
    BY <1>2
  <2>2. CASE Cardinality(P) < 2
    <3>1. y \in P /\ z \in P
      BY <1>1, <1>codes, <2>1, <2>2
    <3> QED BY <1>1, <2>2, <3>1, FewAreOne DEF AtMostOne
  <2>3. CASE Cardinality(P) > 1
    <3> DEFINE d == docs[f]
               code == Tagged(d, {"NAICSCode"})
               primary == {e \in code : d.text[e].priority = "Primary"}
               registered == {e \in primary : PathContext(e) = "RegistrationData"}
               verified == {e \in code : PathContext(e) = "VerifyTombstone"}
    <3>1. y.key.context = "VerifyTombstone" /\ z.key.context = "VerifyTombstone"
      BY <1>1, <1>codes, <2>1, <2>3
    <3>2. f \in DOMAIN docs /\ y.elem \in verified /\ z.elem \in verified
      BY <2>1, <3>1, ListedTexts
    <3>3. ~AtMostOne(P)
      BY <1>1, <2>3, CountedOnce
    <3>4. \A p \in P : p \in view.naics /\ p.file = f /\ p.elem \in registered
      BY <1>primary, ListedTexts
    <3>5. ~AtMostOne(registered)
      <4>1. PICK p \in P, q \in P : p # q
        BY <3>3 DEF AtMostOne
      <4>2. p.elem # q.elem
        BY <3>4, <4>1, RowsOfAnElement DEF ViewName
      <4> HIDE DEF registered
      <4> QED BY <3>4, <4>1, <4>2 DEF AtMostOne
    <3>6. AtMostOne(registered) \/ AtMostOne(verified)
      BY <3>2 DEF Loads, Regular, RegularReport
    <3> HIDE DEF registered, verified
    <3>7. y.elem = z.elem
      BY <3>2, <3>5, <3>6 DEF AtMostOne
    <3> QED BY <2>1, <3>7, RowsOfAnElement DEF ViewName
  <2> QED BY <1>1, <2>2, <2>3
<1>3. AtMostOne({Id(y) : y \in S})
  BY <1>2 DEF AtMostOne
<1>4. NaicsOf(x) = Left({Id(y) : y \in S})
  BY DEF NaicsOf, Joined
<1> HIDE DEF S
<1> QED BY <1>3, <1>4, OneOrNull

LEMMA OneAddress ==
  ASSUME Loads
  PROVE  /\ \A x \in view.address : AtMostOne(ParentOf(x))
         /\ \A x \in view.contact : AtMostOne(AddressOf(x))
<1>1. \A x \in view.address : AtMostOne(ParentOf(x))
  BY ParentFound, OneOrNull DEF Loads
<1>2. ASSUME NEW x \in view.contact PROVE AtMostOne(AddressOf(x))
  <2> DEFINE A == {y \in Children(docs[x.file], {x.elem}) : Tag(y) = "Address"}
  <2>1. AddressOf(x) = Left({<<x.file, y>> : y \in A}) /\ AtMostOne(A)
    BY AddressFound DEF Loads
  <2> HIDE DEF A
  <2>2. AtMostOne({<<x.file, y>> : y \in A})
    BY <2>1 DEF AtMostOne
  <2> QED BY <2>1, <2>2, OneOrNull
<1> QED BY <1>1, <1>2

LEMMA OneAttachment ==
  ASSUME Loads, NEW x
  PROVE  AtMostOne(AttachmentOf(x))
<1> DEFINE d == docs[x.file].details
           S == {a \in Attachment : /\ a.report = d.report /\ a.zip = d.zip
                                    /\ "name" \in DOMAIN x.text
                                    /\ a.number = x.text.number /\ a.name = x.text.name}
<1>1. AtMostOne(S)
  BY DEF AtMostOne, Loads, AttachmentsAreApart
<1>2. AtMostOne({<<"attachment", a>> : a \in S})
  BY <1>1 DEF AtMostOne
<1>3. AttachmentOf(x) = Left({<<"attachment", a>> : a \in S})
  BY DEF AttachmentOf
<1> HIDE DEF S
<1> QED BY <1>2, <1>3, OneOrNull

-----------------------------------------------------------------------------
(* A row of a view makes one row of its table.                             *)
Rooted(rows) == \A r \in rows : r.id = <<r.id[1], <<>>>>

LEMMA OneBcghgidOf ==
  ASSUME Rooted(tables.facility), NEW x
  PROVE  AtMostOne(BcghgidOf(x))
<1> DEFINE S == {y \in tables.facility : y.id[1] = x.file /\ GivesBcghgid(x)}
<1>1. \A y \in S : y.id = <<x.file, <<>>>>
  BY DEF Rooted
<1>2. AtMostOne({y.id : y \in S})
  BY <1>1 DEF AtMostOne
<1>3. BcghgidOf(x) = Left({y.id : y \in S})
  BY DEF BcghgidOf
<1> HIDE DEF S
<1> QED BY <1>2, <1>3, OneOrNull

LEMMA SourcesAreInViews ==
  ASSUME NEW t \in Table
  PROVE  /\ t \notin {"emission", "emission_factor", "report_history", "report_attachment"}
              => SourceRows(t) \subseteq view[t]
         /\ SourceRows("emission") \subseteq
              view.emission \cup view.r3_emission \cup view.eio_emission
BY SourcesAre DEF FinalRows, Final

LEMMA RowsOnce ==
  ASSUME Loads, NEW t \in Table \ {"emission_factor"}, NEW x \in SourceRows(t),
         t = "identifier" => Rooted(tables.facility)
  PROVE  AtMostOne(RowsFor(t, x))
<1>1. /\ AtMostOne(OfFile("report", x)) /\ AtMostOne(OfFile("organisation", x))
      /\ AtMostOne(OfFile("facility", x)) /\ AtMostOne(OrganisationOf(x))
      /\ AtMostOne(OfFile("historical_report_emission_data", x))
  BY ReportsFoundOnce
<1>2. /\ t = "facility" => AtMostOne(LfoFacility(x))
      /\ t \in {"unit", "additional_data", "emission"} => AtMostOne(ActivityOf(x))
      /\ t \in {"fuel", "emission"} => AtMostOne(UnitOf(x))
      /\ t = "address" => AtMostOne(ParentOf(x))
      /\ t = "contact" => AtMostOne(AddressOf(x))
  BY OneLfo, OneActivity, OneAddress, SourcesAreInViews
<1>3. /\ AtMostOne(NamedFuelOf(x)) /\ AtMostOne(NaicsOf(x)) /\ AtMostOne(AttachmentOf(x))
      /\ AtMostOne(Mapped({x.text.type})) /\ AtMostOne(Mapped(TaxedAs(x)))
      /\ t = "identifier" => AtMostOne(BcghgidOf(x))
  BY OneFuel, OneNaics, OneAttachment, OneMapping, OneBcghgidOf
<1>report. t = "report" => AtMostOne(LoadReport(x))
  BY <1>1, <1>2, <1>3, SMT DEF AtMostOne, LoadReport, Row
<1>organisation. t = "organisation" => AtMostOne(LoadOrganisation(x))
  BY <1>1, <1>2, <1>3, SMT DEF AtMostOne, LoadOrganisation, Row
<1>facility. t = "facility" => AtMostOne(LoadFacility(x))
  BY <1>1, <1>2, <1>3, SMT DEF AtMostOne, LoadFacility, Row
<1>activity. t = "activity" => AtMostOne(LoadActivity(x))
  BY <1>1, <1>2, <1>3, SMT DEF AtMostOne, LoadActivity, Row
<1>unit. t = "unit" => AtMostOne(LoadUnit(x))
  BY <1>1, <1>2, <1>3, SMT DEF AtMostOne, LoadUnit, Row
<1>identifier. t = "identifier" => AtMostOne(LoadIdentifier(x))
  BY <1>1, <1>2, <1>3, SMT DEF AtMostOne, LoadIdentifier, Row
<1>naics. t = "naics" => AtMostOne(LoadNaics(x))
  BY <1>1, <1>2, <1>3, SMT DEF AtMostOne, LoadNaics, Row
<1>fuel. t = "fuel" => AtMostOne(LoadFuel(x))
  BY <1>1, <1>2, <1>3, SMT DEF AtMostOne, LoadFuel, Row
<1>emission. t = "emission" => AtMostOne(LoadEmission(x))
  BY <1>1, <1>2, <1>3, SMT DEF AtMostOne, LoadEmission, Row
<1>permit. t = "permit" => AtMostOne(LoadPermit(x))
  BY <1>1, <1>2, <1>3, SMT DEF AtMostOne, LoadPermit, Row
<1>parent_organisation. t = "parent_organisation" => AtMostOne(LoadParentOrganisation(x))
  BY <1>1, <1>2, <1>3, SMT DEF AtMostOne, LoadParentOrganisation, Row
<1>address. t = "address" => AtMostOne(LoadAddress(x))
  BY <1>1, <1>2, <1>3, SMT DEF AtMostOne, LoadAddress, Row
<1>contact. t = "contact" => AtMostOne(LoadContact(x))
  BY <1>1, <1>2, <1>3, SMT DEF AtMostOne, LoadContact, Row
<1>additional_data. t = "additional_data" => AtMostOne(LoadAdditionalData(x))
  BY <1>1, <1>2, <1>3, SMT DEF AtMostOne, LoadAdditionalData, Row
<1>other_venting. t = "other_venting" => AtMostOne(LoadOtherVenting(x))
  BY <1>1, <1>2, <1>3, SMT DEF AtMostOne, LoadOtherVenting, Row
<1>report_history. t = "report_history" => AtMostOne(LoadReportHistory(x))
  BY <1>1, <1>2, <1>3, SMT DEF AtMostOne, LoadReportHistory, Row
<1>report_attachment. t = "report_attachment" => AtMostOne(LoadReportAttachment(x))
  BY <1>1, <1>2, <1>3, SMT DEF AtMostOne, LoadReportAttachment, Row
<1> QED
  BY RowsAre, TableNames, <1>report, <1>organisation, <1>facility, <1>activity,
     <1>unit, <1>identifier, <1>naics, <1>fuel, <1>emission, <1>permit,
     <1>parent_organisation, <1>address, <1>contact, <1>additional_data,
     <1>other_venting, <1>report_history, <1>report_attachment

LEMMA IdsAreUnique ==
  ASSUME Loads, NEW t \in Table, t = "identifier" => Rooted(tables.facility)
  PROVE  UniqueIds(t, Loaded(t))
<1> SUFFICES ASSUME t # "emission_factor"
             PROVE  Cardinality({r.id : r \in Loaded(t)}) = Cardinality(Loaded(t))
  BY DEF UniqueIds
<1> DEFINE T == Loaded(t)
           h == [r \in T |-> r.id]
<1>1. \A r \in T : \E x \in SourceRows(t) : r \in RowsFor(t, x) /\ r.id = Id(x)
  BY RowsHaveTheId DEF Loaded
<1>2. Numbered(SourceRows(t))
  BY SourcesAreNumbered DEF Loads
<1> HIDE DEF T
<1>3. h \in [T -> Places(docs)]
  BY <1>1, <1>2 DEF Numbered
<1>4. ASSUME NEW r \in T, NEW q \in T, h[r] = h[q] PROVE r = q
  <2>1. PICK x \in SourceRows(t) : r \in RowsFor(t, x) /\ r.id = Id(x)
    BY <1>1
  <2>2. PICK y \in SourceRows(t) : q \in RowsFor(t, y) /\ q.id = Id(y)
    BY <1>1
  <2>3. x = y
    BY <1>2, <1>4, <2>1, <2>2 DEF Numbered
  <2>4. AtMostOne(RowsFor(t, x))
    BY RowsOnce
  <2> QED BY <2>1, <2>2, <2>3, <2>4 DEF AtMostOne
<1>5. {h[r] : r \in T} = {r.id : r \in T}
  OBVIOUS
<1> HIDE DEF h
<1>6. Cardinality({h[r] : r \in T}) = Cardinality(T)
  BY <1>3, <1>4, PlacesAreFinite, OneByOne DEF Loads
<1> QED BY <1>5, <1>6 DEF T

-----------------------------------------------------------------------------
(* What the rows of a table refer to: tables that are filled before it, of *)
(* which the facilities also refer to each other.                          *)
Targets ==
  [report |-> {},
   organisation |-> {"report"},
   facility |-> {"organisation", "report", "facility"},
   activity |-> {"facility", "report"},
   unit |-> {"activity"},
   identifier |-> {"facility", "report"},
   naics |-> {"facility", "report"},
   fuel |-> {"report", "unit"},
   emission |-> {"activity", "facility", "fuel", "naics", "organisation",
   "report", "unit"},
   permit |-> {"report", "facility"},
   parent_organisation |-> {"report", "organisation"},
   address |-> {"facility", "organisation", "parent_organisation", "report"},
   contact |-> {"address", "facility", "report", "organisation"},
   additional_data |-> {"activity", "report"},
   emission_factor |-> {"fuel"},
   other_venting |-> {"report"},
   report_history |-> {},
   report_attachment |-> {"report_history"}]

LEMMA TargetsComeFirst ==
  ASSUME NEW n \in 1 .. Len(Order), NEW s \in Targets[Order[n]]
  PROVE  s = Order[n] \/ \E m \in 1 .. n - 1 : Order[m] = s
<1>1. Len(Order) = 18
  BY DEF Order
<1>report. Order[1] = "report"
  BY DEF Order
<1>organisation. Order[2] = "organisation"
  BY DEF Order
<1>facility. Order[3] = "facility"
  BY DEF Order
<1>activity. Order[4] = "activity"
  BY DEF Order
<1>unit. Order[5] = "unit"
  BY DEF Order
<1>identifier. Order[6] = "identifier"
  BY DEF Order
<1>naics. Order[7] = "naics"
  BY DEF Order
<1>fuel. Order[8] = "fuel"
  BY DEF Order
<1>emission. Order[9] = "emission"
  BY DEF Order
<1>permit. Order[10] = "permit"
  BY DEF Order
<1>parent_organisation. Order[11] = "parent_organisation"
  BY DEF Order
<1>address. Order[12] = "address"
  BY DEF Order
<1>contact. Order[13] = "contact"
  BY DEF Order
<1>additional_data. Order[14] = "additional_data"
  BY DEF Order
<1>emission_factor. Order[15] = "emission_factor"
  BY DEF Order
<1>other_venting. Order[16] = "other_venting"
  BY DEF Order
<1>report_history. Order[17] = "report_history"
  BY DEF Order
<1>report_attachment. Order[18] = "report_attachment"
  BY DEF Order
<1>is1. ASSUME n = 1 PROVE s = Order[n] \/ \E m \in 1 .. n - 1 : Order[m] = s
  BY <1>is1, <1>report DEF Targets
<1>is2. ASSUME n = 2 PROVE s = Order[n] \/ \E m \in 1 .. n - 1 : Order[m] = s
  <2>1. s \in {"report"}
    BY <1>is2, <1>organisation DEF Targets
  <2>2. 1 \in 1 .. 1
    OBVIOUS
  <2> QED BY <1>is2, <1>organisation, <1>report, <2>1, <2>2
<1>is3. ASSUME n = 3 PROVE s = Order[n] \/ \E m \in 1 .. n - 1 : Order[m] = s
  <2>1. s \in {"organisation", "report", "facility"}
    BY <1>is3, <1>facility DEF Targets
  <2>2. 2 \in 1 .. 2 /\ 1 \in 1 .. 2
    OBVIOUS
  <2> QED BY <1>is3, <1>facility, <1>organisation, <1>report, <2>1, <2>2
<1>is4. ASSUME n = 4 PROVE s = Order[n] \/ \E m \in 1 .. n - 1 : Order[m] = s
  <2>1. s \in {"facility", "report"}
    BY <1>is4, <1>activity DEF Targets
  <2>2. 3 \in 1 .. 3 /\ 1 \in 1 .. 3
    OBVIOUS
  <2> QED BY <1>is4, <1>activity, <1>facility, <1>report, <2>1, <2>2
<1>is5. ASSUME n = 5 PROVE s = Order[n] \/ \E m \in 1 .. n - 1 : Order[m] = s
  <2>1. s \in {"activity"}
    BY <1>is5, <1>unit DEF Targets
  <2>2. 4 \in 1 .. 4
    OBVIOUS
  <2> QED BY <1>is5, <1>unit, <1>activity, <2>1, <2>2
<1>is6. ASSUME n = 6 PROVE s = Order[n] \/ \E m \in 1 .. n - 1 : Order[m] = s
  <2>1. s \in {"facility", "report"}
    BY <1>is6, <1>identifier DEF Targets
  <2>2. 3 \in 1 .. 5 /\ 1 \in 1 .. 5
    OBVIOUS
  <2> QED BY <1>is6, <1>identifier, <1>facility, <1>report, <2>1, <2>2
<1>is7. ASSUME n = 7 PROVE s = Order[n] \/ \E m \in 1 .. n - 1 : Order[m] = s
  <2>1. s \in {"facility", "report"}
    BY <1>is7, <1>naics DEF Targets
  <2>2. 3 \in 1 .. 6 /\ 1 \in 1 .. 6
    OBVIOUS
  <2> QED BY <1>is7, <1>naics, <1>facility, <1>report, <2>1, <2>2
<1>is8. ASSUME n = 8 PROVE s = Order[n] \/ \E m \in 1 .. n - 1 : Order[m] = s
  <2>1. s \in {"report", "unit"}
    BY <1>is8, <1>fuel DEF Targets
  <2>2. 1 \in 1 .. 7 /\ 5 \in 1 .. 7
    OBVIOUS
  <2> QED BY <1>is8, <1>fuel, <1>report, <1>unit, <2>1, <2>2
<1>is9. ASSUME n = 9 PROVE s = Order[n] \/ \E m \in 1 .. n - 1 : Order[m] = s
  <2>1. s \in {"activity", "facility", "fuel", "naics", "organisation",
  "report", "unit"}
    BY <1>is9, <1>emission DEF Targets
  <2>2. 4 \in 1 .. 8 /\ 3 \in 1 .. 8 /\ 8 \in 1 .. 8 /\ 7 \in 1 .. 8 /\ 2 \in 1 .. 8 /\ 1 \in 1 .. 8 /\ 5 \in 1 .. 8
    OBVIOUS
  <2> QED BY <1>is9, <1>emission, <1>activity, <1>facility, <1>fuel, <1>naics,
             <1>organisation, <1>report, <1>unit, <2>1, <2>2
<1>is10. ASSUME n = 10 PROVE s = Order[n] \/ \E m \in 1 .. n - 1 : Order[m] = s
  <2>1. s \in {"report", "facility"}
    BY <1>is10, <1>permit DEF Targets
  <2>2. 1 \in 1 .. 9 /\ 3 \in 1 .. 9
    OBVIOUS
  <2> QED BY <1>is10, <1>permit, <1>report, <1>facility, <2>1, <2>2
<1>is11. ASSUME n = 11 PROVE s = Order[n] \/ \E m \in 1 .. n - 1 : Order[m] = s
  <2>1. s \in {"report", "organisation"}
    BY <1>is11, <1>parent_organisation DEF Targets
  <2>2. 1 \in 1 .. 10 /\ 2 \in 1 .. 10
    OBVIOUS
  <2> QED BY <1>is11, <1>parent_organisation, <1>report, <1>organisation, <2>1,
             <2>2
<1>is12. ASSUME n = 12 PROVE s = Order[n] \/ \E m \in 1 .. n - 1 : Order[m] = s
  <2>1. s \in {"facility", "organisation", "parent_organisation", "report"}
    BY <1>is12, <1>address DEF Targets
  <2>2. 3 \in 1 .. 11 /\ 2 \in 1 .. 11 /\ 11 \in 1 .. 11 /\ 1 \in 1 .. 11
    OBVIOUS
  <2> QED BY <1>is12, <1>address, <1>facility, <1>organisation,
             <1>parent_organisation, <1>report, <2>1, <2>2
<1>is13. ASSUME n = 13 PROVE s = Order[n] \/ \E m \in 1 .. n - 1 : Order[m] = s
  <2>1. s \in {"address", "facility", "report", "organisation"}
    BY <1>is13, <1>contact DEF Targets
  <2>2. 12 \in 1 .. 12 /\ 3 \in 1 .. 12 /\ 1 \in 1 .. 12 /\ 2 \in 1 .. 12
    OBVIOUS
  <2> QED BY <1>is13, <1>contact, <1>address, <1>facility, <1>report,
             <1>organisation, <2>1, <2>2
<1>is14. ASSUME n = 14 PROVE s = Order[n] \/ \E m \in 1 .. n - 1 : Order[m] = s
  <2>1. s \in {"activity", "report"}
    BY <1>is14, <1>additional_data DEF Targets
  <2>2. 4 \in 1 .. 13 /\ 1 \in 1 .. 13
    OBVIOUS
  <2> QED BY <1>is14, <1>additional_data, <1>activity, <1>report, <2>1, <2>2
<1>is15. ASSUME n = 15 PROVE s = Order[n] \/ \E m \in 1 .. n - 1 : Order[m] = s
  <2>1. s \in {"fuel"}
    BY <1>is15, <1>emission_factor DEF Targets
  <2>2. 8 \in 1 .. 14
    OBVIOUS
  <2> QED BY <1>is15, <1>emission_factor, <1>fuel, <2>1, <2>2
<1>is16. ASSUME n = 16 PROVE s = Order[n] \/ \E m \in 1 .. n - 1 : Order[m] = s
  <2>1. s \in {"report"}
    BY <1>is16, <1>other_venting DEF Targets
  <2>2. 1 \in 1 .. 15
    OBVIOUS
  <2> QED BY <1>is16, <1>other_venting, <1>report, <2>1, <2>2
<1>is17. ASSUME n = 17 PROVE s = Order[n] \/ \E m \in 1 .. n - 1 : Order[m] = s
  BY <1>is17, <1>report_history DEF Targets
<1>is18. ASSUME n = 18 PROVE s = Order[n] \/ \E m \in 1 .. n - 1 : Order[m] = s
  <2>1. s \in {"report_history"}
    BY <1>is18, <1>report_attachment DEF Targets
  <2>2. 17 \in 1 .. 17
    OBVIOUS
  <2> QED BY <1>is18, <1>report_attachment, <1>report_history, <2>1, <2>2
<1>2. n = 1 \/ n = 2 \/ n = 3 \/ n = 4 \/ n = 5 \/ n = 6 \/ n = 7 \/ n = 8 \/ n = 9 \/ n = 10 \/ n = 11 \/ n = 12 \/ n = 13 \/ n = 14 \/ n = 15 \/ n = 16 \/ n = 17 \/ n = 18
  BY <1>1
<1> QED BY <1>2, <1>is1, <1>is2, <1>is3, <1>is4, <1>is5, <1>is6, <1>is7,
           <1>is8, <1>is9, <1>is10, <1>is11, <1>is12, <1>is13, <1>is14,
           <1>is15, <1>is16, <1>is17, <1>is18

PointsInto(s, a) == a = Null \/ a \in {Id(y) : y \in SourceRows(s)}

LEMMA JoinsPoint ==
  ASSUME NEW x
  PROVE  /\ x.file \in FinalReport(view) =>
              /\ \A s \in {"report", "organisation", "facility"} :
                   \A a \in OfFile(s, x) : PointsInto(s, a)
              /\ \A a \in ActivityOf(x) : PointsInto("activity", a)
              /\ \A a \in UnitOf(x) : PointsInto("unit", a)
              /\ \A a \in FuelOf(x) \cup NamedFuelOf(x) : PointsInto("fuel", a)
              /\ \A a \in NaicsOf(x) : PointsInto("naics", a)
              /\ \A a \in OrganisationOf(x) : PointsInto("organisation", a)
              /\ \A a \in ParentOf(x) : PointsInto("parent_organisation", a)
              /\ \A a \in AddressOf(x) : PointsInto("address", a)
         /\ \A a \in LfoFacility(x) : PointsInto("facility", a)
         /\ \A a \in OfFile("report", x) : PointsInto("report_history", a)
<1>1. /\ \A s \in {"report", "organisation", "facility", "activity", "unit", "fuel", "naics",
                    "parent_organisation", "address"} : SourceRows(s) = Final(view, s)
      /\ SourceRows("report_history") = view.report
  BY SourcesAre DEF FinalRows, Table, Order
<1>2. ASSUME x.file \in FinalReport(view), NEW s, NEW a, NEW S \in SUBSET view[s],
             SourceRows(s) = Final(view, s), \A y \in S : y.file = x.file,
             a \in Left({Id(y) : y \in S})
      PROVE  PointsInto(s, a)
  <2>1. a = Null \/ \E y \in S : a = Id(y)
    BY <1>2 DEF Left
  <2>2. S \subseteq SourceRows(s)
    BY <1>2 DEF Final
  <2> QED BY <2>1, <2>2 DEF PointsInto
<1>file. ASSUME x.file \in FinalReport(view), NEW s \in {"report", "organisation", "facility"},
                NEW a \in OfFile(s, x)
         PROVE  PointsInto(s, a)
  <2> DEFINE S == {y \in view[s] : y.file = x.file /\ TRUE}
  <2>1. OfFile(s, x) = Left({Id(y) : y \in S}) /\ S \in SUBSET view[s] /\ \A y \in S : y.file = x.file
    BY DEF OfFile, Joined
  <2> HIDE DEF S
  <2> QED BY <1>1, <1>2, <1>file, <2>1
<1>activity. ASSUME x.file \in FinalReport(view), NEW a \in ActivityOf(x) PROVE PointsInto("activity", a)
  <2> DEFINE S == {y \in view.activity : y.file = x.file /\ InActivity(x, y)}
  <2>1. ActivityOf(x) = Left({Id(y) : y \in S}) /\ S \in SUBSET view.activity /\ \A y \in S : y.file = x.file
    BY DEF ActivityOf, Joined
  <2> HIDE DEF S
  <2> QED BY <1>1, <1>2, <1>activity, <2>1
<1>unit. ASSUME x.file \in FinalReport(view), NEW a \in UnitOf(x) PROVE PointsInto("unit", a)
  <2> DEFINE S == {y \in view.unit : y.file = x.file /\ InUnit(x, y)}
  <2>1. UnitOf(x) = Left({Id(y) : y \in S}) /\ S \in SUBSET view.unit /\ \A y \in S : y.file = x.file
    BY DEF UnitOf, Joined
  <2> HIDE DEF S
  <2> QED BY <1>1, <1>2, <1>unit, <2>1
<1>fuel. ASSUME x.file \in FinalReport(view), NEW a \in FuelOf(x) PROVE PointsInto("fuel", a)
  <2> DEFINE S == {y \in view.fuel : y.file = x.file /\ InFuel(x, y)}
  <2>1. FuelOf(x) = Left({Id(y) : y \in S}) /\ S \in SUBSET view.fuel /\ \A y \in S : y.file = x.file
    BY DEF FuelOf, Joined
  <2> HIDE DEF S
  <2> QED BY <1>1, <1>2, <1>fuel, <2>1
<1>named. ASSUME x.file \in FinalReport(view), NEW a \in NamedFuelOf(x) PROVE PointsInto("fuel", a)
  <2> DEFINE S == {y \in view.fuel : y.file = x.file /\ InNamedFuel(x, y)}
  <2>1. NamedFuelOf(x) = Left({Id(y) : y \in S}) /\ S \in SUBSET view.fuel /\ \A y \in S : y.file = x.file
    BY DEF NamedFuelOf, Joined
  <2> HIDE DEF S
  <2> QED BY <1>1, <1>2, <1>named, <2>1
<1>naics. ASSUME x.file \in FinalReport(view), NEW a \in NaicsOf(x) PROVE PointsInto("naics", a)
  <2> DEFINE S == {y \in view.naics : y.file = x.file /\ IsNaicsOf(x, y)}
  <2>1. NaicsOf(x) = Left({Id(y) : y \in S}) /\ S \in SUBSET view.naics /\ \A y \in S : y.file = x.file
    BY DEF NaicsOf, Joined
  <2> HIDE DEF S
  <2> QED BY <1>1, <1>2, <1>naics, <2>1
<1>organisation. ASSUME x.file \in FinalReport(view), NEW a \in OrganisationOf(x) PROVE PointsInto("organisation", a)
  <2> DEFINE S == {y \in view.organisation : y.file = x.file /\ IsOfOrganisation(x, y)}
  <2>1. OrganisationOf(x) = Left({Id(y) : y \in S}) /\ S \in SUBSET view.organisation /\ \A y \in S : y.file = x.file
    BY DEF OrganisationOf, Joined
  <2> HIDE DEF S
  <2> QED BY <1>1, <1>2, <1>organisation, <2>1
<1>parent. ASSUME x.file \in FinalReport(view), NEW a \in ParentOf(x) PROVE PointsInto("parent_organisation", a)
  <2> DEFINE S == {y \in view.parent_organisation : y.file = x.file /\ IsOfParent(x, y)}
  <2>1. ParentOf(x) = Left({Id(y) : y \in S}) /\ S \in SUBSET view.parent_organisation /\ \A y \in S : y.file = x.file
    BY DEF ParentOf, Joined
  <2> HIDE DEF S
  <2> QED BY <1>1, <1>2, <1>parent, <2>1
<1>address. ASSUME x.file \in FinalReport(view), NEW a \in AddressOf(x) PROVE PointsInto("address", a)
  <2> DEFINE S == {y \in view.address : y.file = x.file /\ IsAt(x, y)}
  <2>1. AddressOf(x) = Left({Id(y) : y \in S}) /\ S \in SUBSET view.address /\ \A y \in S : y.file = x.file
    BY DEF AddressOf, Joined
  <2> HIDE DEF S
  <2> QED BY <1>1, <1>2, <1>address, <2>1
<1>lfo. \A a \in LfoFacility(x) : PointsInto("facility", a)
  BY <1>1 DEF LfoFacility, Left, PointsInto, FinalRows
<1>history. \A a \in OfFile("report", x) : PointsInto("report_history", a)
  BY <1>1 DEF OfFile, Joined, Left, PointsInto
<1> QED
  BY <1>file, <1>activity, <1>unit, <1>fuel, <1>named, <1>naics,
     <1>organisation, <1>parent,
     <1>address, <1>lfo, <1>history

PointsWell(t, r) ==
  \A column \in DOMAIN r.ref :
    Referred(t, column) \in Table =>
      /\ PointsInto(Referred(t, column), r.ref[column])
      /\ Referred(t, column) \in Targets[t]

LEMMA RowsPoint ==
  ASSUME NEW t \in Table, NEW x \in SourceRows(t), NEW r \in RowsFor(t, x),
         t = "identifier" => Ids("facility") = {Id(y) : y \in SourceRows("facility")}
  PROVE  PointsWell(t, r)
<1>1. t \notin {"report_history", "report_attachment"} => x.file \in FinalReport(view)
  BY SourcesAre DEF FinalRows, Final
<1>2. /\ x.file \in FinalReport(view) =>
              /\ \A a \in OfFile("report", x) : PointsInto("report", a)
              /\ \A a \in OfFile("organisation", x) : PointsInto("organisation", a)
              /\ \A a \in OfFile("facility", x) : PointsInto("facility", a)
      /\ \A a \in LfoFacility(x) : PointsInto("facility", a)
      /\ \A a \in OfFile("report", x) : PointsInto("report_history", a)
      /\ PointsInto("facility", Null)
  BY JoinsPoint DEF PointsInto
<1>3. x.file \in FinalReport(view) =>
        /\ \A a \in ActivityOf(x) : PointsInto("activity", a)
        /\ \A a \in UnitOf(x) : PointsInto("unit", a)
        /\ \A a \in FuelOf(x) : PointsInto("fuel", a)
        /\ \A a \in NamedFuelOf(x) : PointsInto("fuel", a)
        /\ \A a \in NaicsOf(x) : PointsInto("naics", a)
        /\ \A a \in OrganisationOf(x) : PointsInto("organisation", a)
        /\ \A a \in ParentOf(x) : PointsInto("parent_organisation", a)
        /\ \A a \in AddressOf(x) : PointsInto("address", a)
  BY JoinsPoint
<1>4. t = "identifier" => \A a \in BcghgidOf(x) : PointsInto("facility", a)
  BY DEF BcghgidOf, Left, Ids, PointsInto
<1>5. /\ \A s : Referred(s, "fuel_mapping") \notin Table
      /\ Referred("report_history", "totals") \notin Table
      /\ Referred("report_attachment", "attachment") \notin Table
  BY DEF Referred, Table, Order
<1>report. t = "report" => (r \in LoadReport(x) => PointsWell("report", r))
  BY SMT, <1>1, <1>2 DEF LoadReport, Row, PointsWell, Referred, Targets
<1>organisation. t = "organisation" => (r \in LoadOrganisation(x) => PointsWell("organisation", r))
  BY SMT, <1>1, <1>2 DEF LoadOrganisation, Row, PointsWell, Referred, Targets
<1>facility. t = "facility" => (r \in LoadFacility(x) => PointsWell("facility", r))
  BY SMT, <1>1, <1>2 DEF LoadFacility, Row, PointsWell, Referred, Targets
<1>activity. t = "activity" => (r \in LoadActivity(x) => PointsWell("activity", r))
  BY SMT, <1>1, <1>2 DEF LoadActivity, Row, PointsWell, Referred, Targets
<1>unit. t = "unit" => (r \in LoadUnit(x) => PointsWell("unit", r))
  BY SMT, <1>1, <1>2, <1>3 DEF LoadUnit, Row, PointsWell, Referred, Targets
<1>identifier. t = "identifier" => (r \in LoadIdentifier(x) => PointsWell("identifier", r))
  BY SMT, <1>1, <1>2, <1>4 DEF LoadIdentifier, Row, PointsWell, Referred,
     Targets
<1>naics. t = "naics" => (r \in LoadNaics(x) => PointsWell("naics", r))
  BY SMT, <1>1, <1>2 DEF LoadNaics, Row, PointsWell, Referred, Targets
<1>fuel. t = "fuel" => (r \in LoadFuel(x) => PointsWell("fuel", r))
  BY SMT, <1>1, <1>2, <1>3, <1>5 DEF LoadFuel, Row, PointsWell, Referred,
     Targets
<1>emission. t = "emission" => (r \in LoadEmission(x) => PointsWell("emission", r))
  BY SMT, <1>1, <1>2, <1>3, <1>5 DEF LoadEmission, Row, PointsWell, Referred,
     Targets
<1>permit. t = "permit" => (r \in LoadPermit(x) => PointsWell("permit", r))
  BY SMT, <1>1, <1>2 DEF LoadPermit, Row, PointsWell, Referred, Targets
<1>parent_organisation. t = "parent_organisation" => (r \in LoadParentOrganisation(x) => PointsWell("parent_organisation", r))
  BY SMT, <1>1, <1>2 DEF LoadParentOrganisation, Row, PointsWell, Referred,
     Targets
<1>address. t = "address" => (r \in LoadAddress(x) => PointsWell("address", r))
  BY SMT, <1>1, <1>2, <1>3 DEF LoadAddress, Row, PointsWell, Referred, Targets
<1>contact. t = "contact" => (r \in LoadContact(x) => PointsWell("contact", r))
  BY SMT, <1>1, <1>2, <1>3 DEF LoadContact, Row, PointsWell, Referred, Targets
<1>additional_data. t = "additional_data" => (r \in LoadAdditionalData(x) => PointsWell("additional_data", r))
  BY SMT, <1>1, <1>2, <1>3 DEF LoadAdditionalData, Row, PointsWell, Referred,
     Targets
<1>emission_factor. t = "emission_factor" => (r \in LoadEmissionFactor(x) => PointsWell("emission_factor", r))
  BY SMT, <1>1, <1>2, <1>3 DEF LoadEmissionFactor, Row, PointsWell, Referred,
     Targets
<1>other_venting. t = "other_venting" => (r \in LoadOtherVenting(x) => PointsWell("other_venting", r))
  BY SMT, <1>1, <1>2 DEF LoadOtherVenting, Row, PointsWell, Referred, Targets
<1>report_history. t = "report_history" => (r \in LoadReportHistory(x) => PointsWell("report_history", r))
  BY SMT, <1>1, <1>2, <1>5 DEF LoadReportHistory, Row, PointsWell, Referred,
     Targets
<1>report_attachment. t = "report_attachment" => (r \in LoadReportAttachment(x) => PointsWell("report_attachment", r))
  BY SMT, <1>1, <1>2, <1>5 DEF LoadReportAttachment, Row, PointsWell, Referred,
     Targets
<1> QED
  BY RowsAre, TableNames, <1>report, <1>organisation, <1>facility, <1>activity,
     <1>unit, <1>identifier, <1>naics, <1>fuel, <1>emission, <1>permit,
     <1>parent_organisation, <1>address, <1>contact, <1>additional_data,
     <1>emission_factor, <1>other_venting, <1>report_history,
     <1>report_attachment

LEMMA NothingDangles ==
  ASSUME Loads, NEW n \in 1 .. Len(Order), NEW t, t = Order[n],
         \A m \in 1 .. n - 1 : Ids(Order[m]) = {Id(y) : y \in SourceRows(Order[m])}
  PROVE  Dangling(t, Loaded(t)) = {}
<1>1. t \in Table
  BY TablesInOrder
<1>2. t = "identifier" => Ids("facility") = {Id(y) : y \in SourceRows("facility")}
  <2>1. "facility" \in Targets["identifier"] /\ "facility" # "identifier"
    BY DEF Targets
  <2> QED BY <2>1, TargetsComeFirst
<1>3. {x.id : x \in Loaded(t)} = {Id(y) : y \in SourceRows(t)}
  BY <1>1, LoadsKeepIds
<1>4. ASSUME NEW r \in Loaded(t), NEW column \in DOMAIN r.ref,
             Referred(t, column) \in Table, r.ref[column] # Null
      PROVE  r.ref[column] \in IF Referred(t, column) = t THEN {x.id : x \in Loaded(t)}
                               ELSE Ids(Referred(t, column))
  <2> DEFINE s == Referred(t, column)
  <2>1. PICK x \in SourceRows(t) : r \in RowsFor(t, x)
    BY DEF Loaded
  <2>2. PointsWell(t, r)
    BY <1>1, <1>2, <2>1, RowsPoint
  <2>3. PointsInto(s, r.ref[column]) /\ s \in Targets[t]
    BY <1>4, <2>2 DEF PointsWell
  <2>4. r.ref[column] \in {Id(y) : y \in SourceRows(s)}
    BY <1>4, <2>3 DEF PointsInto
  <2>5. CASE s = t
    BY <1>3, <2>4, <2>5
  <2>6. CASE s # t
    <3>1. PICK m \in 1 .. n - 1 : Order[m] = s
      BY <2>3, <2>6, TargetsComeFirst
    <3>2. Ids(s) = {Id(y) : y \in SourceRows(s)}
      BY <3>1
    <3> QED BY <2>4, <2>6, <3>2
  <2> QED BY <2>5, <2>6
<1> QED BY <1>4 DEF Dangling

(* The facilities stand at the roots of their reports.                     *)
LEMMA FacilitiesAreRooted ==
  ASSUME Loads, Ids("facility") = {Id(y) : y \in SourceRows("facility")}
  PROVE  Rooted(tables.facility)
<1>1. SourceRows("facility") \subseteq view.facility
  BY SourcesAreInViews DEF Table, Order
<1>2. \A y \in view.facility : Id(y) = <<y.file, <<>>>>
  BY OnePerReport DEF Loads
<1>3. \A r \in tables.facility : r.id \in Ids("facility")
  BY DEF Ids
<1>4. ASSUME NEW r \in tables.facility PROVE r.id = <<r.id[1], <<>>>>
  <2>1. PICK y \in view.facility : r.id = Id(y)
    BY <1>1, <1>3, <1>4
  <2> QED BY <1>2, <2>1
<1> QED BY <1>4 DEF Rooted

LEMMA NextIsInserted ==
  ASSUME Loads, NEW n \in 1 .. Len(Order),
         \A m \in 1 .. n - 1 : Ids(Order[m]) = {Id(y) : y \in SourceRows(Order[m])}
  PROVE  Insertable(Order[n])
<1> DEFINE t == Order[n]
<1>1. t \in Table
  BY TablesInOrder
<1>2. t = "identifier" => Rooted(tables.facility)
  <2>1. "facility" \in Targets["identifier"] /\ "facility" # "identifier"
    BY DEF Targets
  <2>2. t = "identifier" => Ids("facility") = {Id(y) : y \in SourceRows("facility")}
    BY <2>1, TargetsComeFirst
  <2> QED BY <2>2, FacilitiesAreRooted
<1>3. ~SubqueryFails(t)
  BY NoSubqueryFails
<1>4. Dangling(t, Loaded(t)) = {}
  BY NothingDangles
<1> HIDE DEF t
<1>5. UniqueIds(t, Loaded(t))
  BY <1>1, <1>2, IdsAreUnique
<1>6. Insertable(t)
  BY <1>3, <1>4, <1>5 DEF Insertable
<1> QED BY <1>6 DEF t

-----------------------------------------------------------------------------
(* The invariant: the tables that a load has filled have the rows of their *)
(* sources.                                                                *)
Filling ==
  status = "loading" =>
    \A m \in 1 .. loaded : Ids(Order[m]) = {Id(y) : y \in SourceRows(Order[m])}

LEMMA FillingHolds == Spec => []Filling
<1>1. Init => Filling
  BY DEF Init, Filling
<1>2. Inv /\ Filling /\ [Next]_vars => Filling'
  <2> SUFFICES ASSUME Inv, Filling, [Next]_vars, status' = "loading"
               PROVE  \A m \in 1 .. loaded' :
                        Ids(Order[m])' = {Id(y) : y \in SourceRows(Order[m])'}
    BY DEF Filling
  <2>1. CASE Transform
    BY <2>1 DEF Transform, Inv, Computed
  <2>2. CASE LoadTable
    <3>1. PICK t \in Table : /\ t = Order[loaded + 1]
                            /\ tables'[t] = Loaded(t)
                            /\ \A s \in Table \ {t} : tables'[s] = tables[s]
      BY <2>2, TableIsFilled
    <3>2. \A s : SourceRows(s)' = SourceRows(s)
      BY <2>2 DEF LoadTable, SourceRows, FinalRows
    <3>3. loaded' = loaded + 1 /\ status = "loading" /\ loaded \in Nat /\ loaded < Len(Order)
      BY <2>2 DEF LoadTable, Inv
    <3>4. Ids(t)' = {Id(y) : y \in SourceRows(t)}
      BY <3>1, LoadsKeepIds DEF Ids
    <3>5. \A s \in Table \ {t} : Ids(s)' = Ids(s)
      BY <3>1 DEF Ids
    <3>6. \A m \in 1 .. loaded : Ids(Order[m]) = {Id(y) : y \in SourceRows(Order[m])}
      BY <3>3 DEF Filling
    <3>7. ASSUME NEW m \in 1 .. loaded'
          PROVE  Ids(Order[m])' = {Id(y) : y \in SourceRows(Order[m])}
      <4>1. CASE Order[m] = t
        BY <3>4, <4>1
      <4>2. CASE Order[m] # t
        <5>1. m \in 1 .. loaded /\ Order[m] \in Table
          BY <3>1, <3>3, <4>2, TablesInOrder
        <5> QED BY <3>5, <3>6, <4>2, <5>1
      <4> QED BY <4>1, <4>2
    <3> QED BY <3>2, <3>7
  <2>3. CASE Publish
    BY <2>3 DEF Publish
  <2>4. CASE Fail
    BY <2>4 DEF Fail
  <2>5. CASE UNCHANGED vars
    <3>1. \A s : SourceRows(s)' = SourceRows(s) /\ Ids(s)' = Ids(s)
      BY <2>5 DEF vars, SourceRows, FinalRows, Ids
    <3> QED BY <2>5, <3>1 DEF vars, Filling
  <2> QED BY <2>1, <2>2, <2>3, <2>4, <2>5 DEF Next
<1> QED BY <1>1, <1>2, InvHolds, PTL DEF Spec

(* For any finite number of regular reports of the shapes that the files   *)
(* have: no unique index refuses a refresh, and no subquery, primary key   *)
(* or foreign key what a load function inserts, so that no error ends a    *)
(* load (swrs_transform.load, its views, and the load functions).          *)
THEOREM RegularReportsLoad ==
  ASSUME ReportsAreNested, ReportsAreListed, AttachmentsAreApart
  PROVE  Spec => []LoadSucceeds
<1>1. Init => LoadSucceeds
  BY DEF Init, LoadSucceeds
<1>2. Inv /\ KeysHold /\ Filling /\ LoadSucceeds /\ [Next]_vars => LoadSucceeds'
  <2> SUFFICES ASSUME Inv, KeysHold, Filling, LoadSucceeds, [Next]_vars, Regular', status' = "failed"
               PROVE  FALSE
    BY DEF LoadSucceeds
  <2>1. CASE Fail
    <3>1. docs' = docs
      BY <2>1 DEF Fail
    <3>2. Regular
      BY <3>1 DEF Regular, IsLast
    <3>3. CASE status = "called" /\ ~UniqueKeys(Transformed(docs))
      BY <3>2, <3>3, KeysAreUnique DEF Inv
    <3>4. CASE status = "loading" /\ loaded < Len(Order) /\ ~Insertable(Order[loaded + 1])
      <4>1. Loads
        BY <3>2, <3>4 DEF Loads, Inv, Computed, KeysHold
      <4>2. loaded + 1 \in 1 .. Len(Order) /\ (loaded + 1) - 1 = loaded
        BY <3>4, TablesInOrder DEF Inv
      <4>3. \A m \in 1 .. (loaded + 1) - 1 : Ids(Order[m]) = {Id(y) : y \in SourceRows(Order[m])}
        BY <3>4, <4>2 DEF Filling
      <4>4. Insertable(Order[loaded + 1])
        BY <4>1, <4>2, <4>3, NextIsInserted
      <4> QED BY <3>4, <4>4
    <3> QED BY <2>1, <3>3, <3>4 DEF Fail
  <2>2. CASE UNCHANGED vars
    BY <2>2 DEF vars, LoadSucceeds, Regular, IsLast
  <2>3. CASE Transform \/ LoadTable \/ Publish
    BY <2>3 DEF Transform, LoadTable, Publish
  <2> QED BY <2>1, <2>2, <2>3 DEF Next
<1> QED BY <1>1, <1>2, InvHolds, KeysStay, FillingHolds, PTL DEF Spec
=============================================================================
