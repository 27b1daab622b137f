--------------------------- MODULE SwrsTransformMC ---------------------------
(* Small reports, of the shapes in test/data and test/unit.                *)
EXTENDS SwrsTransformLoad

-----------------------------------------------------------------------------
(* What the elements of a name say.  Places tell the variants apart.       *)
TextOf(e) ==
  LET place == e[Len(e)][2]
  IN  CASE Tag(e) = "SubProcess" ->
             [name |-> IF place = 0 THEN "Flaring" ELSE "Venting"]
        [] Tag(e) = "Fuel" -> [type |-> IF place = 0 THEN "Coal" ELSE "Peat"]
        [] Tag(e) = "Emission" ->
             [gas |-> IF place = 0 THEN "CO2nonbio" ELSE "CH4",
              type |-> "Venting"]
        [] Tag(e) = "EIOEmission" -> [gas |-> "", type |-> ""]
        [] Tag(e) = "TotalRow" -> [gas |-> "CO2nonbio", type |-> ""]
        [] Tag(e) = "Identifier" ->
             [type |-> IF place < 2 THEN "BCGHGID" ELSE "NPRI", value |-> "12"]
        [] Tag(e) = "NAICSCode" ->
             [priority |-> IF place < 2 THEN "Primary" ELSE "",
              code |-> "211113"]
        [] Tag(e) = "FileDetails" -> [name |-> "plan", number |-> 1]
        [] OTHER -> [value |-> "x"]
Textual ==
  {"SubProcess", "Fuel", "Emission", "EIOEmission", "TotalRow", "Identifier",
   "NAICSCode", "FileDetails", "UploadedFileName", "UploadedBy", "Comments",
   "Amount", "OtherVentingDetails"}

Document(details, leaves) ==
  LET elements == UNION {{SubSeq(e, 1, n) : n \in 0 .. Len(e)} : e \in leaves}
  IN  [details |-> details, elements |-> elements,
       text |-> [e \in {x \in elements : Tag(x) \in Textual} |-> TextOf(e)]]

Details(type, facilityType, facility, year, rank) ==
  [type |-> type, facilityType |-> facilityType, facility |-> facility,
   organisation |-> "org", year |-> year, rank |-> rank,
   reportable |-> rank > 0, report |-> rank, zip |-> "z"]

-----------------------------------------------------------------------------
(* ActivityData.  A fuel is at <<process, sub-process, units, unit, fuel>>. *)
Activity == <<<<"ActivityData", 3>>, <<"ActivityPages", 0>>>>
FuelAt(i) ==
  Activity \o <<<<"Process", i[1]>>, <<"SubProcess", i[2]>>, <<"Units", i[3]>>,
                <<"Unit", i[4]>>, <<"Fuels", 0>>, <<"Fuel", i[5]>>>>
FuelLeaves(i) ==
  {FuelAt(i) \o s : s \in
     {<<<<"Emissions", 0>>, <<"Emission", n>>>> : n \in 0 .. 1}
     \cup {<<<<"Emissions", 1>>, <<"Emission", 0>>>>,
           <<<<"EIOEmissions", 2>>, <<"EIOEmission", 0>>>>,
           <<<<"MeasuredEmissionFactors", 3>>, <<"MeasuredEmissionFactor", 0>>>>,
           <<<<"EmissionFactors", 4>>, <<"EmissionFactor", 0>>,
             <<"EmissionFactorAmount", 0>>>>}}
Comments(n) ==
  {<<<<"ActivityData", 3>>, <<"ReportComments", 1>>, <<"Process", 0>>,
     <<"SubProcess", 0>>>> \o s : s \in
     {<<<<"FileDetails", m>>, <<"UploadedFileName", 0>>>> : m \in 0 .. n - 1}
     \cup {<<<<"Comments", 5>>>>}}
Description ==
  {Activity \o <<<<"Process", 0>>, <<"SubProcess", 0>>>> \o s : s \in
     {<<<<"Amount", 2>>>>, <<<<"Table", 3>>, <<"Amount", 0>>>>,
      <<<<"Table", 3>>, <<"Row", 1>>, <<"Amount", 0>>>>,
      <<<<"Table", 3>>, <<"Row", 1>>, <<"Cell", 1>>, <<"Part", 0>>,
        <<"Amount", 0>>>>}}
  \cup {Activity \o <<<<"Process", 0>>, <<"SubProcess", 1>>,
                      <<"OtherVentingDetails", 4>>>>}
Totals(n) ==
  {<<<<"ActivityData", 3>>, <<"TotalAttributableEmissions", 2>>,
     <<"TotalGroups", m>>, <<"Totals", 0>>, <<"Emissions", 0>>,
     <<"TotalRow", 0>>>> : m \in 0 .. n - 1}

-----------------------------------------------------------------------------
(* RegistrationData and VerifyTombstone: as many of each as is said.       *)
Registration(context, contacts, parents, identifiers, codes) ==
  LET facility == <<context, <<"Facility", 1>>, <<"Identifiers", 0>>>>
  IN  {<<context, <<"Contacts", 3>>, <<"Contact", n>>, <<"Address", 1>>>> :
         n \in contacts}
      \cup {<<context, <<"ParentOrganisations", 2>>,
              <<"ParentOrganisation", n>>, <<"Address", 1>>>> : n \in parents}
      \cup {facility \o <<<<"IdentifierList", 0>>, <<"Identifier", n>>>> :
              n \in identifiers}
      \cup {facility \o <<<<"NAICSCodeList", 1>>, <<"NAICSCode", n>>>> :
              n \in codes}
      \cup {<<context, <<"Organisation", 0>>, <<"Address", 1>>>>,
            facility \o <<<<"Permits", 2>>, <<"Permit", 0>>>>}
RegisteredAs(contacts, parents, identifiers, codes) ==
  Registration(<<"RegistrationData", 0>>, contacts, parents, identifiers, codes)
Verified(contacts, parents, identifiers, codes) ==
  Registration(<<"VerifyTombstone", 1>>, contacts, parents, identifiers, codes)

-----------------------------------------------------------------------------
(* Reports by what varies in them.                                         *)
Others == Comments(1) \cup Description
Registrations ==
  RegisteredAs({0, 1}, {0, 1}, {0, 2}, {0}) \cup Verified({0}, {1}, {0}, {2})
Origin == <<0, 0, 0, 0, 0>>
FuelsAt(I) == UNION {FuelLeaves(i) : i \in I}

Gas(leaves) ==
  Document(Details("R1", "IF_a", "plant", 2020, 2), Others \cup leaves)
GasBefore ==
  Document(Details("R1", "IF_a", "plant", 2020, 1), FuelsAt({Origin}))
Lfo(facility, year) ==
  Document(Details("R1", "LFO", facility, year, 1), FuelsAt({Origin}))
Unsubmitted == Document(Details("R1", "LFO", "field", 2020, 0), {})
R3(n) == Document(Details("R3", "SFO", "mill", 2020, 1), Totals(n))

(* The fuels: two to four that differ in two of the five places, and eight *)
(* that differ in three.                                                   *)
Places(T) == {i \in [1 .. 5 -> 0 .. 1] : \A n \in 1 .. 5 \ T : i[n] = 0}
FuelSets ==
  UNION {{I \in SUBSET Places({a, b}) : Cardinality(I) > 1} :
         a \in 1 .. 5, b \in 1 .. 5}
  \cup {Places(T) : T \in {S \in SUBSET (1 .. 5) : Cardinality(S) = 3}}
ByFuel ==
  {[gas |-> Gas(Registrations \cup FuelsAt(I)), before |-> GasBefore,
    r3 |-> R3(1)] : I \in FuelSets}

(* What the registration and the tombstone say of the facility.            *)
ByRegistration ==
  {[gas |-> Gas(FuelsAt({Origin}) \cup RegisteredAs({0}, {0}, i, c)
                \cup Verified({0, 1}, {}, j, k)),
    lfo |-> Lfo("field", 2020)] :
     i \in {{2}, {0, 2}}, j \in {{}, {0}, {0, 1}},
     c \in {{0}, {0, 1}}, k \in {{}, {2}, {2, 3}}}

(* Which other reports there are.                                          *)
More ==
  [before |-> GasBefore, lfo |-> Lfo("field", 2020),
   earlier |-> Lfo("field", 2019), second |-> Lfo("well", 2020),
   unsubmitted |-> Unsubmitted, r3 |-> R3(2)]
ByFile ==
  {[f \in F \cup {"gas"} |->
      IF f = "gas" THEN Gas(FuelsAt({Origin}) \cup Comments(2)) ELSE More[f]] :
     F \in SUBSET {"before", "lfo"}}
  \cup
  {[f \in F \cup {"gas"} |->
      IF f = "gas" THEN Gas(FuelsAt({Origin})) ELSE More[f]] :
     F \in SUBSET DOMAIN More}

MCExtract == ByFuel \cup ByRegistration \cup ByFile
MCAttachment ==
  {[report |-> n, number |-> 1, name |-> "plan", zip |-> "z"] : n \in 1 .. 2}

ASSUME FuelsOfInstanceAreApart == FuelsAreApart
ASSUME ReportsOfInstanceAreNested == ReportsAreNested
ASSUME ReportsOfInstanceAreListed == ReportsAreListed
ASSUME AttachmentsOfInstanceAreApart == AttachmentsAreApart
=============================================================================
