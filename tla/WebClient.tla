------------------------------ MODULE WebClient ------------------------------
(***************************************************************************)
(* The application in the browser: its pages, and the layer below them     *)
(* that sends mutations.  The pages share no state but the route, so each  *)
(* is run on its own: the part that runs is chosen at first, and the       *)
(* variables of the others keep a value that says so.                      *)
(***************************************************************************)
EXTENDS DebounceMutation

CONSTANTS
  Part,  \* the parts that are run
  Item, None, MaxVisits, MaxSaves,                        \* both fuel pages
  Elsewhere, MaxDate, MaxCharge, MaxEntries, MaxForeign, MaxFaults,
  FuelType, Initially, NoRow, MaxDisturbances,
  ReportId, WrongId, NoId, OpenedWith, MaxPushes,         \* XmlDiff
  Archive, NoArchive, MaxClicks                           \* SwrsBrowser

VARIABLES
  part,  \* what runs
  (* both fuel pages *)
  url, fetches, visits, lists, requests, answers, saves, faults,
  (* FuelChargePage *)
  charges, records, forms, entries, foreign, overtaken,
  (* FuelMappingPage *)
  mapping, stamp, unmapped, known, cache, fresh, doubt,
  (* XmlDiff *)
  query, pushes, swrsReportId, swrsReportIdIsValid, editing, calls, controls,
  disturbed,
  (* SwrsBrowser *)
  files, selectedFile, fileContents, fetching, clicks, outrun,
  (* OptimisticMutation, with answers and the variables of DebounceMutation *)
  debouncedMutationMap, confirmed, value, inFlight, muddled

selection == <<url, fetches, visits>>
fuelVars == <<selection, lists, requests, saves, faults>>
chargeVars == <<charges, records, forms, entries, foreign, overtaken>>
mappingVars == <<mapping, stamp, unmapped, known, cache, fresh, doubt>>
diffVars == <<query, pushes, swrsReportId, swrsReportIdIsValid, editing,
              calls, controls, disturbed>>
browserVars == <<files, selectedFile, fileContents, fetching, clicks, outrun>>
mutationVars == <<debounce, debouncedMutationMap, confirmed, value, inFlight,
                  muddled>>

vars == <<part, fuelVars, answers, chargeVars, mappingVars, diffVars,
          browserVars, mutationVars>>

Charge == INSTANCE FuelChargePage
Map == INSTANCE FuelMappingPage
Diff == INSTANCE XmlDiff WITH timers <- calls
Browser == INSTANCE SwrsBrowser
Optimistic == INSTANCE OptimisticMutation

ASSUME PartAssumption ==
  /\ Part \subseteq {"charges", "mappings", "diff", "browser", "mutations"}
  /\ Charge!SelectionAssumption
  /\ Charge!ChargeAssumption
  /\ Map!MappingAssumption
  /\ Diff!DiffAssumption
  /\ Browser!BrowserAssumption

-----------------------------------------------------------------------------
(* The parts that do not run.                                              *)
FuelOff ==
  /\ url = {} /\ fetches = {} /\ visits = {} /\ lists = {}
  /\ requests = {} /\ saves = {} /\ faults = {}

ChargesOff ==
  /\ charges = {} /\ records = {} /\ forms = {}
  /\ entries = {} /\ foreign = {} /\ overtaken = {}

MappingsOff ==
  /\ mapping = {} /\ stamp = {} /\ unmapped = {} /\ known = {}
  /\ cache = {} /\ fresh = {} /\ doubt = {}

DiffOff ==
  /\ query = {} /\ pushes = {} /\ swrsReportId = {}
  /\ swrsReportIdIsValid = {} /\ editing = {} /\ calls = {} /\ controls = {} /\ disturbed = {}

BrowserOff ==
  /\ files = {} /\ selectedFile = {} /\ fileContents = {} /\ fetching = {}
  /\ clicks = {} /\ outrun = {}

MutationsOff ==
  /\ DebounceInit
  /\ confirmed = {} /\ debouncedMutationMap = {} /\ value = {} /\ inFlight = {} /\ muddled = {}

Init ==
  /\ part \in Part
  /\ \/ /\ part = "charges" /\ Charge!Init
        /\ MappingsOff /\ DiffOff /\ BrowserOff /\ MutationsOff
     \/ /\ part = "mappings" /\ Map!Init
        /\ ChargesOff /\ DiffOff /\ BrowserOff /\ MutationsOff
     \/ /\ part = "diff" /\ Diff!Init
        /\ FuelOff /\ answers = {} /\ ChargesOff /\ MappingsOff /\ BrowserOff
        /\ MutationsOff
     \/ /\ part = "browser" /\ Browser!Init
        /\ FuelOff /\ answers = {} /\ ChargesOff /\ MappingsOff /\ DiffOff
        /\ MutationsOff
     \/ /\ part = "mutations" /\ Optimistic!Init
        /\ FuelOff /\ ChargesOff /\ MappingsOff /\ DiffOff /\ BrowserOff

Next ==
  \/ /\ part = "charges"
     /\ Charge!Next
     /\ UNCHANGED <<part, mappingVars, diffVars, browserVars, mutationVars>>
  \/ /\ part = "mappings"
     /\ Map!Next
     /\ UNCHANGED <<part, chargeVars, diffVars, browserVars, mutationVars>>
  \/ /\ part = "diff"
     /\ Diff!Next
     /\ UNCHANGED <<part, fuelVars, answers, chargeVars, mappingVars,
                    browserVars, mutationVars>>
  \/ /\ part = "browser"
     /\ Browser!Next
     /\ UNCHANGED <<part, fuelVars, answers, chargeVars, mappingVars,
                    diffVars, mutationVars>>
  \/ /\ part = "mutations"
     /\ Optimistic!Next
     /\ UNCHANGED <<part, fuelVars, chargeVars, mappingVars, diffVars, browserVars>>

(* The server answers the page of the fuel mappings; no other page has a   *)
(* property that needs fairness.                                           *)
mapVars == Map!vars
Fairness ==
  /\ WF_mapVars(part = "mappings" /\ Map!Serve)
  /\ WF_mapVars(part = "mappings" /\ Map!Receive)

Spec == Init /\ [][Next]_vars /\ Fairness
=============================================================================
