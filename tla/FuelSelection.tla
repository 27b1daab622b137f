---------------------------- MODULE FuelSelection ----------------------------
(***************************************************************************)
(* The list from which a fuel is selected on both pages of the fuel        *)
(* management (FuelSelectionComponent).  A click on a fuel first fetches   *)
(* the query of the page, so that the page has its data when the route     *)
(* changes; until then other clicks are ignored.  The fetch is not         *)
(* cancelled when the user leaves the page: its end replaces the route,    *)
(* which brings the user back.                                             *)
(*                                                                         *)
(* The pages extend this module and say when the data of a fuel is already *)
(* in the store, and what a fetch brings.                                  *)
(***************************************************************************)
EXTENDS Naturals

CONSTANTS
  Item,        \* the fuels of the list
  None,        \* no fuel
  MaxVisits    \* bound: how often the page is opened again

SelectionAssumption == None \notin Item /\ MaxVisits \in Nat

VARIABLES
  url,     \* the query of the route: the fuel, and showAll
  fetches, \* the fetches that have not ended
  visits   \* how often the page was opened again

selection == <<url, fetches, visits>>

Url == [item : Item \cup {None}, showAll : BOOLEAN]

(* "to" is the URL computed at the click; the component that computed it   *)
(* is gone when the user has left the page since.                          *)
Fetch == [to : [item : Item, showAll : BOOLEAN], gone : BOOLEAN]

isRefetching == \E x \in fetches : ~ x.gone

SelectionTypeOK ==
  /\ url \in Url
  /\ fetches \subseteq Fetch
  /\ visits \in 0 .. MaxVisits

SelectionInit ==
  /\ url = [item |-> None, showAll |-> FALSE]
  /\ fetches = {}
  /\ visits = 0

(* fetchQuery with "store-or-network" completes at once with data that is  *)
(* in the store.                                                           *)
Click(i, inStore) ==
  LET to == [url EXCEPT !.item = i] IN
  /\ ~ isRefetching
  /\ IF inStore
       THEN url' = to /\ UNCHANGED fetches
       ELSE fetches' = fetches \cup {[to |-> to, gone |-> FALSE]} /\ UNCHANGED url
  /\ UNCHANGED visits

(* afterFetch, for fetches that share a request: it runs when the query    *)
(* completes and when it fails.                                            *)
AfterFetch(xs) ==
  /\ fetches' = fetches \ xs
  /\ \E x \in xs : url' = x.to
  /\ UNCHANGED visits

(* The user leaves, and opens the page again by the link of the dashboard. *)
(* (A fetch that ends while the user is elsewhere opens the page too: here *)
(* that is the end of the fetch after the visit.)                          *)
Visit ==
  /\ visits < MaxVisits
  /\ visits' = visits + 1
  /\ url' = [item |-> None, showAll |-> FALSE]
  /\ fetches' = {[x EXCEPT !.gone = TRUE] : x \in fetches}

(* The list never stops to answer: a fetch that fails ends the wait as one *)
(* that completes does (FuelSelectionComponent 65-72).                     *)
SelectionIsNeverStuck == isRefetching ~> ~ isRefetching
=============================================================================
