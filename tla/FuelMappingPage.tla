--------------------------- MODULE FuelMappingPage ---------------------------
(***************************************************************************)
(* The page on which the fuel types of the reports are mapped to           *)
(* normalized fuels: the list of the types without one, each with a menu   *)
(* and a button, and the types mapped to the normalized fuel that is       *)
(* selected, each with a button that removes it.                           *)
(*                                                                         *)
(* Each of the three mutations answers with the list of unmapped types as  *)
(* it was when it committed, and changes one list of mapped types; the     *)
(* query of the page replaces all lists.  Requests are not ordered, and    *)
(* the answer to a query can come from the cache of the network layer,     *)
(* which keeps it for a minute, whatever was saved meanwhile.  One user is *)
(* modelled here; SwrsLoad has the mutations of several.                   *)
(***************************************************************************)
EXTENDS FuelSelection, FiniteSets

CONSTANTS
  FuelType,   \* fuel types of the reports
  Initially,  \* the mappings there may be at first
  NoRow,      \* a fuel type without a row in fuel_mapping
  MaxSaves,   \* bound: mutations of this user
  MaxDisturbances  \* bound: visits, and requests and answers that are lost

(* A fuel type has no row, or one with a normalized fuel or with none.     *)
Mapping == [FuelType -> Item \cup {None, NoRow}]

MappingAssumption ==
  /\ NoRow \notin Item \cup {None}
  /\ Initially \subseteq Mapping
  /\ {MaxSaves, MaxDisturbances} \subseteq Nat

VARIABLES
  mapping,   \* fuel_mapping
  stamp,     \* history: the number of commits
  unmapped,  \* the list of unmapped types in the store
  lists,     \* the types mapped to each normalized fuel in the store
  known,     \* the normalized fuels whose data the store has
  requests, answers,
  cache,     \* the answer to the page's own query in the network layer
  saves, faults,
  fresh,     \* history: the latest commit an answer told of, or would have
  doubt      \* history: an answer came late or never, or a row was mapped
             \* while another save of it was in flight

store == <<unmapped, lists, known>>
network == <<requests, answers, cache>>
history == <<fresh, doubt>>
vars == <<selection, mapping, stamp, store, network, saves, faults,
          history>>

-----------------------------------------------------------------------------
(* unmapped_fuel(): the types without a normalized fuel; those that have a *)
(* row come with its id.                                                   *)
unmapped_fuel(m) ==
  {[type |-> t, row |-> m[t] = None] : t \in {u \in FuelType : m[u] \in {None, NoRow}}}

MappedTo(m) == [d \in Item |-> {t \in FuelType : m[t] = d}]

Unmapped == SUBSET [type : FuelType, row : BOOLEAN]
Lists == [Item -> SUBSET FuelType]

(* A query may be a fetch of FuelSelectionComponent.                       *)
Save == [kind : {"create", "update", "remove"}, type : FuelType,
         detail : Item, no : 1 .. MaxSaves]
Query == [kind : {"query"}, item : Item \cup {None}, fetch : BOOLEAN]
Content == [stamp : Nat, unmapped : Unmapped, lists : Lists]
SaveAnswer == [to : Save, stamp : Nat, unmapped : Unmapped]
QueryAnswer == [to : Query, stamp : Nat, unmapped : Unmapped, lists : Lists]

TypeOK ==
  /\ SelectionTypeOK
  /\ mapping \in Mapping
  /\ stamp \in Nat /\ fresh \in Nat /\ doubt \in BOOLEAN
  /\ unmapped \in Unmapped
  /\ lists \in Lists
  /\ known \subseteq Item
  /\ requests \subseteq Save \cup Query
  /\ answers \subseteq SaveAnswer \cup QueryAnswer
  /\ cache \subseteq Content

-----------------------------------------------------------------------------
Disturb == visits + faults < MaxDisturbances

(* The user came by the link of the dashboard, a moment ago or earlier.    *)
Init ==
  /\ SelectionInit
  /\ mapping \in Initially
  /\ stamp = 0 /\ saves = 0 /\ faults = 0
  /\ unmapped = unmapped_fuel(mapping)
  /\ lists = MappedTo(mapping)
  /\ known = {}
  /\ requests = {} /\ answers = {}
  /\ cache = {[stamp |-> 0, unmapped |-> unmapped, lists |-> lists]}
  /\ fresh = 0 /\ doubt = FALSE

(* Fetches of the same fuel share their request.                           *)
FetchesOf(q) == {x \in fetches : x.to.item = q.item}

SelectFuel(i) ==
  /\ Click(i, i \in known)
  /\ IF i \in known
       THEN UNCHANGED <<requests, answers>>
       ELSE /\ requests' = requests \cup
                 {[kind |-> "query", item |-> i, fetch |-> TRUE]}
            /\ UNCHANGED answers
  /\ UNCHANGED <<mapping, stamp, store, cache, saves, faults, history>>

(* The page is opened with what the store has, and asks again; the query   *)
(* is answered from the cache of the network layer if that has it.         *)
Opening == [kind |-> "query", item |-> None, fetch |-> FALSE]

Cached(c) == [to |-> Opening, stamp |-> c.stamp, unmapped |-> c.unmapped,
              lists |-> c.lists]

VisitPage ==
  /\ Disturb
  /\ Visit
  /\ IF cache = {}
       THEN requests' = requests \cup {Opening} /\ UNCHANGED answers
       ELSE /\ answers' = answers \cup {Cached(c) : c \in cache}
            /\ UNCHANGED requests
  /\ UNCHANGED <<mapping, stamp, store, cache, saves, faults, history>>

PageOnly == UNCHANGED <<selection, mapping, stamp, store, answers, cache, faults,
                        fresh>>

Send(kind, t, d) ==
  /\ saves < MaxSaves
  /\ saves' = saves + 1
  /\ requests' = requests \cup
       {[kind |-> kind, type |-> t, detail |-> d, no |-> saves + 1]}

InFlight == requests \cup {a.to : a \in answers}

(* Apply in the row u, with d chosen in its menu (without a choice the     *)
(* handler throws).                                                        *)
handleApply(u, d) ==
  /\ u \in unmapped
  /\ Send(IF u.row THEN "update" ELSE "create", u.type, d)
  /\ doubt' = (doubt \/ \E r \in InFlight :
                           r.kind \in {"update", "remove"} /\ r.type = u.type)
  /\ PageOnly

handleRemove(t) ==
  /\ url.item \in known
  /\ t \in lists[url.item]
  /\ Send("remove", t, url.item)
  /\ UNCHANGED doubt
  /\ PageOnly

-----------------------------------------------------------------------------
(* The server.  A second row for a type is refused by the unique index,    *)
(* and the page logs the error.                                            *)
Refused(r) == r.kind = "create" /\ mapping[r.type] # NoRow

Commit(r) ==
  /\ r \in requests
  /\ r.kind # "query"
  /\ requests' = requests \ {r}
  /\ IF Refused(r)
       THEN UNCHANGED <<mapping, stamp, answers>>
       ELSE /\ mapping' = [mapping EXCEPT
                 ![r.type] = IF r.kind = "remove" THEN None ELSE r.detail]
            /\ stamp' = stamp + 1
            /\ answers' = answers \cup
                 {[to |-> r, stamp |-> stamp', unmapped |-> unmapped_fuel(mapping')]}
  /\ UNCHANGED <<selection, store, cache, saves, faults, history>>

Read(q) ==
  /\ q \in requests
  /\ q.kind = "query"
  /\ requests' = requests \ {q}
  /\ answers' = answers \cup
       {[to |-> q, stamp |-> stamp, unmapped |-> unmapped_fuel(mapping),
         lists |-> MappedTo(mapping)]}
  /\ UNCHANGED <<selection, mapping, stamp, store, cache, saves, faults,
                 history>>

-----------------------------------------------------------------------------
(* The answers *)

Taken(a) ==
  /\ answers' = answers \ {a}
  /\ fresh' = IF a.stamp > fresh THEN a.stamp ELSE fresh

\* Mutant of nowUnmapped: deleteFuelMapping does not ask for the list of
\* unmapped types in its answer.
NotAfterRemoval(a) == IF a.to.kind = "remove" THEN unmapped ELSE a.unmapped

(* Each mutation asks for the list of unmapped types in its answer.        *)
nowUnmapped(a) == a.unmapped

(* A type that is mapped is appended to the list of its normalized fuel,   *)
(* one that is removed is deleted from the list it was removed from.       *)
ReceiveSave(a) ==
  /\ a \in answers
  /\ a.to.kind # "query"
  /\ Taken(a)
  /\ unmapped' = nowUnmapped(a)
  /\ lists' = [lists EXCEPT ![a.to.detail] =
       IF a.to.kind = "remove" THEN @ \ {a.to.type} ELSE @ \cup {a.to.type}]
  /\ doubt' = (doubt \/ a.stamp < fresh)
  /\ UNCHANGED <<selection, mapping, stamp, known, requests, cache, saves, faults>>

(* The query replaces the lists.  An answer from the server is kept in the *)
(* cache; one that is not older than what the store has, and is the last   *)
(* in flight, leaves nothing in doubt.                                     *)
ReceiveQuery(a) ==
  /\ a \in answers
  /\ a.to.kind = "query"
  /\ Taken(a)
  /\ unmapped' = a.unmapped
  /\ lists' = a.lists
  /\ known' = known \cup ({a.to.item} \ {None})
  /\ cache' = IF a.to # Opening THEN cache
              ELSE {[stamp |-> a.stamp, unmapped |-> a.unmapped, lists |-> a.lists]}
  /\ doubt' = \/ a.stamp < fresh
              \/ doubt /\ InFlight # {a.to}
  /\ IF a.to.fetch THEN AfterFetch(FetchesOf(a.to)) ELSE UNCHANGED selection
  /\ UNCHANGED <<mapping, stamp, requests, saves, faults>>

(* After a minute.                                                         *)
Expire ==
  /\ cache # {}
  /\ cache' = {}
  /\ UNCHANGED <<selection, mapping, stamp, store, requests, answers,
                 saves, faults, history>>

(* A mutation is lost before it reaches the server, or its answer is.      *)
LoseSave ==
  /\ Disturb
  /\ faults' = faults + 1
  /\ \/ \E r \in {q \in requests : q.kind # "query"} : requests' = requests \ {r}
        /\ UNCHANGED <<answers, history>>
     \/ \E a \in {b \in answers : b.to.kind # "query"} :
          /\ Taken(a)
          /\ doubt' = TRUE
        /\ UNCHANGED requests
  /\ UNCHANGED <<selection, mapping, stamp, store, cache, saves>>

\* Mutant of FetchFails: the error of the fetch is not handled.
FailsUnseen(q) ==
  /\ q \in requests
  /\ q.kind = "query" /\ q.fetch
  /\ Disturb
  /\ faults' = faults + 1
  /\ requests' = requests \ {q}
  /\ UNCHANGED <<selection, mapping, stamp, store, answers, cache, saves, history>>

(* A fetch fails: the route is replaced nevertheless, and the page fetches *)
(* again as it renders.                                                    *)
FetchFails(q) ==
  /\ q \in requests
  /\ q.kind = "query" /\ q.fetch
  /\ Disturb
  /\ faults' = faults + 1
  /\ AfterFetch(FetchesOf(q))
  /\ requests' = (requests \ {q}) \cup {[q EXCEPT !.fetch = FALSE]}
  /\ UNCHANGED <<mapping, stamp, store, answers, cache, saves, history>>

-----------------------------------------------------------------------------
Serve == \E r \in requests : Commit(r) \/ Read(r)
Receive == \E a \in answers : ReceiveSave(a) \/ ReceiveQuery(a)

Next ==
  \/ \E i \in Item : SelectFuel(i)
  \/ VisitPage
  \/ \E u \in unmapped, d \in Item : handleApply(u, d)
  \/ \E t \in FuelType : handleRemove(t)
  \/ Serve
  \/ Receive
  \/ \E r \in requests : FetchFails(r)
  \/ LoseSave
  \/ Expire

(* The server answers, and the client handles the answers.                 *)
Fairness == WF_vars(Serve) /\ WF_vars(Receive)

Spec == Init /\ [][Next]_vars
FairSpec == Spec /\ Fairness

-----------------------------------------------------------------------------
(* When nothing is in flight, both lists of the page are the database's:   *)
(* the answers are applied piece by piece, each with a list of unmapped    *)
(* types as of its own commit, and yet nothing is missing or twice,        *)
(* although several were in flight at once.  This needs that no answer was *)
(* lost or overtaken (one from the cache counts as such when something was *)
(* saved since), and that no row was mapped before the answers to what was *)
(* already asked of it had come: a button that removes a type can be       *)
(* pressed twice, and the second request can remove what was mapped after  *)
(* the answer to the first.                                                *)
SettledMappingsAreRight ==
  InFlight = {} /\ ~ doubt =>
    unmapped = unmapped_fuel(mapping) /\ lists = MappedTo(mapping)
=============================================================================
